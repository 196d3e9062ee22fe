-------------------------- MODULE ControlAnalysis --------------------------
(* What the semantic analyzer makes of the same programs.  It goes through    *)
(* every statement once, in order, whatever the conditions are: which names   *)
(* are declared, whether break and continue have a loop, what functions and   *)
(* matches return and whether every path through them does.                   *)
EXTENDS ControlFlow

(* The analyzer's state:                                                      *)
(*   ok        nothing was refused so far                                     *)
(*   names     the names of each scope                                        *)
(*   inLoop    loop_depth # 0                                                 *)
(*   inside    function_depth # 0                                             *)
(*   gives     function_return, the type that is declared                     *)
(*   inferred  inferred_return, the type of the first return                  *)
(*   returns   saw_return: the statements so far return on every path         *)
(*   vague     auxiliary: a type was inferred from returns on some paths only *)
Outside == [ok |-> TRUE, names |-> <<{}>>, inLoop |-> FALSE, inside |-> FALSE,
            gives |-> None, inferred |-> None, returns |-> FALSE, vague |-> FALSE]

Refuse(env) == [env EXCEPT !.ok = FALSE]
Require(condition, env) == IF condition THEN env ELSE Refuse(env)

RECURSIVE AnalyzeStatements(_, _)

-----------------------------------------------------------------------------
(* Blocks *)

\* The blocks of a statement.
Bodies(s) ==
  CASE s.op = "if" -> {s.then, s.else}
    [] s.op = "try" -> {s.body, s.finally} \cup {s.catches[i].body : i \in DOMAIN s.catches}
    [] s.op \in {"for", "while"} -> {s.body}
    [] OTHER -> {}

\* A block with a scope of its own, in a state that is otherwise env.
AnalyzeBlock(block, names, env) ==
  AnalyzeStatements(block, [env EXCEPT !.names = Append(@, names), !.returns = FALSE])

\* The state after a block: its scope is gone, its verdict and the return type stay.
After(block, env) ==
  [env EXCEPT !.ok = block.ok, !.inferred = block.inferred, !.vague = block.vague]

\* A block returns somewhere, not counting the functions and matches in it.
RECURSIVE Returns(_)
Returns(block) ==
  \E i \in DOMAIN block :
    \/ block[i].op = "return"
    \/ \E inner \in Bodies(block[i]) : Returns(inner)

ReturnsSometimes(block, env) == Returns(block) /\ ~env.returns

-----------------------------------------------------------------------------
(* Expressions: the state after one, with its type *)

\* Variant: an arm belongs to the loop around the match.
AnalyzeArmInLoop(arm, env) ==
  LET block == AnalyzeBlock(arm.body, {}, env)
  IN  [ok |-> block.ok, type |-> IF block.returns THEN block.inferred ELSE arm.result,
       vague |-> block.vague \/ ReturnsSometimes(arm.body, block)]

\* One arm: it is no part of the loop and of the returns around it.  An arm that
\* returns on every path has the type it returns, any other the type of its result.
AnalyzeArm(arm, env) ==
  LET block == AnalyzeBlock(arm.body, {}, [env EXCEPT !.inLoop = FALSE])
  IN  [ok |-> block.ok, type |-> IF block.returns THEN block.inferred ELSE arm.result,
       vague |-> block.vague \/ ReturnsSometimes(arm.body, block)]

\* Only the last arm takes everything, and all arms have one type.
AnalyzeMatch(arms, env) ==
  LET analyzed == {AnalyzeArm(arms[i], env) : i \in DOMAIN arms}
      types == {arm.type : arm \in analyzed}
      ok == /\ \A i \in DOMAIN arms : arms[i].always <=> i = Len(arms)
            /\ \A arm \in analyzed : arm.ok
            /\ Cardinality(types) = 1
  IN  [env |-> Require(ok, [env EXCEPT !.vague = @ \/ \E arm \in analyzed : arm.vague]),
       type |-> CHOOSE t \in types : TRUE]

\* A call of a function that is declared at the top of the file.  Without a
\* declared type it has the type of its first return, or none.
AnalyzeCall(call, env) ==
  LET body == AnalyzeBlock(call.body, {}, [Outside EXCEPT !.inside = TRUE, !.gives = call.gives])
      inferred == IF body.inferred = None THEN "Unit" ELSE body.inferred
      vague == body.vague \/ (call.gives = None /\ ReturnsSometimes(call.body, body))
  IN  [env |-> Require(body.ok /\ (call.gives # None => body.returns),
                       [env EXCEPT !.vague = @ \/ vague]),
       type |-> IF call.gives = None THEN inferred ELSE call.gives]

AnalyzeExpression(value, env) ==
  CASE value.op = "constant" -> [env |-> env, type |-> value.type]
    [] value.op = "match" -> AnalyzeMatch(value.arms, env)
    [] value.op = "call" -> AnalyzeCall(value, env)

-----------------------------------------------------------------------------
(* Statements *)

AnalyzeDeclare(s, env) ==
  Require(s.name \notin Last(env.names),
          [env EXCEPT !.names[Len(env.names)] = @ \cup {s.name}])

AnalyzeUse(s, env) ==
  Require(\E i \in DOMAIN env.names : s.name \in env.names[i], env)

AnalyzeReturn(s, env) ==
  LET value == AnalyzeExpression(s.value, env)
      fits == {env.gives, env.inferred} \subseteq {None, value.type}
  IN  Require(env.inside /\ fits,
              [value.env EXCEPT !.inferred = IF @ = None THEN value.type ELSE @,
                                !.returns = TRUE])

AnalyzeIf(s, env) ==
  LET then == AnalyzeBlock(s.then, {}, env)
      else == AnalyzeBlock(s.else, {}, After(then, env))
  IN  [After(else, env) EXCEPT !.returns = @ \/ (then.returns /\ else.returns)]

AnalyzeFor(s, env) ==
  After(AnalyzeBlock(s.body, {s.name}, [env EXCEPT !.inLoop = TRUE]), env)

\* while has no scope: what its body declares stays declared.
AnalyzeWhile(s, env) ==
  LET body == AnalyzeStatements(s.body, [env EXCEPT !.inLoop = TRUE])
  IN  [After(body, env) EXCEPT !.names = body.names]

\* A catch clause after another, each from the state the one before it left.
AnalyzeCatches(catches, env) ==
  FoldLeft(LAMBDA before, clause :
             LET block == AnalyzeBlock(clause.body, {clause.binding} \ {None}, before)
             IN  [After(block, before) EXCEPT !.returns = @ /\ block.returns],
           [env EXCEPT !.returns = TRUE], catches)

\* Variant: the scope of the try block is still there in the finally block.
AnalyzeTryKeeping(s, env) ==
  LET body == AnalyzeBlock(s.body, {}, env)
      catches == AnalyzeCatches(s.catches, After(body, env))
      declared == AnalyzeStatements(s.body, env).names
      finally == AnalyzeBlock(s.finally, {}, [After(catches, env) EXCEPT !.names = declared])
  IN  [After(finally, env) EXCEPT
         !.returns = @ \/ finally.returns \/ (body.returns /\ catches.returns)]

\* Variant: a try block that returns is enough.
AnalyzeTryUncaught(s, env) ==
  LET body == AnalyzeBlock(s.body, {}, env)
      catches == AnalyzeCatches(s.catches, After(body, env))
      finally == AnalyzeBlock(s.finally, {}, After(catches, env))
  IN  [After(finally, env) EXCEPT !.returns = @ \/ finally.returns \/ body.returns]

AnalyzeTry(s, env) ==
  LET body == AnalyzeBlock(s.body, {}, env)
      catches == AnalyzeCatches(s.catches, After(body, env))
      finally == AnalyzeBlock(s.finally, {}, After(catches, env))
  IN  [After(finally, env) EXCEPT
         !.returns = @ \/ finally.returns \/ (body.returns /\ catches.returns)]

AnalyzeStatement(s, env) ==
  CASE s.op = "declare" -> AnalyzeDeclare(s, env)
    [] s.op = "use" -> AnalyzeUse(s, env)
    [] s.op = "fail" -> env
    [] s.op \in {"break", "continue"} -> Require(env.inLoop, env)
    [] s.op = "return" -> AnalyzeReturn(s, env)
    [] s.op = "evaluate" -> AnalyzeExpression(s.value, env).env
    [] s.op = "if" -> AnalyzeIf(s, env)
    [] s.op = "for" -> AnalyzeFor(s, env)
    [] s.op = "while" -> AnalyzeWhile(s, env)
    [] s.op = "try" -> AnalyzeTry(s, env)

AnalyzeStatements(statements, env) ==
  IF statements = <<>> \/ ~env.ok THEN env
  ELSE AnalyzeStatements(Tail(statements), AnalyzeStatement(Head(statements), env))

Verdict == AnalyzeStatements(program, Outside)
Accepted == Verdict.ok

-----------------------------------------------------------------------------
(* Parts of a program, for the exceptions below *)

\* The blocks of the matches and functions a statement evaluates.
Answers(s) ==
  IF s.op \notin {"evaluate", "return"} THEN {}
  ELSE CASE s.value.op = "match" -> {s.value.arms[i].body : i \in DOMAIN s.value.arms}
         [] s.value.op = "call" -> {s.value.body}
         [] OTHER -> {}

RECURSIVE Within(_)
Within(block) ==
  {block} \cup UNION {UNION {Within(inner) : inner \in Bodies(block[i]) \cup Answers(block[i])} :
                      i \in DOMAIN block}

\* A block declares a name in the scope it runs in.
RECURSIVE Declares(_)
Declares(block) ==
  \E i \in DOMAIN block :
    block[i].op = "declare" \/ (block[i].op = "while" /\ Declares(block[i].body))

\* Some loop runs a declaration again and again in one scope.
DeclaresInLoop ==
  \E block \in Within(program) : \E i \in DOMAIN block :
    /\ block[i].op = "while" \/ (block[i].op = "for" /\ ~block[i].byRef)
    /\ Declares(block[i].body)

-----------------------------------------------------------------------------
(* Properties *)

Fails(codes) == Failed(outcome) /\ outcome.code \in codes

\* In a program the analyzer accepts, no break, continue or return ends without the
\* loop or function it is for: none crosses a call or a match, not even from a
\* finally block, and none reaches the top level.
AcceptedControlHasTarget == Fails({"control"}) => ~Accepted

\* In a program the analyzer accepts, every name is found and none is declared
\* twice, on whatever path, with the scopes that the evaluator opens; except where a
\* declaration is repeated in the scope of a loop.
AcceptedNamesResolve == Fails({"name", "declaration"}) => ~Accepted \/ DeclaresInLoop

\* In a program the analyzer accepts, a function that declares a type returns a
\* value of it: "every path returns" is true of every path, through try, catch and
\* finally and through matches that return; except where a type was inferred from
\* returns on some paths.
AcceptedFunctionsReturn == Fails({"type"}) => ~Accepted \/ Verdict.vague
=============================================================================
