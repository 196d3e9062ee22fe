---------------------------- MODULE ControlFlow ----------------------------
(* How statements end.  The evaluator runs a block by recursion: each of its  *)
(* statements ends normally, with a break, a continue, a return or an error,  *)
(* and every construct around it decides what becomes of that.  Here the      *)
(* recursion is a stack of constructs, each with the statements it has left.  *)
(*                                                                            *)
(* Programs are data.  Conditions, patterns and guards, the number of items   *)
(* of a loop and the errors of expressions are chosen when they are needed.   *)
EXTENDS Integers, Sequences, FiniteSets, SequencesExt

CONSTANTS
  Name,         \* names of variables
  Stmt,         \* the statements of the programs and of the blocks in them
  Programs,     \* the programs: sequences of statements
  MaxRounds,    \* at most so many rounds of a loop
  None          \* no code, no binding, no declared type

VARIABLES
  program,      \* the program that runs
  frames,       \* the open constructs, outermost first
  scopes,       \* the names of each open scope
  outcome,      \* how the innermost construct's block ended, or Running
  ledger        \* auxiliary: finally blocks due and begun, errors raised and settled

vars == <<program, frames, scopes, outcome, ledger>>

-----------------------------------------------------------------------------
(* Outcomes *)

Running == [flow |-> "Running"]
Normal == [flow |-> "None"]
Break == [flow |-> "Break"]
Continue == [flow |-> "Continue"]
Return(type) == [flow |-> "Return", type |-> type]
Error(code) == [flow |-> "Error", code |-> code]

Failed(result) == result.flow = "Error"

\* What an error of each kind is called in a catch clause.  A thrown value has
\* the code of errors without one of their own.
Code == {"name", "declaration", "division", "general", "control", "type", "reference"}
Type == {"Int", "String", "Unit"}

-----------------------------------------------------------------------------
(* Programs *)

Block == Seq(Stmt)

CatchClause == [code : Code \cup {None}, binding : Name \cup {None}, body : Block]
MatchArm == [always : BOOLEAN, guarded : BOOLEAN, body : Block, result : Type]

\* Expressions: constants, and those that run blocks.
Literal == [op : {"constant"}, type : Type]
Computed == [op : {"match"}, arms : Seq(MatchArm)]
              \cup [op : {"call"}, gives : Type \cup {None}, body : Block]

Syntax ==
  [op : {"declare", "use"}, name : Name]
    \cup [op : {"fail"}, code : Code]
    \cup [op : {"break", "continue"}]
    \cup [op : {"return"}, value : Literal \cup Computed]
    \cup [op : {"evaluate"}, value : Computed]
    \cup [op : {"if"}, then : Block, else : Block]
    \cup [op : {"for"}, byRef : BOOLEAN, name : Name, body : Block]
    \cup [op : {"while"}, body : Block]
    \cup [op : {"try"}, body : Block, catches : Seq(CatchClause), finally : Block]

ASSUME ProgramAssumption ==
  /\ Stmt \subseteq Syntax
  /\ Programs \subseteq Block
  /\ MaxRounds \in Nat \ {0}

-----------------------------------------------------------------------------
(* The stack *)

Top == Last(frames)
Here == Head(Top.rest)
Advanced == [frames EXCEPT ![Len(frames)].rest = Tail(@)]
Stopped(stack) == IF stack = <<>> THEN stack
                  ELSE [stack EXCEPT ![Len(stack)].rest = <<>>]

\* The scopes after `count` calls of pop_scope.
Popped(count) == SubSeq(scopes, 1, Len(scopes) - count)

\* The statement at hand is an operation of this kind.
At(op) == outcome = Running /\ frames # <<>> /\ Top.rest # <<>> /\ Here.op = op

\* The block of a construct of this kind has ended.
Ending(construct) == outcome # Running /\ frames # <<>> /\ Top.construct = construct

Proceed == frames' = Advanced /\ outcome' = Running

\* The block ends here and now.
Stop(result) == frames' = Stopped(frames) /\ outcome' = result

RaisedHere == [ledger EXCEPT !.raised = @ + 1]

Raise(code) == Stop(Error(code)) /\ ledger' = RaisedHere

\* A construct is entered: its frame remembers the scopes it began with, which
\* nothing but ScopesRestored reads.
Enter(frame, opened) ==
  /\ frames' = Append(Advanced, frame)
  /\ scopes' = scopes \o opened
  /\ outcome' = Running

\* The innermost construct is left with this result for the one around it.
Leave(result) ==
  /\ frames' = IF result = Normal THEN Front(frames) ELSE Stopped(Front(frames))
  /\ outcome' = IF result = Normal THEN Running ELSE result

\* Its value is what a return statement returns, or nobody's.
LeaveWithValue(type) == Leave(IF Top.returns THEN Return(type) ELSE Normal)

-----------------------------------------------------------------------------
(* Statements without blocks *)

Declare ==
  /\ At("declare")
  /\ IF Here.name \in Last(scopes)
       THEN Raise("declaration") /\ UNCHANGED scopes
       ELSE /\ Proceed
            /\ scopes' = [scopes EXCEPT ![Len(scopes)] = @ \cup {Here.name}]
            /\ UNCHANGED ledger
  /\ UNCHANGED program

Use ==
  /\ At("use")
  /\ IF \E i \in DOMAIN scopes : Here.name \in scopes[i]
       THEN Proceed /\ UNCHANGED ledger
       ELSE Raise("name")
  /\ UNCHANGED <<program, scopes>>

\* An expression that fails, the condition of an if or of the first round of a
\* while among them; a value that is thrown.
Fail ==
  /\ At("fail")
  /\ Raise(Here.code)
  /\ UNCHANGED <<program, scopes>>

LoopControl ==
  /\ At("break") \/ At("continue")
  /\ Stop(IF Here.op = "break" THEN Break ELSE Continue)
  /\ UNCHANGED <<program, scopes, ledger>>

ReturnConstant ==
  /\ At("return")
  /\ Here.value.op = "constant"
  /\ Stop(Return(Here.value.type))
  /\ UNCHANGED <<program, scopes, ledger>>

\* The last statement has ended normally.
EndOfBlock ==
  /\ outcome = Running
  /\ frames # <<>>
  /\ Top.rest = <<>>
  /\ outcome' = Normal
  /\ UNCHANGED <<program, frames, scopes, ledger>>

-----------------------------------------------------------------------------
(* Branches and loops *)

EnterIf ==
  /\ At("if")
  /\ \E block \in {Here.then, Here.else} :
       Enter([construct |-> "if", outer |-> scopes, rest |-> block], <<{}>>)
  /\ UNCHANGED <<program, ledger>>

LeaveIf ==
  /\ Ending("if")
  /\ scopes' = Popped(1)
  /\ Leave(outcome)
  /\ UNCHANGED <<program, ledger>>

\* Without items the loop's scope is opened and closed again, and so it is when
\* the collection of a loop by reference is lent to somebody else.  By reference,
\* each item has a scope of its own; by value, one scope serves all.
EnterFor ==
  /\ At("for")
  /\ \/ Proceed /\ UNCHANGED <<scopes, ledger>>
     \/ Here.byRef /\ Raise("reference") /\ UNCHANGED scopes
     \/ /\ \E items \in 1..MaxRounds :
             Enter([construct |-> "for", outer |-> scopes, rest |-> Here.body,
                    body |-> Here.body, name |-> Here.name, byRef |-> Here.byRef,
                    left |-> items - 1],
                   IF Here.byRef THEN <<{}, {Here.name}>> ELSE <<{Here.name}>>)
        /\ UNCHANGED ledger
  /\ UNCHANGED program

\* The loop goes on, or its last item is done.
NextRound(construct) ==
  /\ Ending(construct)
  /\ outcome \in {Normal, Continue}
  /\ Top.left > 0
  /\ frames' = [frames EXCEPT ![Len(frames)].rest = Top.body, ![Len(frames)].left = @ - 1]
  /\ outcome' = Running

NextItem ==
  /\ NextRound("for")
  /\ scopes' = IF Top.byRef THEN Append(Popped(1), {Top.name})
               ELSE [scopes EXCEPT ![Len(scopes)] = @ \cup {Top.name}]
  /\ UNCHANGED <<program, ledger>>

\* What a loop makes of the way its body ended.
AfterLoop == IF outcome \in {Normal, Continue, Break} THEN Normal ELSE outcome

\* Variant: the error leaves the loop before the scope of the item is popped.
LeaveForAtOnce ==
  /\ Ending("for")
  /\ outcome \in {Normal, Continue} => Top.left = 0
  /\ scopes' = Popped(IF Top.byRef /\ ~Failed(outcome) THEN 2 ELSE 1)
  /\ Leave(AfterLoop)
  /\ UNCHANGED <<program, ledger>>

LeaveFor ==
  /\ Ending("for")
  /\ outcome \in {Normal, Continue} => Top.left = 0
  /\ scopes' = Popped(IF Top.byRef THEN 2 ELSE 1)
  /\ Leave(AfterLoop)
  /\ UNCHANGED <<program, ledger>>

EnterWhile ==
  /\ At("while")
  /\ \/ Proceed /\ UNCHANGED scopes
     \/ Enter([construct |-> "while", outer |-> scopes, rest |-> Here.body,
               body |-> Here.body, left |-> MaxRounds - 1], <<>>)
  /\ UNCHANGED <<program, ledger>>

RepeatWhile ==
  /\ NextRound("while")
  /\ UNCHANGED <<program, scopes, ledger>>

\* The condition of a later round fails.
FailCondition ==
  /\ Ending("while")
  /\ outcome \in {Normal, Continue}
  /\ Leave(Error("division"))
  /\ ledger' = RaisedHere
  /\ UNCHANGED <<program, scopes>>

\* Variant: while closes a scope it has not opened.
LeaveWhileScoped ==
  /\ Ending("while")
  /\ scopes' = Popped(1)
  /\ Leave(AfterLoop)
  /\ UNCHANGED <<program, ledger>>

LeaveWhile ==
  /\ Ending("while")
  /\ Leave(AfterLoop)
  /\ UNCHANGED <<program, scopes, ledger>>

-----------------------------------------------------------------------------
(* try, catch, finally *)

\* execute_scoped opens no scope for an empty block.
ScopeFor(block) == IF block = <<>> THEN <<>> ELSE <<{}>>
Scoped(block) == Len(ScopeFor(block))

EnterTry ==
  /\ At("try")
  /\ Enter([construct |-> "try", outer |-> scopes, rest |-> Here.body,
            body |-> Here.body, catches |-> Here.catches, finally |-> Here.finally],
           ScopeFor(Here.body))
  /\ ledger' = [ledger EXCEPT !.due = @ + 1]
  /\ UNCHANGED program

\* The clauses that take this error; the first of them does.
Taking(catches, code) ==
  {i \in DOMAIN catches : catches[i].code = None \/ catches[i].code = code}

Caught == Failed(outcome) /\ Taking(Top.catches, outcome.code) # {}

Begun == [ledger EXCEPT !.begun = @ + 1]

\* try or catch is done; what it ended with waits for the finally block.
Finally(popped) ==
  /\ frames' = Append(Front(frames),
                      [construct |-> "finally", rest |-> Top.finally, body |-> Top.finally,
                       pending |-> outcome, outer |-> Top.outer])
  /\ scopes' = Popped(popped) \o ScopeFor(Top.finally)
  /\ outcome' = Running
  /\ ledger' = Begun

CatchError ==
  /\ Ending("try")
  /\ Caught
  /\ \E i \in Taking(Top.catches, outcome.code) :
       /\ \A j \in Taking(Top.catches, outcome.code) : i <= j
       /\ frames' = Append(Front(frames),
                           [construct |-> "catch", rest |-> Top.catches[i].body,
                            finally |-> Top.finally, outer |-> Top.outer])
       /\ scopes' = Append(Popped(Scoped(Top.body)), {Top.catches[i].binding} \ {None})
  /\ outcome' = Running
  /\ ledger' = [ledger EXCEPT !.settled = @ + 1]
  /\ UNCHANGED program

LeaveTry ==
  /\ Ending("try")
  /\ ~Caught
  /\ Finally(Scoped(Top.body))
  /\ UNCHANGED program

\* Variant: an error of a catch clause leaves the statement at once.
LeaveCatchAtOnce ==
  /\ Ending("catch")
  /\ IF Failed(outcome)
       THEN scopes' = Popped(1) /\ Leave(outcome) /\ UNCHANGED ledger
       ELSE Finally(1)
  /\ UNCHANGED program

LeaveCatch ==
  /\ Ending("catch")
  /\ Finally(1)
  /\ UNCHANGED program

\* Variant: what was pending is forgotten when the finally block ends normally.
LeaveFinallyForgetting ==
  /\ Ending("finally")
  /\ scopes' = Popped(Scoped(Top.body))
  /\ Leave(outcome)
  /\ ledger' = IF outcome # Normal /\ Failed(Top.pending)
               THEN [ledger EXCEPT !.settled = @ + 1] ELSE ledger
  /\ UNCHANGED program

\* Whatever the finally block did comes first.
LeaveFinally ==
  /\ Ending("finally")
  /\ scopes' = Popped(Scoped(Top.body))
  /\ Leave(IF outcome = Normal THEN Top.pending ELSE outcome)
  /\ ledger' = IF outcome # Normal /\ Failed(Top.pending)
               THEN [ledger EXCEPT !.settled = @ + 1] ELSE ledger
  /\ UNCHANGED program

-----------------------------------------------------------------------------
(* Matches and calls: expressions with blocks *)

\* The expression of this statement, unless it is a constant.
Evaluating(op) == (At("evaluate") \/ At("return")) /\ Here.value.op = op
Returned == Here.op = "return"

\* An arm runs when those before it did not match, or their guards were false.
EnterMatch ==
  /\ Evaluating("match")
  /\ LET arms == Here.value.arms
         open == {i \in DOMAIN arms : \A j \in 1..(i - 1) : ~arms[j].always}
     IN  \/ \E i \in open :
              Enter([construct |-> "match", outer |-> scopes, rest |-> arms[i].body,
                     result |-> arms[i].result, returns |-> Returned], <<{}>>)
              /\ UNCHANGED ledger
         \/ /\ \E i \in open : arms[i].guarded      \* the guard fails
            /\ Raise("division") /\ UNCHANGED scopes
         \/ /\ \A i \in DOMAIN arms : ~arms[i].always
            /\ Raise("general") /\ UNCHANGED scopes
  /\ UNCHANGED program

LeaveMatch ==
  /\ Ending("match")
  /\ scopes' = Popped(1)
  /\ CASE outcome = Normal -> LeaveWithValue(Top.result) /\ UNCHANGED ledger
       [] outcome.flow = "Return" -> LeaveWithValue(outcome.type) /\ UNCHANGED ledger
       [] outcome \in {Break, Continue} -> Leave(Error("control")) /\ ledger' = RaisedHere
       [] Failed(outcome) -> Leave(outcome) /\ UNCHANGED ledger
  /\ UNCHANGED program

EnterCall ==
  /\ Evaluating("call")
  /\ Enter([construct |-> "call", outer |-> scopes, rest |-> Here.value.body,
            gives |-> Here.value.gives, returns |-> Returned], <<{}>>)
  /\ UNCHANGED <<program, ledger>>

\* The value of a call, and whether it has the type the function gives.
Answer == IF outcome = Normal THEN "Unit" ELSE outcome.type

LeaveCall ==
  /\ Ending("call")
  /\ scopes' = Popped(1)
  /\ CASE outcome \in {Break, Continue} -> Leave(Error("control")) /\ ledger' = RaisedHere
       [] Failed(outcome) -> Leave(outcome) /\ UNCHANGED ledger
       [] OTHER -> IF Top.gives \in {None, Answer}
                     THEN LeaveWithValue(Answer) /\ UNCHANGED ledger
                     ELSE Leave(Error("type")) /\ ledger' = RaisedHere
  /\ UNCHANGED program

-----------------------------------------------------------------------------
(* The program *)

LeaveProgram ==
  /\ Ending("program")
  /\ frames' = <<>>
  /\ IF outcome = Normal \/ Failed(outcome)
       THEN UNCHANGED <<outcome, ledger>>
       ELSE outcome' = Error("control") /\ ledger' = RaisedHere
  /\ UNCHANGED <<program, scopes>>

Done == frames = <<>> /\ UNCHANGED vars

Init ==
  /\ program \in Programs
  /\ scopes = <<{}>>
  /\ frames = <<[construct |-> "program", rest |-> program, outer |-> scopes]>>
  /\ outcome = Running
  /\ ledger = [due |-> 0, begun |-> 0, raised |-> 0, settled |-> 0]

Statement == Declare \/ Use \/ Fail \/ LoopControl \/ ReturnConstant \/ EndOfBlock
Branch == EnterIf \/ LeaveIf \/ EnterFor \/ NextItem \/ LeaveFor
            \/ EnterWhile \/ RepeatWhile \/ FailCondition \/ LeaveWhile
Protected == EnterTry \/ CatchError \/ LeaveTry \/ LeaveCatch \/ LeaveFinally
Expression == EnterMatch \/ LeaveMatch \/ EnterCall \/ LeaveCall

Next == Statement \/ Branch \/ Protected \/ Expression \/ LeaveProgram \/ Done

Spec == Init /\ [][Next]_vars
-----------------------------------------------------------------------------
(* Properties *)

Outcome ==
  {Running, Normal, Break, Continue} \cup {Return(t) : t \in Type} \cup {Error(c) : c \in Code}

Stack == Seq(SUBSET Name)

Frame ==
  [construct : {"program", "if"}, outer : Stack, rest : Block]
    \cup [construct : {"for"}, outer : Stack, rest : Block, body : Block,
          name : Name, byRef : BOOLEAN, left : Nat]
    \cup [construct : {"while"}, outer : Stack, rest : Block, body : Block, left : Nat]
    \cup [construct : {"try"}, outer : Stack, rest : Block, body : Block,
          catches : Seq(CatchClause), finally : Block]
    \cup [construct : {"catch"}, outer : Stack, rest : Block, finally : Block]
    \cup [construct : {"finally"}, outer : Stack, rest : Block, body : Block,
          pending : Outcome \ {Running}]
    \cup [construct : {"match"}, outer : Stack, rest : Block, result : Type, returns : BOOLEAN]
    \cup [construct : {"call"}, outer : Stack, rest : Block, gives : Type \cup {None},
          returns : BOOLEAN]

TypeOK ==
  /\ program \in Block
  /\ frames \in Seq(Frame)
  /\ \A i \in DOMAIN frames : frames[i].construct = "program" <=> i = 1
  /\ scopes \in Stack /\ scopes # <<>>
  /\ outcome \in Outcome
  /\ ledger \in [due : Nat, begun : Nat, raised : Nat, settled : Nat]

\* This step restores the scopes of the construct it leaves, if it leaves one.
RestoresScopes ==
  Len(frames') < Len(frames) =>
    LET outer == Last(frames).outer
    IN  /\ Len(scopes') = Len(outer)
        /\ Front(scopes') = Front(outer)
        /\ Last(outer) \subseteq Last(scopes')
        /\ Last(scopes') = Last(outer) \/ Last(frames).construct \in {"while", "program"}

\* However a construct is left - at its end, by break, continue or return, by an
\* error of its block, of a guard or of the finally block itself - the scopes are
\* those it was entered with.  Only while has no scope: its block may have added
\* names to the innermost one.
ScopesRestored == [][RestoresScopes]_vars

\* Every try that was entered begins its finally block exactly once, whatever its
\* body and its catch clause did; none is skipped and none runs twice.
FinallyAlwaysRuns ==
  ledger.due - ledger.begun =
    Cardinality({i \in DOMAIN frames : frames[i].construct \in {"try", "catch"}})

\* An error that was raised is on its way out, waits for a finally block, was taken
\* by a catch clause, or was replaced by what a finally block did.  None disappears,
\* and none is reported twice.
ErrorsAreNotLost ==
  ledger.raised - ledger.settled =
    Cardinality({i \in DOMAIN frames :
                   frames[i].construct = "finally" /\ Failed(frames[i].pending)})
      + (IF Failed(outcome) THEN 1 ELSE 0)
=============================================================================
