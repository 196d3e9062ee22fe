------------------------------ MODULE Imports ------------------------------
(***************************************************************************)
(* Executing a file and the modules it opens (evaluator/imports.rs, and    *)
(* the statements of evaluator/execution.rs that declare, open, export and *)
(* call).  Each occurrence of an import runs the module in an evaluator of *)
(* its own; the functions it exports then run in the importer's evaluator, *)
(* and know their module's bindings only by what they captured.            *)
(*                                                                         *)
(* One control stack holds what the recursion of load_import,              *)
(* execute_statements and invoke_function holds: a frame per file and per  *)
(* call being executed.                                                    *)
(*                                                                         *)
(* The free names of a body, computed by recursion over its statements,    *)
(* are a parameter here; CheckedImports gives it its value.                *)
(***************************************************************************)
EXTENDS Texts

CONSTANTS Root,           \* the executed file
          Statements,     \* the statements of the programs, nested ones included
          Programs,       \* the programs: functions from Files to texts
          Free(_),        \* the names a body uses and does not bind before
          MaxCallDepth    \* limits::MAX_CALL_DEPTH

VARIABLES disk,        \* the texts of the files
          evaluators,  \* one record per execution of a file, kept for reference
          functions,   \* the heap of function values
          control,     \* the frames being executed, the innermost last
          result,      \* what the frame that was left last hands to its caller
          status,      \* "running", "done", or the kind of the error
          lastRead     \* a name a function just read that it does not bind itself

vars == <<disk, evaluators, functions, control, result, status, lastRead>>

Unit == [kind |-> "unit"]
Number(v) == [kind |-> "number", v |-> v]
Function(f) == [kind |-> "function", f |-> f]
Instance(id) == [kind |-> "struct", id |-> id]

Anonymous == "(message)"
Nothing == [kind |-> "nothing"]
NoRead == [f |-> 0, n |-> Anonymous, v |-> Unit]

(* Texts are sequences of statements, to the innermost body; the parser    *)
(* gives every function a name; a path names a file or nothing.            *)
ASSUME ProgramsAreTexts ==
    /\ Root \in Files /\ Nowhere \notin Files
    /\ Programs \subseteq [Files -> Seq(Statements)]
    /\ \A s \in Statements :
        /\ s.op \in {"fn", "message"} => s.body \in Seq(Statements)
        /\ s.op = "fn" => s.n # Anonymous
        /\ Opens(s) => \A file \in Files : Locate[file][s.path] \in Files \cup {Nowhere}

-----------------------------------------------------------------------------
(* Bindings over others, and a single one.                                 *)
Over(f, g) == [n \in (DOMAIN f) \cup (DOMAIN g) |-> IF n \in DOMAIN f THEN f[n] ELSE g[n]]

Only(n, v) == [m \in {n} |-> v]

(* The innermost value of every visible name.                              *)
Innermost(scopes, n) ==
    CHOOSE i \in DOMAIN scopes :
        /\ n \in DOMAIN scopes[i]
        /\ \A j \in DOMAIN scopes : j > i => n \notin DOMAIN scopes[j]

Seen(scopes) ==
    [n \in UNION {DOMAIN scopes[i] : i \in DOMAIN scopes} |-> scopes[Innermost(scopes, n)][n]]

ValuesFor(scopes, names) ==
    LET seen == Seen(scopes) IN [n \in names \cap DOMAIN seen |-> seen[n]]

-----------------------------------------------------------------------------
Top == Last(control)
Current == Top.ev
Self == evaluators[Current]
Statement == Top.body[Top.pc]

Running == status = "running" /\ control # <<>>
At(op) == Running /\ Top.pc \in DOMAIN Top.body /\ Statement.op = op
AtOpen == Running /\ Top.pc \in DOMAIN Top.body /\ Opens(Statement)

Imported(e) == Len(evaluators[e].stack) > 1

(* The names an evaluator may read now.                                    *)
Looked(n) == n \in DOMAIN Seen(Self.scopes)
LookUp(n) == Seen(Self.scopes)[n]

Advanced == [control EXCEPT ![Len(control)].pc = @ + 1]

(* The running evaluator, with names bound in its innermost scope.         *)
Binding(locals) == [Self EXCEPT !.scopes[Len(Self.scopes)] = Over(locals, @)]

(* The handle of the n-th function inserted into the heap by a step.       *)
HandleSkips(n) == Len(functions) + n + 1

Handle(n) == Len(functions) + n

Fail(kind) ==
    /\ status' = kind
    /\ UNCHANGED <<disk, evaluators, functions, control, result, lastRead>>

Evaluator(file, stack) ==
    [file |-> file, stack |-> stack, scopes |-> << <<>> >>, structs |-> <<>>,
     behaviors |-> <<>>, hoisted |-> {}]

FileFrame(e, file) ==
    [ev |-> e, role |-> "file", f |-> 0, body |-> disk[file], pc |-> 0, scopes |-> 0]

NewFunction(n, body, captures, home, sees) ==
    [n |-> n, body |-> body, free |-> Free(body) \ {n}, captures |-> captures,
     home |-> home, sees |-> sees]

-----------------------------------------------------------------------------
(* Entering a file: its structs and messages are registered, and the       *)
(* functions of the executed file are hoisted, before its first statement. *)
(* Handles are given in some order.                                        *)
StatementsOf(text, op) ==
    LET places == SetToSeq(Places(text, op)) IN [i \in DOMAIN places |-> text[places[i]]]

Hoists(e) == ~Imported(e)

Register ==
    /\ Running
    /\ Top.pc = 0
    /\ LET text == Top.body
           structs == [n \in NamesOf(text, "struct") |-> Identity(Self.file, n)]
           messages == StatementsOf(text, "message")
           hoisted == IF Hoists(Current) THEN StatementsOf(text, "fn") ELSE <<>>
           Key(i) == <<structs[messages[i].n], messages[i].m>>
           made == [i \in DOMAIN messages |->
                       NewFunction(Anonymous, messages[i].body, <<>>, Current, <<>>)]
                   \o [i \in DOMAIN hoisted |->
                       NewFunction(hoisted[i].n, hoisted[i].body, <<>>, Current, <<>>)]
           names == {hoisted[i].n : i \in DOMAIN hoisted}
       IN  IF Cardinality(NamesOf(text, "struct")) # Cardinality(Places(text, "struct"))
              \/ Cardinality(names) # Len(hoisted)
           THEN Fail("duplicate")
           ELSE IF \E i \in DOMAIN messages : messages[i].n \notin DOMAIN structs
           THEN Fail("message")
           ELSE IF \E i, j \in DOMAIN messages : i < j /\ Key(i) = Key(j)
           THEN Fail("duplicate")
           ELSE /\ functions' = functions \o made
                /\ evaluators' = [evaluators EXCEPT ![Current] =
                     [Binding([n \in names |-> Function(Handle(Len(messages)
                                 + CHOOSE i \in DOMAIN hoisted : hoisted[i].n = n))]) EXCEPT
                        !.structs = structs,
                        !.behaviors = [k \in {Key(i) : i \in DOMAIN messages} |->
                                         Handle(CHOOSE i \in DOMAIN messages : Key(i) = k)],
                        !.hoisted = names]]
                /\ control' = Advanced
                /\ UNCHANGED <<disk, result, status, lastRead>>

(* Struct and message statements were dealt with when the file was entered.*)
SkipDeclaration ==
    /\ At("struct") \/ At("message")
    /\ control' = Advanced
    /\ UNCHANGED <<disk, evaluators, functions, result, status, lastRead>>

ExportStatement ==
    /\ At("export")
    /\ IF Current = 1 THEN Fail("import")
       ELSE /\ control' = Advanced
            /\ UNCHANGED <<disk, evaluators, functions, result, status, lastRead>>

-----------------------------------------------------------------------------
(* A function value takes a snapshot of its free names where it is nested, *)
(* and in every module; a top-level function of the executed file takes    *)
(* none and replaces its hoisted value.                                    *)
SnapshotsNested == Len(Self.scopes) > 1

Snapshots == Len(Self.scopes) > 1 \/ Imported(Current)

Captures(names) == IF Snapshots THEN ValuesFor(Self.scopes, names) ELSE <<>>

DeclareFunction ==
    /\ At("fn")
    /\ LET n == Statement.n
           depth == Len(Self.scopes)
           hoisted == depth = 1 /\ n \in Self.hoisted
           sees == IF depth > 1 \/ Imported(Current) THEN Seen(Self.scopes) ELSE <<>>
       IN  IF n \in DOMAIN Self.scopes[depth] /\ ~hoisted THEN Fail("duplicate")
           ELSE /\ functions' = Append(functions,
                     NewFunction(n, Statement.body, Captures(Free(Statement.body) \ {n}),
                                 Current, sees))
                /\ evaluators' = [evaluators EXCEPT ![Current] =
                     [Binding(Only(n, Function(Handle(1)))) EXCEPT
                        !.hoisted = IF hoisted THEN @ \ {n} ELSE @]]
                /\ control' = Advanced
                /\ UNCHANGED <<disk, result, status, lastRead>>

-----------------------------------------------------------------------------
(* What a module hands over when it returns.  Its exported functions that  *)
(* captured nothing, and the messages of its exported structs, now take    *)
(* their snapshot of the module's bindings.                                *)
ExportsOf(e) == ToSet(Exported(disk[evaluators[e].file]))

ExportedFunctions(e) ==
    LET seen == Seen(evaluators[e].scopes)
    IN  {seen[n].f : n \in {m \in ExportsOf(e) \cap DOMAIN seen : seen[m].kind = "function"}}

ExportedTypes(e) ==
    (ExportsOf(e) \ DOMAIN Seen(evaluators[e].scopes)) \cap DOMAIN evaluators[e].structs

BehaviorsOf(e, id) == {k \in DOMAIN evaluators[e].behaviors : k[1] = id}

RecapturedValues(e) ==
    LET bare == {f \in ExportedFunctions(e) : functions[f].captures = <<>>}
    IN  <<>> \o [f \in DOMAIN functions |->
            IF f \in bare
            THEN [functions[f] EXCEPT !.captures =
                    ValuesFor(evaluators[e].scopes, functions[f].free)]
            ELSE functions[f]]

Recaptured(e) ==
    LET messages == {evaluators[e].behaviors[k] :
                        k \in UNION {BehaviorsOf(e, evaluators[e].structs[n]) : n \in ExportedTypes(e)}}
        bare == {f \in ExportedFunctions(e) : functions[f].captures = <<>>}
    IN  <<>> \o [f \in DOMAIN functions |->
            IF f \in messages \cup bare
            THEN [functions[f] EXCEPT !.captures =
                    ValuesFor(evaluators[e].scopes, functions[f].free)]
            ELSE functions[f]]

Interchange(e, v) ==
    LET seen == Seen(evaluators[e].scopes)
        Type(n) == evaluators[e].structs[n]
    IN  [kind |-> "module", v |-> v,
         values |-> [n \in ExportsOf(e) \cap DOMAIN seen |-> seen[n]],
         types |-> [n \in ExportedTypes(e) |->
                      [id |-> Type(n),
                       behaviors |-> [k \in BehaviorsOf(e, Type(n)) |-> evaluators[e].behaviors[k]]]]]

PoppedOnce(n) == [evaluators EXCEPT ![Current].scopes = SubSeq(@, 1, Len(@) - 1)]

Popped(n) == [evaluators EXCEPT ![Current].scopes = SubSeq(@, 1, Len(@) - n)]

(* A return leaves the innermost call, or ends the module.                 *)
Leave(v) ==
    /\ control' = Front(control)
    /\ UNCHANGED disk
    /\ IF Top.role = "call"
       THEN /\ evaluators' = Popped(Top.scopes)
            /\ result' = [kind |-> "value", v |-> v]
            /\ UNCHANGED <<functions, status>>
       ELSE IF Current = 1
       THEN /\ status' = "control"
            /\ result' = Nothing
            /\ UNCHANGED <<evaluators, functions>>
       ELSE IF ~(ExportsOf(Current) \subseteq
                    DOMAIN Seen(Self.scopes) \cup DOMAIN Self.structs)
       THEN /\ status' = "import"
            /\ result' = Nothing
            /\ UNCHANGED <<evaluators, functions>>
       ELSE /\ functions' = Recaptured(Current)
            /\ result' = Interchange(Current, v)
            /\ UNCHANGED <<evaluators, status>>

(* The end of a body: a call yields Unit, the executed file is done, and   *)
(* a module that did not return a value is refused.                        *)
EndOfBody ==
    /\ Running
    /\ Top.pc = Len(Top.body) + 1
    /\ IF Top.role = "call" THEN Leave(Unit) /\ lastRead' = NoRead
       ELSE IF Current # 1 THEN Fail("import")
       ELSE /\ status' = "done"
            /\ control' = <<>>
            /\ lastRead' = NoRead
            /\ UNCHANGED <<disk, evaluators, functions, result>>

-----------------------------------------------------------------------------
(* A read of a name the function that is running has not bound itself.     *)
Reading(n, v) ==
    IF Top.f # 0 /\ n \in functions[Top.f].free \ DOMAIN Self.scopes[Len(Self.scopes)]
    THEN [f |-> Top.f, n |-> n, v |-> v] ELSE NoRead

(* Finishing a statement whose value is known.                             *)
Complete(v) ==
    \/ Statement.op = "return" /\ Leave(v)
    \/ /\ Statement.op = "do"
       /\ control' = Advanced
       /\ result' = Nothing
       /\ UNCHANGED <<disk, evaluators, functions, status>>
    \/ /\ Statement.op = "let"
       /\ IF Statement.n \in DOMAIN Self.scopes[Len(Self.scopes)]
          THEN status' = "duplicate" /\ UNCHANGED <<evaluators, control, result>>
          ELSE /\ evaluators' = [evaluators EXCEPT ![Current] = Binding(Only(Statement.n, v))]
               /\ control' = Advanced
               /\ result' = Nothing
               /\ UNCHANGED status
       /\ UNCHANGED <<disk, functions>>

AtExpression(kind) ==
    /\ At("let") \/ At("do") \/ At("return")
    /\ result = Nothing
    /\ Statement.e.kind = kind

EvaluateLiteral ==
    /\ AtExpression("lit")
    /\ Complete(Number(Statement.e.v))
    /\ lastRead' = NoRead

EvaluateName ==
    /\ AtExpression("name")
    /\ LET n == Statement.e.n
       IN  IF ~Looked(n) THEN Fail("name")
           ELSE Complete(LookUp(n)) /\ lastRead' = Reading(n, LookUp(n))

Construct ==
    /\ AtExpression("call")
    /\ Statement.e.n \in DOMAIN Self.structs
    /\ Complete(Instance(Self.structs[Statement.e.n]))
    /\ lastRead' = NoRead

(* The depth of calls is counted in each evaluator.                        *)
CallDepth == Cardinality({i \in DOMAIN control : control[i].ev = Current /\ control[i].role = "call"})

(* The scope of the captures is left out for a function without captures   *)
(* that is itself visible under its name.                                  *)
NeedsScope(f) ==
    \/ functions[f].captures # <<>>
    \/ functions[f].n # Anonymous
         /\ ~(Looked(functions[f].n) /\ LookUp(functions[f].n) = Function(f))

OwnScope(f) ==
    Over(functions[f].captures,
         IF functions[f].n = Anonymous THEN <<>> ELSE Only(functions[f].n, Function(f)))

Invoke(f, read) ==
    IF CallDepth >= MaxCallDepth THEN Fail("limit")
    ELSE LET entered == IF NeedsScope(f) THEN <<OwnScope(f), <<>>>> ELSE << <<>> >>
         IN  /\ control' = Append(control,
                  [ev |-> Current, role |-> "call", f |-> f, body |-> functions[f].body,
                   pc |-> 1, scopes |-> Len(entered)])
             /\ evaluators' = [evaluators EXCEPT ![Current].scopes = @ \o entered]
             /\ lastRead' = read
             /\ UNCHANGED <<disk, functions, result, status>>

CallFunction ==
    /\ AtExpression("call")
    /\ Statement.e.n \notin DOMAIN Self.structs
    /\ LET n == Statement.e.n
       IN  IF ~Looked(n) THEN Fail("name")
           ELSE IF LookUp(n).kind # "function" THEN Fail("type")
           ELSE Invoke(LookUp(n).f, Reading(n, LookUp(n)))

(* A struct receiver is served by the evaluator that runs the send.        *)
SendMessage ==
    /\ AtExpression("send")
    /\ LET t == Statement.e.n
           key == <<Self.structs[t], Statement.e.m>>
       IN  IF t \notin DOMAIN Self.structs THEN Fail("name")
           ELSE IF key \notin DOMAIN Self.behaviors THEN Fail("message")
           ELSE Invoke(Self.behaviors[key], NoRead)

(* The statement that made a call goes on with its value.                  *)
Resume ==
    /\ At("let") \/ At("do") \/ At("return")
    /\ result.kind = "value"
    /\ Complete(result.v)
    /\ lastRead' = NoRead

-----------------------------------------------------------------------------
(* Opening a module: the path is resolved from the file being executed, a  *)
(* file that is already being executed is refused, and so is one that      *)
(* exports a name twice.                                                   *)
CyclicAtRoot(stack, file) == file = stack[1]

Cyclic(stack, file) == Contains(stack, file)

OpenModule ==
    /\ AtOpen
    /\ result = Nothing
    /\ LET file == Locate[Self.file][Statement.path]
       IN  IF file = Nowhere \/ Cyclic(Self.stack, file) THEN Fail("import")
           ELSE IF ~Distinct(Exported(disk[file])) THEN Fail("import")
           ELSE /\ evaluators' = Append(evaluators, Evaluator(file, Append(Self.stack, file)))
                /\ control' = Append(control, FileFrame(Len(evaluators) + 1, file))
                /\ lastRead' = NoRead
                /\ UNCHANGED <<disk, functions, result, status>>

BindAlias ==
    /\ At("open")
    /\ result.kind = "module"
    /\ LET depth == Len(Self.scopes)
           n == Statement.alias
       IN  IF n \in DOMAIN Self.scopes[depth] THEN Fail("duplicate")
           ELSE /\ evaluators' = [evaluators EXCEPT ![Current] = Binding(Only(n, result.v))]
                /\ control' = Advanced
                /\ result' = Nothing
                /\ UNCHANGED <<disk, functions, status, lastRead>>

(* The exposed values are all checked before the first is bound; the types *)
(* are bound after them, with the messages that came along.                *)
BindExposed ==
    /\ At("expose")
    /\ result.kind = "module"
    /\ LET names == Statement.names
           depth == Len(Self.scopes)
           values == {i \in DOMAIN names : names[i][1] \in DOMAIN result.values}
           types == {i \in DOMAIN names \ values : names[i][1] \in DOMAIN result.types}
           locals == {names[i][2] : i \in DOMAIN names}
           bound == {names[i][2] : i \in values}
           typed == {names[i][2] : i \in types}
           ValueOf(l) == result.values[names[CHOOSE i \in values : names[i][2] = l][1]]
           TypeOf(l) == result.types[names[CHOOSE i \in types : names[i][2] = l][1]]
           messages == UNION {DOMAIN TypeOf(l).behaviors : l \in typed}
       IN  IF Cardinality(locals) # Len(names) THEN Fail("duplicate")
           ELSE IF values \cup types # DOMAIN names THEN Fail("import")
           ELSE IF bound \cap (DOMAIN Self.scopes[depth] \cup DOMAIN Self.structs) # {}
                   \/ typed \cap DOMAIN Self.structs # {}
           THEN Fail("duplicate")
           ELSE /\ evaluators' = [evaluators EXCEPT ![Current] =
                     [Binding([l \in bound |-> ValueOf(l)]) EXCEPT
                        !.structs = Over([l \in typed |-> TypeOf(l).id], @),
                        !.behaviors = Over([k \in messages |->
                            TypeOf(CHOOSE l \in typed : k \in DOMAIN TypeOf(l).behaviors).behaviors[k]],
                            @)]]
                /\ control' = Advanced
                /\ result' = Nothing
                /\ UNCHANGED <<disk, functions, status, lastRead>>

-----------------------------------------------------------------------------
Init ==
    /\ disk \in Programs
    /\ evaluators = <<Evaluator(Root, <<Root>>)>>
    /\ functions = <<>>
    /\ control = <<FileFrame(1, Root)>>
    /\ result = Nothing
    /\ status = "running"
    /\ lastRead = NoRead

Stopped == status # "running" /\ UNCHANGED vars

Next ==
    \/ Register \/ SkipDeclaration \/ ExportStatement \/ DeclareFunction
    \/ EvaluateLiteral \/ EvaluateName \/ Construct
    \/ CallFunction \/ SendMessage \/ Resume \/ EndOfBody
    \/ OpenModule \/ BindAlias \/ BindExposed
    \/ Stopped

Spec == Init /\ [][Next]_vars
-----------------------------------------------------------------------------
ErrorKinds == {"import", "name", "duplicate", "message", "limit", "type", "control"}

Handles(values) ==
    {values[n].f : n \in {m \in DOMAIN values : values[m].kind = "function"}}

(* Every handle names a function of the heap and every frame an evaluator  *)
(* and a place in its text; captures and bindings never dangle, whichever  *)
(* evaluator made the function.                                            *)
TypeOK ==
    /\ status \in {"running", "done"} \cup ErrorKinds
    /\ \A e \in DOMAIN evaluators :
        /\ evaluators[e].file \in Files
        /\ \A i \in DOMAIN evaluators[e].scopes :
                Handles(evaluators[e].scopes[i]) \subseteq DOMAIN functions
        /\ \A k \in DOMAIN evaluators[e].behaviors :
                evaluators[e].behaviors[k] \in DOMAIN functions
    /\ \A f \in DOMAIN functions :
        /\ functions[f].home \in DOMAIN evaluators
        /\ Handles(functions[f].captures) \subseteq DOMAIN functions
    /\ \A i \in DOMAIN control :
        /\ control[i].ev \in DOMAIN evaluators
        /\ control[i].pc \in 0 .. Len(control[i].body) + 1

(* The files being executed are those of the import stack of the running   *)
(* evaluator, in order, and none is among them twice: however files open   *)
(* each other, and under whichever paths, no file waits for itself         *)
(* (load_import's cycle check).                                            *)
OpenFiles(i) == Cardinality({j \in 1 .. i : control[j].role = "file"})

NoFileWaitsForItself ==
    Running =>
        /\ Len(Self.stack) = OpenFiles(Len(control))
        /\ \A i \in DOMAIN control :
                control[i].role = "file" =>
                    Self.stack[OpenFiles(i)] = evaluators[control[i].ev].file
        /\ Distinct(Self.stack)

(* While the program runs, an evaluator holds its global scope and the     *)
(* scopes of the calls it is executing, and a module that was left holds   *)
(* no scope of a call: calls across modules pop what they pushed, where    *)
(* they pushed it (invoke_function_value_with_context).                    *)
Pushed(e) ==
    {p \in (DOMAIN control) \X (1 .. 2) :
        control[p[1]].ev = e /\ p[2] <= control[p[1]].scopes}

ScopesFollowCalls ==
    Running =>
        \A e \in DOMAIN evaluators :
            Len(evaluators[e].scopes) = 1 + Cardinality(Pushed(e))

-----------------------------------------------------------------------------
Globals(e) == evaluators[e].scopes[1]

Named(f) == functions[f].n # Anonymous

(* A function that is nested or belongs to a module reads, under every     *)
(* name that was visible where it was declared and that it does not bind   *)
(* itself, the value the name had there: in whichever evaluator it is      *)
(* called, whatever that evaluator or its callers call by the same name,   *)
(* and whatever its module does after it (the captures of                  *)
(* execution.rs:680, and the scope objects.rs:671 gives them).             *)
FunctionsReadTheirModule ==
    LET f == lastRead.f
        n == lastRead.n
    IN  f # 0 /\ Named(f) /\ n \in DOMAIN functions[f].sees =>
            lastRead.v = functions[f].sees[n]

(* A message that another evaluator runs reads what its own module bound   *)
(* at its top level, once the module has returned, unless a second module  *)
(* exports the struct again (the captures load_import adds when the module *)
(* returns, imports.rs:143).                                               *)
ExportsAgain(e) ==
    \E n \in ExportsOf(e) \cap DOMAIN evaluators[e].structs :
        evaluators[e].structs[n][1] # evaluators[e].file

Left(e) == \A i \in DOMAIN control : control[i].ev # e

NothingExportedAgain == \A e \in DOMAIN evaluators : ~ExportsAgain(e)

MessagesReadTheirModule ==
    LET f == lastRead.f
        home == functions[f].home
    IN  /\ f # 0
        /\ ~Named(f)
        /\ Left(home)
        /\ NothingExportedAgain
        /\ lastRead.n \in DOMAIN Globals(home)
        => lastRead.v = Globals(home)[lastRead.n]

=============================================================================
