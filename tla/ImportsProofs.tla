--------------------------- MODULE ImportsProofs ---------------------------
(***************************************************************************)
(* Proofs about Imports: what holds of every program, however its files    *)
(* open each other.                                                        *)
(***************************************************************************)
EXTENDS Imports, FiniteSetTheorems, SequenceTheorems, WellFoundedInduction, TLAPS

(* Sequences whose elements have no type worth naming.                     *)
IsSeq(s) == s \in Seq(ToSet(s))

Frames ==
    [ev : Nat, role : {"file", "call"}, f : Nat, body : Seq(Statements), pc : Nat, scopes : 0 .. 2]

EvaluatorFields == {"file", "stack", "scopes", "structs", "behaviors", "hoisted"}
FunctionFields == {"n", "body", "free", "captures", "home", "sees"}

(* The handles in values name functions that have a name of their own, and *)
(* those of messages name functions that have none.                        *)
Safe(fs, v) == v.kind = "function" => v.f \in DOMAIN fs /\ fs[v.f].n # Anonymous
SafeMap(fs, m) == \A n \in DOMAIN m : Safe(fs, m[n])
SafeMessages(fs, b) == \A k \in DOMAIN b : b[k] \in DOMAIN fs /\ fs[b[k]].n = Anonymous

EvaluatorOK(fs, r) ==
    /\ DOMAIN r = EvaluatorFields
    /\ r.file \in Files
    /\ r.stack \in Seq(Files)
    /\ IsSeq(r.scopes)
    /\ \A i \in DOMAIN r.scopes : SafeMap(fs, r.scopes[i])
    /\ SafeMessages(fs, r.behaviors)

FunctionOK(fs, homes, r) ==
    /\ DOMAIN r = FunctionFields
    /\ r.body \in Seq(Statements)
    /\ r.home \in homes
    /\ SafeMap(fs, r.captures)

FrameOK(fs, homes, t) ==
    /\ t.ev \in homes
    /\ t.pc \in 0 .. Len(t.body) + 1
    /\ t.role = "file" => t.f = 0 /\ t.scopes = 0
    /\ t.role = "call" => t.f \in DOMAIN fs /\ t.scopes # 0 /\ t.pc # 0

ResultOK(fs, r) ==
    \/ r.kind = "nothing"
    \/ r.kind = "value" /\ Safe(fs, r.v)
    \/ /\ r.kind = "module"
       /\ Safe(fs, r.v)
       /\ SafeMap(fs, r.values)
       /\ \A n \in DOMAIN r.types : SafeMessages(fs, r.types[n].behaviors)

EvaluatorsOK == IsSeq(evaluators) /\ \A e \in DOMAIN evaluators : EvaluatorOK(functions, evaluators[e])

FunctionsOK ==
    /\ IsSeq(functions)
    /\ \A f \in DOMAIN functions : FunctionOK(functions, DOMAIN evaluators, functions[f])

ControlOK ==
    /\ control \in Seq(Frames)
    /\ \A i \in DOMAIN control : FrameOK(functions, DOMAIN evaluators, control[i])

TypeInv ==
    /\ disk \in Programs
    /\ status \in {"running", "done"} \cup ErrorKinds
    /\ EvaluatorsOK
    /\ FunctionsOK
    /\ ControlOK
    /\ ResultOK(functions, result)

-----------------------------------------------------------------------------
FilesIn(ctl, i) == Cardinality({j \in 1 .. i : ctl[j].role = "file"})

(* What the frames before the i-th pushed in an evaluator, and the scopes  *)
(* that the evaluator of a frame had when the frame was entered.           *)
Before(ctl, e, i) ==
    {p \in (1 .. i - 1) \X (1 .. 2) : ctl[p[1]].ev = e /\ p[2] <= ctl[p[1]].scopes}

Base(ctl, i) == 1 + Cardinality(Before(ctl, ctl[i].ev, i))

StackOf(i) == evaluators[control[i].ev].stack

(* Frames follow each other: a call runs in the evaluator of its caller, a *)
(* file in a new one.                                                      *)
FramesFollow ==
    /\ control[1].role = "file"
    /\ \A i \in DOMAIN control : i # 1 /\ control[i].role = "call" =>
            control[i].ev = control[i - 1].ev
    /\ \A i, j \in DOMAIN control : i < j =>
            /\ control[i].ev <= control[j].ev
            /\ control[j].role = "file" => control[i].ev < control[j].ev

(* The import stack of a frame's evaluator is that of the frames below it, *)
(* and its own file.                                                       *)
StacksFollow ==
    /\ \A i \in DOMAIN control :
        /\ Len(StackOf(i)) = FilesIn(control, i)
        /\ StackOf(i)[Len(StackOf(i))] = evaluators[control[i].ev].file
        /\ \A j, k \in DOMAIN StackOf(i) : StackOf(i)[j] = StackOf(i)[k] => j = k
    /\ \A i, j \in DOMAIN control : i < j =>
        \A k \in DOMAIN StackOf(i) : StackOf(j)[k] = StackOf(i)[k]

EnteredIsFresh ==
    \A i \in DOMAIN control : control[i].pc = 0 =>
        /\ i = Len(control)
        /\ evaluators[control[i].ev].structs = <<>>
        /\ evaluators[control[i].ev].behaviors = <<>>

Structure == FramesFollow /\ StacksFollow /\ ScopesFollowCalls /\ EnteredIsFresh

-----------------------------------------------------------------------------
Own(i) == evaluators[control[i].ev].scopes[Base(control, i) + 1]

Gives(m, n, v) == n \in DOMAIN m /\ m[n] = v

(* What a function saw where it was declared is among its captures.        *)
Captured(r) ==
    \A n \in r.free \cap DOMAIN r.sees : Gives(r.captures, n, r.sees[n])

CapturesSeen == \A f \in DOMAIN functions : Named(f) => Captured(functions[f])

(* A call has them in the scope beneath its locals.                        *)
CallSees(i) ==
    control[i].role = "call" /\ Named(control[i].f) =>
        LET f == control[i].f
        IN  \A n \in functions[f].free \cap DOMAIN functions[f].sees :
                control[i].scopes = 2 /\ Gives(Own(i), n, functions[f].sees[n])

CallsSee == \A i \in DOMAIN control : CallSees(i)

ReadsSeen ==
    /\ lastRead.f # 0 => lastRead.f \in DOMAIN functions /\ lastRead.n \in functions[lastRead.f].free
    /\ FunctionsReadTheirModule

(* The messages an evaluator has from another are those of a module that   *)
(* has returned, with the captures it gave them then.                      *)
CapturesOf(f) ==
    functions[f].captures = ValuesFor(evaluators[functions[f].home].scopes, functions[f].free)

Foreign(f, file) ==
    /\ Left(functions[f].home)
    /\ evaluators[functions[f].home].file # file
    /\ CapturesOf(f)

MessageKnown(e, k, f) ==
    /\ k[1][1] = evaluators[functions[f].home].file
    /\ functions[f].home = e \/ Foreign(f, evaluators[e].file)

MessagesKnown ==
    \A e \in DOMAIN evaluators : \A k \in DOMAIN evaluators[e].behaviors :
        MessageKnown(e, k, evaluators[e].behaviors[k])

(* So are those a module hands over, and it is the module that declares    *)
(* the types that go with them.                                            *)
HandedOver(home, types) ==
    \A n \in DOMAIN types : \A k \in DOMAIN types[n].behaviors :
        LET f == types[n].behaviors[k]
        IN  functions[f].home = home /\ k[1][1] = evaluators[home].file /\ CapturesOf(f)

MessagesHandedOver ==
    result.kind = "module" =>
        \E home \in DOMAIN evaluators :
            Left(home) /\ evaluators[home].file # Self.file /\ HandedOver(home, result.types)

(* A message called by another evaluator has its module's bindings in the  *)
(* scope beneath its locals.                                               *)
CallKnows(i) ==
    control[i].role = "call" /\ ~Named(control[i].f) =>
        LET f == control[i].f
            home == functions[f].home
        IN  home # control[i].ev =>
              /\ Left(home)
              /\ \A n \in functions[f].free \cap DOMAIN Globals(home) :
                    control[i].scopes = 2 /\ Gives(Own(i), n, Globals(home)[n])

CallsKnow == \A i \in DOMAIN control : CallKnows(i)

Knowledge == NothingExportedAgain => MessagesKnown /\ MessagesHandedOver /\ CallsKnow

IInv ==
    /\ TypeInv
    /\ Running => Structure /\ CallsSee /\ Knowledge
    /\ CapturesSeen
    /\ ReadsSeen
    /\ MessagesReadTheirModule
-----------------------------------------------------------------------------
(* Sequences.                                                              *)
LEMMA MakesSeq == ASSUME NEW S, NEW s \in Seq(S) PROVE IsSeq(s)
BY DEF IsSeq, ToSet

LEMMA SeqFacts ==
    ASSUME NEW s, IsSeq(s)
    PROVE  Len(s) \in Nat /\ DOMAIN s = 1 .. Len(s)
BY DEF IsSeq

LEMMA ListIsSeq ==
    ASSUME NEW n \in Nat, NEW f, DOMAIN f = 1 .. n, f = [i \in 1 .. n |-> f[i]]
    PROVE  IsSeq(f) /\ Len(f) = n
<1>1. f \in [1 .. n -> ToSet(f)]
    BY DEF ToSet
<1>2. f \in Seq(ToSet(f))
    BY <1>1
<1> QED BY <1>2 DEF IsSeq

LEMMA EmptyIsSeq == IsSeq(<<>>) /\ Len(<<>>) = 0
<1>1. <<>> \in Seq({})
    OBVIOUS
<1> QED BY <1>1, MakesSeq

LEMMA WithinSeq ==
    ASSUME NEW s, NEW S, IsSeq(s)
    PROVE  s \in Seq(ToSet(s) \cup S)
BY SeqMonotonic DEF IsSeq

LEMMA AppendIs ==
    ASSUME NEW s, NEW x, IsSeq(s)
    PROVE  /\ IsSeq(Append(s, x)) /\ Len(Append(s, x)) = Len(s) + 1
           /\ DOMAIN Append(s, x) = 1 .. Len(s) + 1
           /\ Append(s, x)[Len(s) + 1] = x
           /\ \A i \in 1 .. Len(s) : Append(s, x)[i] = s[i]
<1> DEFINE S == ToSet(s) \cup {x}
<1>1. s \in Seq(S) /\ x \in S
    BY WithinSeq
<1> HIDE DEF S
<1>2. /\ Append(s, x) \in Seq(S) /\ Len(Append(s, x)) = Len(s) + 1
      /\ Append(s, x)[Len(s) + 1] = x
      /\ \A i \in 1 .. Len(s) : Append(s, x)[i] = s[i]
    BY <1>1, AppendProperties
<1>3. IsSeq(Append(s, x))
    BY <1>2, MakesSeq
<1> QED BY <1>2, <1>3, SeqFacts

LEMMA ReplacedIs ==
    ASSUME NEW s, IsSeq(s), NEW i \in 1 .. Len(s), NEW x
    PROVE  /\ IsSeq([s EXCEPT ![i] = x]) /\ Len([s EXCEPT ![i] = x]) = Len(s)
           /\ \A j \in 1 .. Len(s) : [s EXCEPT ![i] = x][j] = IF j = i THEN x ELSE s[j]
<1> DEFINE S == ToSet(s) \cup {x}
<1>1. s \in Seq(S) /\ x \in S
    BY WithinSeq
<1> HIDE DEF S
<1>2. /\ [s EXCEPT ![i] = x] \in Seq(S) /\ Len([s EXCEPT ![i] = x]) = Len(s)
      /\ \A j \in 1 .. Len(s) : [s EXCEPT ![i] = x][j] = IF j = i THEN x ELSE s[j]
    BY <1>1, ExceptSeq
<1> QED BY <1>2, MakesSeq

LEMMA PrefixIs ==
    ASSUME NEW s, NEW m, IsSeq(s), m \in 0 .. Len(s)
    PROVE  /\ IsSeq(SubSeq(s, 1, m)) /\ Len(SubSeq(s, 1, m)) = m
           /\ \A i \in 1 .. m : SubSeq(s, 1, m)[i] = s[i]
<1>1. Len(s) \in Nat /\ DOMAIN s = 1 .. Len(s)
    BY SeqFacts
<1>2. m \in Int /\ \A i \in 1 .. m : s[i] \in ToSet(s)
    BY <1>1 DEF ToSet
<1>3. /\ SubSeq(s, 1, m) \in Seq(ToSet(s)) /\ Len(SubSeq(s, 1, m)) = IF 1 <= m THEN m - 1 + 1 ELSE 0
      /\ \A i \in 1 .. m - 1 + 1 : SubSeq(s, 1, m)[i] = s[1 + i - 1]
    BY <1>2, SubSeqProperties
<1>4. Len(SubSeq(s, 1, m)) = m /\ \A i \in 1 .. m : SubSeq(s, 1, m)[i] = s[i]
    BY <1>1, <1>3
<1> QED BY <1>3, <1>4, MakesSeq

LEMMA ConcatIs ==
    ASSUME NEW s, NEW t, IsSeq(s), IsSeq(t)
    PROVE  /\ IsSeq(s \o t) /\ Len(s \o t) = Len(s) + Len(t)
           /\ \A i \in 1 .. Len(s) : (s \o t)[i] = s[i]
           /\ \A i \in 1 .. Len(t) : (s \o t)[Len(s) + i] = t[i]
<1> DEFINE S == ToSet(s) \cup ToSet(t)
<1>1. s \in Seq(S) /\ t \in Seq(S)
    BY WithinSeq
<1> HIDE DEF S
<1>2. /\ s \o t \in Seq(S) /\ Len(s \o t) = Len(s) + Len(t)
      /\ \A i \in 1 .. Len(s) + Len(t) : (s \o t)[i] = IF i <= Len(s) THEN s[i] ELSE t[i - Len(s)]
    BY <1>1, ConcatProperties
<1>3. Len(s) \in Nat /\ Len(t) \in Nat
    BY SeqFacts
<1>4. \A i \in 1 .. Len(s) : (s \o t)[i] = s[i]
    BY <1>2, <1>3
<1>5. \A i \in 1 .. Len(t) : (s \o t)[Len(s) + i] = t[i]
    BY <1>2, <1>3
<1> QED BY <1>2, <1>4, <1>5, MakesSeq

(* Control stacks.                                                         *)
LEMMA TopFacts ==
    ASSUME TypeInv, Running
    PROVE  /\ Len(control) \in Nat \ {0} /\ Len(control) \in DOMAIN control
           /\ DOMAIN control = 1 .. Len(control)
           /\ Top = control[Len(control)] /\ Top \in Frames
           /\ Current = Top.ev /\ Current \in DOMAIN evaluators /\ Current \in Nat
           /\ FrameOK(functions, DOMAIN evaluators, Top)
<1>1. control \in Seq(Frames) /\ control # <<>>
    BY DEF TypeInv, ControlOK, Running
<1>2. Len(control) \in Nat \ {0} /\ Len(control) \in DOMAIN control /\ DOMAIN control = 1 .. Len(control)
    BY <1>1
<1>3. Top = control[Len(control)] /\ Top \in Frames
    BY <1>1, <1>2 DEF Top, Last
<1>4. FrameOK(functions, DOMAIN evaluators, Top)
    BY <1>2, <1>3 DEF TypeInv, ControlOK
<1> QED BY <1>2, <1>3, <1>4 DEF FrameOK, Current, Frames

LEMMA EvaluatorFacts ==
    ASSUME TypeInv, NEW e \in DOMAIN evaluators
    PROVE  /\ DOMAIN evaluators = 1 .. Len(evaluators) /\ Len(evaluators) \in Nat
           /\ EvaluatorOK(functions, evaluators[e]) /\ IsSeq(evaluators[e].scopes)
           /\ Len(evaluators[e].scopes) \in Nat
           /\ DOMAIN evaluators[e].scopes = 1 .. Len(evaluators[e].scopes)
<1>1. IsSeq(evaluators) /\ EvaluatorOK(functions, evaluators[e])
    BY DEF TypeInv, EvaluatorsOK
<1> QED BY <1>1, SeqFacts DEF EvaluatorOK

LEMMA SelfFacts ==
    ASSUME TypeInv, Running
    PROVE  /\ Self = evaluators[Current] /\ EvaluatorOK(functions, Self) /\ IsSeq(Self.scopes)
           /\ Len(Self.scopes) \in Nat /\ DOMAIN Self.scopes = 1 .. Len(Self.scopes)
BY TopFacts, EvaluatorFacts DEF Self

LEMMA StatementFacts ==
    ASSUME TypeInv, Running, Top.pc \in DOMAIN Top.body
    PROVE  /\ Statement \in Statements
           /\ Top.pc \in Nat \ {0} /\ Top.pc + 1 \in 0 .. Len(Top.body) + 1
           /\ Top.body \in Seq(Statements)
<1>1. Top.body \in Seq(Statements)
    BY TopFacts DEF Frames
<1>2. Top.pc \in 1 .. Len(Top.body) /\ Len(Top.body) \in Nat
    BY <1>1
<1> QED BY <1>1, <1>2 DEF Statement

LEMMA DiskIsText ==
    ASSUME TypeInv, NEW file \in Files PROVE disk[file] \in Seq(Statements)
BY ProgramsAreTexts DEF TypeInv

-----------------------------------------------------------------------------
(* Functions are only ever added to the heap, and keep all but captures.   *)
Grows(fs, gs) ==
    /\ DOMAIN fs \subseteq DOMAIN gs
    /\ \A f \in DOMAIN fs :
        /\ gs[f].n = fs[f].n /\ gs[f].body = fs[f].body /\ gs[f].free = fs[f].free
        /\ gs[f].home = fs[f].home /\ gs[f].sees = fs[f].sees

LEMMA SafeGrows ==
    ASSUME NEW fs, NEW gs, Grows(fs, gs)
    PROVE  /\ \A v : Safe(fs, v) => Safe(gs, v)
           /\ \A m : SafeMap(fs, m) => SafeMap(gs, m)
           /\ \A b : SafeMessages(fs, b) => SafeMessages(gs, b)
<1>1. \A v : Safe(fs, v) => Safe(gs, v)
    BY DEF Safe, Grows
<1>2. \A m : SafeMap(fs, m) => SafeMap(gs, m)
    BY <1>1 DEF SafeMap
<1>3. \A b : SafeMessages(fs, b) => SafeMessages(gs, b)
    BY DEF SafeMessages, Grows
<1> QED BY <1>1, <1>2, <1>3

LEMMA AllGrow ==
    ASSUME NEW fs, NEW gs, Grows(fs, gs)
    PROVE  /\ \A r : EvaluatorOK(fs, r) => EvaluatorOK(gs, r)
           /\ \A homes, t : FrameOK(fs, homes, t) => FrameOK(gs, homes, t)
           /\ \A r : ResultOK(fs, r) => ResultOK(gs, r)
<1>1. \A r : EvaluatorOK(fs, r) => EvaluatorOK(gs, r)
    BY SafeGrows DEF EvaluatorOK
<1>2. \A homes, t : FrameOK(fs, homes, t) => FrameOK(gs, homes, t)
    BY DEF FrameOK, Grows
<1>3. \A r : ResultOK(fs, r) => ResultOK(gs, r)
    BY SafeGrows DEF ResultOK
<1> QED BY <1>1, <1>2, <1>3

(* What a step does to the parts of the state, and that it keeps types.    *)
LEMMA KeepEvaluators ==
    ASSUME TypeInv, Grows(functions, functions'), evaluators' = evaluators
    PROVE  EvaluatorsOK'
BY AllGrow DEF TypeInv, EvaluatorsOK

LEMMA ReplaceSelf ==
    ASSUME TypeInv, Running, Grows(functions, functions'), NEW r,
           evaluators' = [evaluators EXCEPT ![Current] = r], EvaluatorOK(functions', r)
    PROVE  /\ EvaluatorsOK' /\ DOMAIN evaluators' = DOMAIN evaluators
           /\ evaluators'[Current] = r
           /\ \A e \in DOMAIN evaluators : e # Current => evaluators'[e] = evaluators[e]
<1>1. Current \in DOMAIN evaluators /\ DOMAIN evaluators = 1 .. Len(evaluators)
    BY TopFacts, EvaluatorFacts
<1>2. IsSeq(evaluators')
    BY <1>1, ReplacedIs DEF TypeInv, EvaluatorsOK
<1>3. DOMAIN evaluators' = DOMAIN evaluators /\ evaluators'[Current] = r
      /\ \A e \in DOMAIN evaluators : e # Current => evaluators'[e] = evaluators[e]
    BY <1>1
<1>4. \A e \in DOMAIN evaluators : EvaluatorOK(functions', evaluators[e])
    BY AllGrow DEF TypeInv, EvaluatorsOK
<1> QED BY <1>2, <1>3, <1>4 DEF EvaluatorsOK

LEMMA KeepFunctions ==
    ASSUME TypeInv, functions' = functions, DOMAIN evaluators \subseteq DOMAIN evaluators'
    PROVE  FunctionsOK' /\ Grows(functions, functions')
BY DEF TypeInv, FunctionsOK, FunctionOK, Grows

LEMMA NewFunctionIs ==
    ASSUME NEW n, NEW body, NEW captures, NEW home, NEW sees
    PROVE  LET r == NewFunction(n, body, captures, home, sees)
           IN  /\ DOMAIN r = FunctionFields
               /\ r.n = n /\ r.body = body /\ r.free = Free(body) \ {n}
               /\ r.captures = captures /\ r.home = home /\ r.sees = sees
BY DEF NewFunction, FunctionFields

LEMMA AddFunctions ==
    ASSUME TypeInv, NEW made, IsSeq(made), functions' = functions \o made,
           DOMAIN evaluators' = DOMAIN evaluators,
           \A i \in DOMAIN made : FunctionOK(functions', DOMAIN evaluators, made[i])
    PROVE  /\ FunctionsOK' /\ Grows(functions, functions')
           /\ DOMAIN functions' = 1 .. Len(functions) + Len(made)
           /\ \A f \in DOMAIN functions : functions'[f] = functions[f]
           /\ \A i \in DOMAIN made :
                 Len(functions) + i \in DOMAIN functions' /\ functions'[Len(functions) + i] = made[i]
<1>1. IsSeq(functions) /\ Len(functions) \in Nat /\ DOMAIN functions = 1 .. Len(functions)
    BY SeqFacts DEF TypeInv, FunctionsOK
<1>2. Len(made) \in Nat /\ DOMAIN made = 1 .. Len(made)
    BY SeqFacts
<1>3. /\ IsSeq(functions') /\ Len(functions') = Len(functions) + Len(made)
      /\ \A f \in 1 .. Len(functions) : functions'[f] = functions[f]
      /\ \A i \in 1 .. Len(made) : functions'[Len(functions) + i] = made[i]
    BY <1>1, ConcatIs
<1>4. DOMAIN functions' = 1 .. Len(functions) + Len(made)
    BY <1>3, SeqFacts
<1>5. Grows(functions, functions')
    BY <1>1, <1>2, <1>3, <1>4 DEF Grows
<1>6. ASSUME NEW f \in DOMAIN functions'
      PROVE  FunctionOK(functions', DOMAIN evaluators', functions'[f])
  <2>1. CASE f \in DOMAIN functions
    <3>1. FunctionOK(functions, DOMAIN evaluators, functions[f])
        BY <2>1 DEF TypeInv, FunctionsOK
    <3>2. FunctionOK(functions', DOMAIN evaluators, functions[f])
        BY <3>1, <1>5, SafeGrows DEF FunctionOK
    <3> QED BY <3>2, <2>1, <1>1, <1>3
  <2>2. CASE f \notin DOMAIN functions
    <3>1. f - Len(functions) \in 1 .. Len(made) /\ Len(functions) + (f - Len(functions)) = f
        BY <2>2, <1>1, <1>2, <1>4
    <3> QED BY <3>1, <1>2, <1>3
  <2> QED BY <2>1, <2>2
<1>7. \A i \in 1 .. Len(made) : Len(functions) + i \in DOMAIN functions'
    BY <1>1, <1>2, <1>4
<1> QED BY <1>1, <1>2, <1>3, <1>4, <1>5, <1>6, <1>7 DEF FunctionsOK

LEMMA KeepControl ==
    ASSUME TypeInv, Grows(functions, functions'), control' = control,
           DOMAIN evaluators \subseteq DOMAIN evaluators'
    PROVE  ControlOK'
BY AllGrow DEF TypeInv, ControlOK, FrameOK

LEMMA AdvancedIs ==
    ASSUME TypeInv, Running, Top.pc \in DOMAIN Top.body \/ Top.pc = 0
    PROVE  /\ Advanced \in Seq(Frames) /\ Len(Advanced) = Len(control)
           /\ \A i \in DOMAIN control : i # Len(control) => Advanced[i] = control[i]
           /\ LET t == Advanced[Len(control)]
              IN  /\ t.ev = Top.ev /\ t.role = Top.role /\ t.f = Top.f /\ t.body = Top.body
                  /\ t.scopes = Top.scopes /\ t.pc = Top.pc + 1
                  /\ t.pc \in 1 .. Len(t.body) + 1
<1>1. Top.body \in Seq(Statements) /\ Top \in Frames
    BY TopFacts DEF Frames
<1>2. Top.pc + 1 \in 1 .. Len(Top.body) + 1
    BY <1>1
<1> DEFINE t == [Top EXCEPT !.pc = @ + 1]
<1>3. t \in Frames /\ t.ev = Top.ev /\ t.role = Top.role /\ t.f = Top.f /\ t.body = Top.body
      /\ t.scopes = Top.scopes /\ t.pc = Top.pc + 1
    BY <1>1, <1>2 DEF Frames
<1>4. Advanced = [control EXCEPT ![Len(control)] = t]
    BY TopFacts DEF Advanced
<1> HIDE DEF t
<1>5. control \in Seq(Frames) /\ Len(control) \in 1 .. Len(control)
    BY TopFacts DEF TypeInv, ControlOK
<1>6. /\ Advanced \in Seq(Frames) /\ Len(Advanced) = Len(control)
      /\ \A i \in 1 .. Len(control) : Advanced[i] = IF i = Len(control) THEN t ELSE control[i]
    BY <1>3, <1>4, <1>5, ExceptSeq
<1>7. Advanced[Len(control)] = t /\ \A i \in DOMAIN control : i # Len(control) => Advanced[i] = control[i]
    BY <1>5, <1>6, TopFacts
<1> QED BY <1>2, <1>3, <1>6, <1>7

LEMMA AdvanceControl ==
    ASSUME TypeInv, Running, Top.pc \in DOMAIN Top.body \/ Top.pc = 0,
           Grows(functions, functions'), control' = Advanced,
           DOMAIN evaluators \subseteq DOMAIN evaluators'
    PROVE  ControlOK'
<1>1. control' \in Seq(Frames) /\ DOMAIN control' = 1 .. Len(control)
    BY AdvancedIs
<1>2. ASSUME NEW i \in DOMAIN control'
      PROVE  FrameOK(functions', DOMAIN evaluators', control'[i])
  <2>1. CASE i = Len(control)
    <3>1. FrameOK(functions', DOMAIN evaluators, Top)
        BY TopFacts, AllGrow
    <3> QED BY <2>1, <3>1, AdvancedIs DEF FrameOK
  <2>2. CASE i # Len(control)
    <3>1. i \in DOMAIN control /\ control'[i] = control[i]
        BY <1>1, <2>2, AdvancedIs, TopFacts
    <3>2. FrameOK(functions', DOMAIN evaluators, control[i])
        BY <3>1, AllGrow DEF TypeInv, ControlOK
    <3> QED BY <3>1, <3>2 DEF FrameOK
  <2> QED BY <2>1, <2>2
<1> QED BY <1>1, <1>2 DEF ControlOK

LEMMA FrontIs ==
    ASSUME NEW s \in Seq(Frames), s # <<>>
    PROVE  /\ Front(s) \in Seq(Frames) /\ Len(Front(s)) = Len(s) - 1
           /\ DOMAIN Front(s) = 1 .. Len(s) - 1 /\ Len(s) \in Nat \ {0}
           /\ \A i \in 1 .. Len(s) - 1 : Front(s)[i] = s[i]
<1> DEFINE m == Len(s) - 1
<1>1. Len(s) \in Nat \ {0} /\ m \in 0 .. Len(s) /\ m \in Int /\ IsSeq(s)
    BY MakesSeq
<1>2. Front(s) = SubSeq(s, 1, m)
    BY DEF Front
<1>3. \A i \in 1 .. m : s[i] \in Frames
    BY <1>1
<1> HIDE DEF m
<1>4. SubSeq(s, 1, m) \in Seq(Frames)
    BY <1>1, <1>3, SubSeqProperties
<1>5. Len(SubSeq(s, 1, m)) = m /\ \A i \in 1 .. m : SubSeq(s, 1, m)[i] = s[i]
    BY <1>1, PrefixIs
<1>6. DOMAIN SubSeq(s, 1, m) = 1 .. m
    BY <1>4, <1>5, LenProperties
<1> QED BY <1>1, <1>2, <1>4, <1>5, <1>6 DEF m

LEMMA LeaveControl ==
    ASSUME TypeInv, Running, Grows(functions, functions'), control' = Front(control),
           DOMAIN evaluators \subseteq DOMAIN evaluators'
    PROVE  ControlOK'
<1>0. control \in Seq(Frames) /\ control # <<>> /\ DOMAIN control = 1 .. Len(control)
    BY TopFacts DEF TypeInv, ControlOK, Running
<1>1. control' \in Seq(Frames) /\ DOMAIN control' \subseteq DOMAIN control
      /\ \A i \in DOMAIN control' : control'[i] = control[i]
  <2>1. /\ Front(control) \in Seq(Frames) /\ DOMAIN Front(control) = 1 .. Len(control) - 1
        /\ Len(control) \in Nat
        /\ \A i \in 1 .. Len(control) - 1 : Front(control)[i] = control[i]
      BY <1>0, FrontIs
  <2> QED BY <2>1, <1>0
<1>2. \A i \in DOMAIN control : FrameOK(functions', DOMAIN evaluators, control[i])
    BY AllGrow DEF TypeInv, ControlOK
<1>3. \A i \in DOMAIN control : FrameOK(functions', DOMAIN evaluators', control[i])
    BY <1>2 DEF FrameOK
<1> QED BY <1>1, <1>3 DEF ControlOK

LEMMA EnterControl ==
    ASSUME TypeInv, Running, Grows(functions, functions'), NEW t \in Frames,
           control' = Append(control, t), DOMAIN evaluators \subseteq DOMAIN evaluators',
           FrameOK(functions', DOMAIN evaluators', t)
    PROVE  /\ ControlOK' /\ Len(control') = Len(control) + 1
           /\ DOMAIN control' = 1 .. Len(control) + 1
           /\ control'[Len(control) + 1] = t
           /\ \A i \in DOMAIN control : control'[i] = control[i]
<1>1. /\ control' \in Seq(Frames) /\ Len(control') = Len(control) + 1
      /\ \A i \in 1 .. Len(control) : control'[i] = control[i]
      /\ control'[Len(control) + 1] = t
    BY AppendProperties DEF TypeInv, ControlOK
<1>2. DOMAIN control' = 1 .. Len(control) + 1
    BY <1>1
<1>3. \A i \in DOMAIN control : FrameOK(functions', DOMAIN evaluators, control[i])
    BY AllGrow DEF TypeInv, ControlOK
<1>4. \A i \in DOMAIN control : FrameOK(functions', DOMAIN evaluators', control[i])
    BY <1>3 DEF FrameOK
<1>5. ASSUME NEW i \in DOMAIN control' PROVE FrameOK(functions', DOMAIN evaluators', control'[i])
  <2>1. CASE i = Len(control) + 1
    BY <2>1, <1>1
  <2>2. CASE i # Len(control) + 1
    BY <2>2, <1>1, <1>2, <1>4, TopFacts
  <2> QED BY <2>1, <2>2
<1> QED BY <1>1, <1>2, <1>5, TopFacts DEF ControlOK

-----------------------------------------------------------------------------
(* Names in scopes.                                                        *)
LEMMA Greatest ==
    ASSUME NEW m \in Nat, NEW P \in SUBSET (1 .. m), P # {}
    PROVE  \E i \in P : \A j \in P : j <= i
<1> DEFINE T == {m - i : i \in P}
<1>1. T \subseteq Nat /\ T # {}
  <2>1. PICK i \in P : TRUE
    OBVIOUS
  <2>2. m - i \in T
    OBVIOUS
  <2>3. \A j \in P : m - j \in Nat
    OBVIOUS
  <2> QED BY <2>2, <2>3
<1>2. PICK x \in T : \A y \in T : ~(<<y, x>> \in OpToRel(<, Nat))
    BY <1>1, NatLessThanWellFounded, WFMin
<1>3. \A y \in T : ~(y < x)
  <2>1. \A y \in T : y < x => <<y, x>> \in OpToRel(<, Nat)
    BY <1>1 DEF OpToRel
  <2> QED BY <1>2, <2>1
<1>4. PICK i \in P : x = m - i
    BY <1>2
<1>5. ASSUME NEW j \in P PROVE j <= i
  <2>1. m - j \in T
    OBVIOUS
  <2>2. ~(m - j < x)
    BY <1>3, <2>1
  <2> QED BY <1>4, <2>2
<1> QED BY <1>4, <1>5

LEMMA InnermostIs ==
    ASSUME NEW scopes, IsSeq(scopes), NEW n, NEW k \in DOMAIN scopes, n \in DOMAIN scopes[k]
    PROVE  /\ Innermost(scopes, n) \in DOMAIN scopes
           /\ n \in DOMAIN scopes[Innermost(scopes, n)]
           /\ \A j \in DOMAIN scopes : j > Innermost(scopes, n) => n \notin DOMAIN scopes[j]
<1> DEFINE P == {i \in DOMAIN scopes : n \in DOMAIN scopes[i]}
<1>1. Len(scopes) \in Nat /\ DOMAIN scopes = 1 .. Len(scopes)
    BY SeqFacts
<1>2. P \in SUBSET (1 .. Len(scopes)) /\ P # {}
    BY <1>1
<1> HIDE DEF P
<1>3. PICK i \in P : \A j \in P : j <= i
    BY <1>1, <1>2, Greatest
<1>4. /\ i \in DOMAIN scopes /\ n \in DOMAIN scopes[i]
      /\ \A j \in DOMAIN scopes : j > i => n \notin DOMAIN scopes[j]
    BY <1>1, <1>3 DEF P
<1> QED BY <1>4 DEF Innermost

LEMMA SeenIs ==
    ASSUME NEW scopes, IsSeq(scopes), NEW n \in DOMAIN Seen(scopes)
    PROVE  \E i \in DOMAIN scopes : n \in DOMAIN scopes[i] /\ Seen(scopes)[n] = scopes[i][n]
<1>1. PICK k \in DOMAIN scopes : n \in DOMAIN scopes[k]
    BY DEF Seen
<1>2. Innermost(scopes, n) \in DOMAIN scopes /\ n \in DOMAIN scopes[Innermost(scopes, n)]
    BY <1>1, InnermostIs
<1>3. Seen(scopes)[n] = scopes[Innermost(scopes, n)][n]
    BY DEF Seen
<1> QED BY <1>2, <1>3

LEMMA SeenAt ==
    ASSUME NEW scopes, IsSeq(scopes), NEW n, NEW k \in DOMAIN scopes, n \in DOMAIN scopes[k],
           \A j \in DOMAIN scopes : j > k => n \notin DOMAIN scopes[j]
    PROVE  n \in DOMAIN Seen(scopes) /\ Seen(scopes)[n] = scopes[k][n]
<1>1. /\ Innermost(scopes, n) \in DOMAIN scopes
      /\ n \in DOMAIN scopes[Innermost(scopes, n)]
      /\ \A j \in DOMAIN scopes : j > Innermost(scopes, n) => n \notin DOMAIN scopes[j]
    BY InnermostIs
<1>2. DOMAIN scopes \subseteq Nat
    BY SeqFacts
<1>3. Innermost(scopes, n) = k
    BY <1>1, <1>2
<1> QED BY <1>3 DEF Seen

LEMMA ValuesIs ==
    ASSUME NEW scopes, NEW names
    PROVE  /\ DOMAIN ValuesFor(scopes, names) = names \cap DOMAIN Seen(scopes)
           /\ \A n \in names \cap DOMAIN Seen(scopes) :
                ValuesFor(scopes, names)[n] = Seen(scopes)[n]
BY DEF ValuesFor

LEMMA ValuesAt ==
    ASSUME NEW scopes, NEW names, NEW n \in DOMAIN ValuesFor(scopes, names)
    PROVE  n \in DOMAIN Seen(scopes) /\ ValuesFor(scopes, names)[n] = Seen(scopes)[n]
<1>1. n \in names \cap DOMAIN Seen(scopes)
    BY ValuesIs
<1> QED BY <1>1, ValuesIs

LEMMA SeenSafe ==
    ASSUME NEW fs, NEW r, EvaluatorOK(fs, r), NEW names
    PROVE  SafeMap(fs, Seen(r.scopes)) /\ SafeMap(fs, ValuesFor(r.scopes, names))
<1>1. ASSUME NEW n \in DOMAIN Seen(r.scopes) PROVE Safe(fs, Seen(r.scopes)[n])
  <2>1. IsSeq(r.scopes) /\ \A i \in DOMAIN r.scopes : SafeMap(fs, r.scopes[i])
    BY DEF EvaluatorOK
  <2>2. PICK i \in DOMAIN r.scopes : n \in DOMAIN r.scopes[i] /\ Seen(r.scopes)[n] = r.scopes[i][n]
    BY <2>1, SeenIs
  <2>3. SafeMap(fs, r.scopes[i])
    BY <2>1
  <2> QED BY <2>2, <2>3 DEF SafeMap
<1>2. SafeMap(fs, ValuesFor(r.scopes, names))
  <2>1. ASSUME NEW n \in DOMAIN ValuesFor(r.scopes, names)
        PROVE  n \in DOMAIN Seen(r.scopes) /\ ValuesFor(r.scopes, names)[n] = Seen(r.scopes)[n]
    BY <2>1, ValuesAt
  <2>2. ASSUME NEW n \in DOMAIN ValuesFor(r.scopes, names) PROVE Safe(fs, ValuesFor(r.scopes, names)[n])
    BY <1>1, <2>1
  <2> QED BY <2>2 DEF SafeMap
<1> QED BY <1>1, <1>2 DEF SafeMap

LEMMA OverIs ==
    ASSUME NEW f, NEW g
    PROVE  /\ DOMAIN Over(f, g) = (DOMAIN f) \cup (DOMAIN g)
           /\ \A x \in DOMAIN f : Over(f, g)[x] = f[x]
           /\ \A x \in (DOMAIN g) \ (DOMAIN f) : Over(f, g)[x] = g[x]
BY DEF Over

LEMMA OnlyIs ==
    ASSUME NEW n, NEW v
    PROVE  DOMAIN Only(n, v) = {n} /\ Only(n, v)[n] = v
BY DEF Only

LEMMA SafeOver ==
    ASSUME NEW fs, NEW f, NEW g, SafeMap(fs, f), SafeMap(fs, g)
    PROVE  SafeMap(fs, Over(f, g))
<1>1. ASSUME NEW x \in DOMAIN Over(f, g) PROVE Safe(fs, Over(f, g)[x])
  <2>1. CASE x \in DOMAIN f
    <3>1. Over(f, g)[x] = f[x]
        BY <2>1, OverIs
    <3> QED BY <2>1, <3>1 DEF SafeMap
  <2>2. CASE x \notin DOMAIN f
    <3>1. x \in DOMAIN g /\ Over(f, g)[x] = g[x]
        BY <2>2 DEF Over
    <3> QED BY <3>1 DEF SafeMap
  <2> QED BY <2>1, <2>2
<1> QED BY <1>1 DEF SafeMap

LEMMA SafeOnly ==
    ASSUME NEW fs, NEW n, NEW v, Safe(fs, v) PROVE SafeMap(fs, Only(n, v))
BY DEF SafeMap, Only

LEMMA SafeNone == ASSUME NEW fs PROVE SafeMap(fs, <<>>)
BY DEF SafeMap

-----------------------------------------------------------------------------
(* What binding names does to the running evaluator.                       *)
LEMMA LastReplacedIs ==
    ASSUME NEW s, IsSeq(s), Len(s) # 0, NEW x
    PROVE  LET t == [s EXCEPT ![Len(s)] = x]
           IN  /\ IsSeq(t) /\ Len(t) = Len(s) /\ t[Len(s)] = x
               /\ \A i \in 1 .. Len(s) : i # Len(s) => t[i] = s[i]
<1> DEFINE S == ToSet(s) \cup {x}
<1>0. s \in Seq(S) /\ x \in S
    BY WithinSeq
<1> HIDE DEF S
<1>1. s \in Seq(S) /\ x \in S /\ Len(s) \in 1 .. Len(s)
    BY <1>0
<1>2. /\ [s EXCEPT ![Len(s)] = x] \in Seq(S) /\ Len([s EXCEPT ![Len(s)] = x]) = Len(s)
      /\ \A j \in 1 .. Len(s) : [s EXCEPT ![Len(s)] = x][j] = IF j = Len(s) THEN x ELSE s[j]
    BY <1>1, ExceptSeq
<1> QED BY <1>1, <1>2, MakesSeq

LEMMA BindingIs ==
    ASSUME TypeInv, Running, Len(Self.scopes) # 0, NEW locals
    PROVE  LET r == Binding(locals)
               top == Len(Self.scopes)
           IN  /\ DOMAIN r = EvaluatorFields
               /\ r.file = Self.file /\ r.stack = Self.stack /\ r.structs = Self.structs
               /\ r.behaviors = Self.behaviors /\ r.hoisted = Self.hoisted
               /\ IsSeq(r.scopes) /\ Len(r.scopes) = top
               /\ r.scopes[top] = Over(locals, Self.scopes[top])
               /\ \A i \in 1 .. top : i # top => r.scopes[i] = Self.scopes[i]
<1> DEFINE top == Len(Self.scopes)
           bound == Over(locals, Self.scopes[top])
           next == [Self.scopes EXCEPT ![top] = bound]
<1>1. top \in 1 .. top /\ IsSeq(Self.scopes) /\ DOMAIN Self = EvaluatorFields
    BY SelfFacts DEF EvaluatorOK
<1>2. Binding(locals) = [Self EXCEPT !.scopes = next]
    BY DEF Binding
<1>3. /\ IsSeq(next) /\ Len(next) = top /\ next[top] = bound
      /\ \A i \in 1 .. top : i # top => next[i] = Self.scopes[i]
    BY <1>1, LastReplacedIs
<1> HIDE DEF next
<1>4. /\ DOMAIN Binding(locals) = EvaluatorFields /\ Binding(locals).scopes = next
      /\ Binding(locals).file = Self.file /\ Binding(locals).stack = Self.stack
      /\ Binding(locals).structs = Self.structs /\ Binding(locals).behaviors = Self.behaviors
      /\ Binding(locals).hoisted = Self.hoisted
    BY <1>1, <1>2 DEF EvaluatorFields
<1> QED BY <1>3, <1>4

LEMMA SafeBinding ==
    ASSUME TypeInv, Running, Len(Self.scopes) # 0, NEW gs, Grows(functions, gs),
           NEW locals, SafeMap(gs, locals), NEW r, DOMAIN r = EvaluatorFields,
           r.file = Self.file, r.stack = Self.stack, r.scopes = Binding(locals).scopes,
           SafeMessages(gs, r.behaviors)
    PROVE  EvaluatorOK(gs, r)
<1>1. EvaluatorOK(gs, Self) /\ Len(Self.scopes) \in Nat \ {0}
      /\ DOMAIN Self.scopes = 1 .. Len(Self.scopes)
    BY SelfFacts, AllGrow
<1>2. IsSeq(r.scopes) /\ DOMAIN r.scopes = 1 .. Len(Self.scopes)
    BY BindingIs, SeqFacts
<1>3. ASSUME NEW i \in DOMAIN r.scopes PROVE SafeMap(gs, r.scopes[i])
  <2>1. SafeMap(gs, Self.scopes[i])
    BY <1>1, <1>2 DEF EvaluatorOK
  <2>2. CASE i = Len(Self.scopes)
    BY <2>1, <2>2, SafeOver, BindingIs
  <2>3. CASE i # Len(Self.scopes)
    BY <2>1, <2>3, <1>2, BindingIs
  <2> QED BY <2>2, <2>3
<1> QED BY <1>1, <1>2, <1>3 DEF EvaluatorOK

(* The frames stay, the running one at its next statement; the running     *)
(* evaluator may bind names in its innermost scope.                        *)
Rebinds ==
    /\ DOMAIN evaluators' = DOMAIN evaluators
    /\ \A e \in DOMAIN evaluators : e # Current => evaluators'[e] = evaluators[e]
    /\ evaluators'[Current].file = Self.file
    /\ evaluators'[Current].stack = Self.stack
    /\ Len(evaluators'[Current].scopes) = Len(Self.scopes)
    /\ \A i \in 1 .. Len(Self.scopes) : i # Len(Self.scopes) =>
            evaluators'[Current].scopes[i] = Self.scopes[i]

Stays == control' = Advanced /\ (Top.pc \in DOMAIN Top.body \/ Top.pc = 0) /\ Rebinds

LEMMA BindsAndStays ==
    ASSUME TypeInv, Running, Len(Self.scopes) # 0, Grows(functions, functions'),
           NEW locals, SafeMap(functions', locals), NEW r, DOMAIN r = EvaluatorFields,
           r.file = Self.file, r.stack = Self.stack, r.scopes = Binding(locals).scopes,
           SafeMessages(functions', r.behaviors),
           evaluators' = [evaluators EXCEPT ![Current] = r],
           control' = Advanced, Top.pc \in DOMAIN Top.body \/ Top.pc = 0
    PROVE  EvaluatorsOK' /\ ControlOK' /\ Stays /\ evaluators'[Current] = r
<1>1. EvaluatorOK(functions', r)
    BY SafeBinding
<1>2. /\ EvaluatorsOK' /\ DOMAIN evaluators' = DOMAIN evaluators /\ evaluators'[Current] = r
      /\ \A e \in DOMAIN evaluators : e # Current => evaluators'[e] = evaluators[e]
    BY <1>1, ReplaceSelf
<1>3. ControlOK'
    BY <1>2, AdvanceControl
<1>4. Rebinds
    BY <1>2, BindingIs DEF Rebinds
<1> QED BY <1>2, <1>3, <1>4 DEF Stays

LEMMA StaysAsItIs ==
    ASSUME TypeInv, Running, Grows(functions, functions'), evaluators' = evaluators,
           control' = Advanced, Top.pc \in DOMAIN Top.body \/ Top.pc = 0
    PROVE  EvaluatorsOK' /\ ControlOK' /\ Stays
<1>1. EvaluatorsOK' /\ ControlOK'
    BY KeepEvaluators, AdvanceControl
<1>2. Rebinds
    BY DEF Rebinds, Self
<1> QED BY <1>1, <1>2 DEF Stays


-----------------------------------------------------------------------------
(* Counting the scopes that frames pushed, and the files among them.       *)
LEMMA BeforeFinite ==
    ASSUME NEW ctl, NEW e, NEW i \in Nat
    PROVE  IsFiniteSet(Before(ctl, e, i)) /\ Cardinality(Before(ctl, e, i)) \in Nat
<1>0. i - 1 \in Int /\ 1 \in Int /\ 2 \in Int
    OBVIOUS
<1>1. IsFiniteSet(1 .. i - 1) /\ IsFiniteSet(1 .. 2)
    BY <1>0, FS_Interval
<1>2. IsFiniteSet((1 .. i - 1) \X (1 .. 2))
    BY <1>1, FS_Product
<1>3. Before(ctl, e, i) \in SUBSET ((1 .. i - 1) \X (1 .. 2))
    BY DEF Before
<1>4. IsFiniteSet(Before(ctl, e, i))
    BY <1>2, <1>3, FS_Subset
<1> QED BY <1>4, FS_CardinalityType

LEMMA BeforeGrows ==
    ASSUME NEW ctl, NEW e, NEW i \in Nat, NEW j \in Nat, i <= j
    PROVE  Cardinality(Before(ctl, e, i)) <= Cardinality(Before(ctl, e, j))
<1>1. Before(ctl, e, i) \in SUBSET Before(ctl, e, j)
    BY DEF Before
<1> QED BY <1>1, BeforeFinite, FS_Subset

LEMMA BeforeFollows ==
    ASSUME NEW ctl, NEW e, NEW i \in Nat \ {0}, ctl[i].scopes \in 0 .. 2
    PROVE  Cardinality(Before(ctl, e, i + 1)) =
                Cardinality(Before(ctl, e, i)) + (IF ctl[i].ev = e THEN ctl[i].scopes ELSE 0)
<1> DEFINE old == Before(ctl, e, i)
           new == Before(ctl, e, i + 1)
<1>0. i + 1 - 1 = i /\ \A j : j \in 1 .. i <=> j \in 1 .. i - 1 \/ j = i
    OBVIOUS
<1>1. IsFiniteSet(old) /\ Cardinality(old) \in Nat
    BY BeforeFinite
<1>2. CASE ctl[i].ev # e \/ ctl[i].scopes = 0
  <2>1. new = old
    BY <1>0, <1>2 DEF Before
  <2> QED BY <1>1, <1>2, <2>1
<1>3. CASE ctl[i].ev = e /\ ctl[i].scopes = 1
  <2>1. new = old \cup {<<i, 1>>} /\ <<i, 1>> \notin old
    BY <1>0, <1>3 DEF Before
  <2> HIDE DEF old, new
  <2>2. Cardinality(new) = Cardinality(old) + 1
    BY <1>1, <2>1, FS_AddElement
  <2> QED BY <1>3, <2>2 DEF old, new
<1>4. CASE ctl[i].ev = e /\ ctl[i].scopes = 2
  <2>1. new = (old \cup {<<i, 1>>}) \cup {<<i, 2>>} /\ <<i, 1>> \notin old /\ <<i, 2>> \notin old
    BY <1>0, <1>4 DEF Before
  <2> HIDE DEF old, new
  <2>2. IsFiniteSet(old \cup {<<i, 1>>}) /\ Cardinality(old \cup {<<i, 1>>}) = Cardinality(old) + 1
    BY <1>1, <2>1, FS_AddElement
  <2>3. <<i, 2>> \notin old \cup {<<i, 1>>}
    BY <2>1
  <2>4. Cardinality(new) = Cardinality(old \cup {<<i, 1>>}) + 1
    BY <2>1, <2>2, <2>3, FS_AddElement
  <2>5. Cardinality(new) = Cardinality(old) + 2
    BY <1>1, <2>2, <2>4
  <2> QED BY <1>4, <2>5 DEF old, new
<1> QED BY <1>2, <1>3, <1>4

LEMMA BeforeBetween ==
    ASSUME NEW ctl, NEW e, NEW i \in Nat \ {0}, NEW j \in Nat, i < j,
           ctl[i].ev = e, ctl[i].scopes \in 0 .. 2
    PROVE  Cardinality(Before(ctl, e, i)) + ctl[i].scopes <= Cardinality(Before(ctl, e, j))
<1>1. Cardinality(Before(ctl, e, i + 1)) = Cardinality(Before(ctl, e, i)) + ctl[i].scopes
    BY BeforeFollows
<1>2. i + 1 \in Nat /\ i + 1 <= j
    OBVIOUS
<1>3. Cardinality(Before(ctl, e, i + 1)) <= Cardinality(Before(ctl, e, j))
    BY <1>2, BeforeGrows
<1> QED BY <1>1, <1>3

LEMMA BeforeSame ==
    ASSUME NEW ctl, NEW dtl, NEW e, NEW i \in Nat,
           \A j \in 1 .. i - 1 : ctl[j].ev = dtl[j].ev /\ ctl[j].scopes = dtl[j].scopes
    PROVE  Before(ctl, e, i) = Before(dtl, e, i)
BY DEF Before

LEMMA BaseSame ==
    ASSUME NEW ctl, NEW dtl, NEW i \in Nat \ {0},
           \A j \in 1 .. i : ctl[j].ev = dtl[j].ev /\ ctl[j].scopes = dtl[j].scopes
    PROVE  Base(ctl, i) = Base(dtl, i)
BY BeforeSame DEF Base

LEMMA PushedIs ==
    ASSUME DOMAIN control = 1 .. Len(control), Len(control) \in Nat, NEW e
    PROVE  Pushed(e) = Before(control, e, Len(control) + 1)
<1>1. Len(control) + 1 - 1 = Len(control)
    OBVIOUS
<1> QED BY <1>1 DEF Pushed, Before

LEMMA FilesFinite ==
    ASSUME NEW ctl, NEW i \in Nat
    PROVE  FilesIn(ctl, i) \in Nat
<1>1. {j \in 1 .. i : ctl[j].role = "file"} \in SUBSET (1 .. i) /\ IsFiniteSet(1 .. i)
    BY FS_Interval
<1>2. IsFiniteSet({j \in 1 .. i : ctl[j].role = "file"})
    BY <1>1, FS_Subset
<1> QED BY <1>2, FS_CardinalityType DEF FilesIn

LEMMA FilesFollow ==
    ASSUME NEW ctl, NEW i \in Nat
    PROVE  FilesIn(ctl, i + 1) = FilesIn(ctl, i) + (IF ctl[i + 1].role = "file" THEN 1 ELSE 0)
<1> DEFINE old == {j \in 1 .. i : ctl[j].role = "file"}
           new == {j \in 1 .. i + 1 : ctl[j].role = "file"}
<1>1. old \in SUBSET (1 .. i) /\ IsFiniteSet(1 .. i)
    BY FS_Interval
<1>2. IsFiniteSet(old)
    BY <1>1, FS_Subset
<1>3. Cardinality(old) \in Nat
    BY <1>2, FS_CardinalityType
<1>4. CASE ctl[i + 1].role = "file"
  <2>1. new = old \cup {i + 1} /\ i + 1 \notin old
    BY <1>4
  <2> HIDE DEF old, new
  <2>2. Cardinality(new) = Cardinality(old) + 1
    BY <1>2, <2>1, FS_AddElement
  <2> QED BY <1>4, <2>2 DEF FilesIn, old, new
<1>5. CASE ctl[i + 1].role # "file"
  <2>1. new = old
    BY <1>5
  <2> HIDE DEF old, new
  <2>2. Cardinality(new) = Cardinality(old) + 0
    BY <1>3, <2>1
  <2> QED BY <1>5, <2>2 DEF FilesIn, old, new
<1> QED BY <1>4, <1>5

LEMMA FilesSame ==
    ASSUME NEW ctl, NEW dtl, NEW i \in Nat, \A j \in 1 .. i : ctl[j].role = dtl[j].role
    PROVE  FilesIn(ctl, i) = FilesIn(dtl, i)
BY DEF FilesIn

LEMMA FilesGrow ==
    ASSUME NEW ctl, NEW i \in Nat, NEW j \in Nat, i <= j
    PROVE  FilesIn(ctl, i) <= FilesIn(ctl, j)
<1> DEFINE old == {k \in 1 .. i : ctl[k].role = "file"}
           new == {k \in 1 .. j : ctl[k].role = "file"}
<1>1. old \in SUBSET new /\ new \in SUBSET (1 .. j)
    OBVIOUS
<1>3. IsFiniteSet(1 .. j)
    BY FS_Interval
<1> HIDE DEF old, new
<1>2. IsFiniteSet(new)
    BY <1>1, <1>3, FS_Subset
<1>4. Cardinality(old) <= Cardinality(new)
    BY <1>1, <1>2, FS_Subset
<1> QED BY <1>4 DEF FilesIn, old, new

-----------------------------------------------------------------------------
(* What the structure of the stack says of the scopes.                     *)
LEMMA FrameFacts ==
    ASSUME TypeInv, Running, NEW i \in DOMAIN control
    PROVE  /\ i \in Nat \ {0} /\ i <= Len(control) /\ Len(control) \in Nat \ {0}
           /\ control[i] \in Frames /\ control[i].scopes \in 0 .. 2
           /\ control[i].ev \in DOMAIN evaluators /\ control[i].ev \in Nat
           /\ FrameOK(functions, DOMAIN evaluators, control[i])
           /\ Base(control, i) \in Nat \ {0}
<1>1. control \in Seq(Frames) /\ DOMAIN control = 1 .. Len(control) /\ Len(control) \in Nat \ {0}
    BY TopFacts DEF TypeInv, ControlOK
<1>2. i \in Nat \ {0} /\ i <= Len(control) /\ control[i] \in Frames
    BY <1>1
<1>3. FrameOK(functions, DOMAIN evaluators, control[i])
    BY DEF TypeInv, ControlOK
<1>4. Base(control, i) \in Nat \ {0}
    BY <1>2, BeforeFinite DEF Base
<1> QED BY <1>1, <1>2, <1>3, <1>4 DEF Frames, FrameOK

LEMMA ScopesAre ==
    ASSUME TypeInv, Running, ScopesFollowCalls, NEW e \in DOMAIN evaluators
    PROVE  /\ Len(evaluators[e].scopes) = 1 + Cardinality(Before(control, e, Len(control) + 1))
           /\ Len(evaluators[e].scopes) \in Nat \ {0}
<1>1. Pushed(e) = Before(control, e, Len(control) + 1)
    BY TopFacts, PushedIs
<1>2. Cardinality(Before(control, e, Len(control) + 1)) \in Nat
    BY TopFacts, BeforeFinite
<1> QED BY <1>1, <1>2 DEF ScopesFollowCalls

LEMMA BaseFacts ==
    ASSUME TypeInv, Running, ScopesFollowCalls, NEW i \in DOMAIN control
    PROVE  /\ Base(control, i) + control[i].scopes <= Len(evaluators[control[i].ev].scopes)
           /\ \A j \in DOMAIN control : i < j /\ control[j].ev = control[i].ev =>
                    Base(control, i) + control[i].scopes <= Base(control, j)
           /\ i = Len(control) =>
                    Base(control, i) + control[i].scopes = Len(evaluators[control[i].ev].scopes)
<1> DEFINE e == control[i].ev
<1>1. i \in Nat \ {0} /\ i <= Len(control) /\ Len(control) \in Nat \ {0}
      /\ control[i].scopes \in 0 .. 2 /\ e \in DOMAIN evaluators
    BY FrameFacts
<1>2. Base(control, i) = 1 + Cardinality(Before(control, e, i)) /\ Base(control, i) \in Nat \ {0}
    BY FrameFacts DEF Base
<1>3. Cardinality(Before(control, e, i)) \in Nat
    BY <1>1, BeforeFinite
<1>4. Len(evaluators[e].scopes) = 1 + Cardinality(Before(control, e, Len(control) + 1))
    BY <1>1, ScopesAre
<1>5. Cardinality(Before(control, e, Len(control) + 1)) \in Nat
    BY <1>1, BeforeFinite
<1>6. Cardinality(Before(control, e, i)) + control[i].scopes <= Cardinality(Before(control, e, Len(control) + 1))
    BY <1>1, BeforeBetween
<1>7. Base(control, i) + control[i].scopes <= Len(evaluators[e].scopes)
    BY <1>1, <1>2, <1>3, <1>4, <1>5, <1>6
<1>8. ASSUME NEW j \in DOMAIN control, i < j, control[j].ev = e
      PROVE  Base(control, i) + control[i].scopes <= Base(control, j)
  <2>1. j \in Nat /\ Base(control, j) = 1 + Cardinality(Before(control, e, j))
    BY <1>8, FrameFacts DEF Base
  <2>2. Cardinality(Before(control, e, i)) + control[i].scopes <= Cardinality(Before(control, e, j))
    BY <1>1, <1>8, <2>1, BeforeBetween
  <2>3. Cardinality(Before(control, e, j)) \in Nat
    BY <2>1, BeforeFinite
  <2> QED BY <1>1, <1>2, <1>3, <2>1, <2>2, <2>3
<1>9. i = Len(control) => Base(control, i) + control[i].scopes = Len(evaluators[e].scopes)
  <2>1. Cardinality(Before(control, e, i + 1)) = Cardinality(Before(control, e, i)) + control[i].scopes
    BY <1>1, BeforeFollows
  <2> QED BY <1>1, <1>2, <1>3, <1>4, <2>1
<1> QED BY <1>7, <1>8, <1>9

LEMMA TopScopes ==
    ASSUME TypeInv, Running, ScopesFollowCalls
    PROVE  /\ Base(control, Len(control)) + Top.scopes = Len(Self.scopes)
           /\ Base(control, Len(control)) \in Nat \ {0} /\ Top.scopes \in 0 .. 2
           /\ Len(Self.scopes) \in Nat \ {0} /\ Len(Self.scopes) - Top.scopes \in 1 .. Len(Self.scopes)
<1>1. Len(control) \in DOMAIN control /\ Top = control[Len(control)] /\ Self = evaluators[Top.ev]
    BY TopFacts DEF Self
<1>2. Base(control, Len(control)) + Top.scopes = Len(Self.scopes)
    BY <1>1, BaseFacts
<1>3. Base(control, Len(control)) \in Nat \ {0} /\ Top.scopes \in 0 .. 2
    BY <1>1, FrameFacts
<1> QED BY <1>2, <1>3

LEMMA OneScope ==
    ASSUME TypeInv, Running, ScopesFollowCalls, NEW e \in DOMAIN evaluators,
           \A i \in DOMAIN control : control[i].ev = e => control[i].scopes = 0
    PROVE  Len(evaluators[e].scopes) = 1
<1>1. Before(control, e, Len(control) + 1) = {}
  <2>1. DOMAIN control = 1 .. Len(control) + 1 - 1
    BY TopFacts
  <2> QED BY <2>1 DEF Before
<1>2. Cardinality(Before(control, e, Len(control) + 1)) = 0
    BY <1>1, FS_EmptySet
<1>3. Len(evaluators[e].scopes) = 1 + Cardinality(Before(control, e, Len(control) + 1))
    BY ScopesAre
<1> QED BY <1>2, <1>3

LEMMA FileOnTop ==
    ASSUME TypeInv, Running, FramesFollow, Top.role = "file"
    PROVE  \A i \in DOMAIN control : i # Len(control) => control[i].ev < Current
BY TopFacts DEF FramesFollow

LEMMA CallOnTop ==
    ASSUME TypeInv, Running, FramesFollow, Top.role = "call"
    PROVE  /\ Len(control) - 1 \in DOMAIN control /\ Len(control) - 1 # Len(control)
           /\ control[Len(control) - 1].ev = Current
<1>1. Len(control) # 1
    BY TopFacts DEF FramesFollow
<1>2. Len(control) - 1 \in DOMAIN control /\ Len(control) - 1 # Len(control)
  <2>1. DOMAIN control = 1 .. Len(control)
    BY TopFacts
  <2>2. PICK n \in Nat : n = Len(control) /\ n # 0
    BY TopFacts
  <2>3. n # 1
    BY <1>1, <2>2
  <2>4. n - 1 \in 1 .. n /\ n - 1 # n
    BY <2>2, <2>3
  <2> QED BY <2>1, <2>2, <2>4
<1>3. control[Len(control)].ev = control[Len(control) - 1].ev /\ control[Len(control)].ev = Current
    BY <1>1, TopFacts DEF FramesFollow
<1> QED BY <1>2, <1>3

-----------------------------------------------------------------------------
(* The structure of the stack, from one step to the next: when frames stay,*)
(* when a call enters and leaves, and when a file does.                    *)
SameFrames(ctl, dtl, n) ==
    \A i \in 1 .. n : /\ ctl[i].ev = dtl[i].ev /\ ctl[i].role = dtl[i].role
                      /\ ctl[i].f = dtl[i].f /\ ctl[i].scopes = dtl[i].scopes

LEMMA StaysFrames ==
    ASSUME TypeInv, Running, Stays
    PROVE  /\ SameFrames(control, control', Len(control)) /\ Len(control') = Len(control)
           /\ DOMAIN control' = DOMAIN control
           /\ \A i \in DOMAIN control : i # Len(control) => control'[i] = control[i]
           /\ control'[Len(control)].pc # 0
<1>1. /\ control' \in Seq(Frames) /\ Len(control') = Len(control)
      /\ \A i \in DOMAIN control : i # Len(control) => control'[i] = control[i]
      /\ LET t == control'[Len(control)]
         IN  /\ t.ev = Top.ev /\ t.role = Top.role /\ t.f = Top.f
             /\ t.scopes = Top.scopes /\ t.pc = Top.pc + 1 /\ t.pc \in 1 .. Len(t.body) + 1
    BY AdvancedIs DEF Stays
<1>2. DOMAIN control' = DOMAIN control
    BY <1>1, TopFacts
<1>3. SameFrames(control, control', Len(control))
    BY <1>1, TopFacts DEF SameFrames
<1>4. control'[Len(control)].pc # 0
    BY <1>1
<1> QED BY <1>1, <1>2, <1>3, <1>4

LEMMA StaysStructure ==
    ASSUME TypeInv, Running, Structure, Stays
    PROVE  Structure'
<1>1. /\ Len(control') = Len(control) /\ DOMAIN control' = DOMAIN control
      /\ DOMAIN control = 1 .. Len(control) /\ Len(control) \in Nat \ {0}
    BY StaysFrames, TopFacts
<1>2. \A i \in DOMAIN control : control'[i].ev = control[i].ev /\ control'[i].role = control[i].role
                              /\ control'[i].scopes = control[i].scopes
    BY <1>1, StaysFrames DEF SameFrames
<1>3. FramesFollow'
    BY <1>1, <1>2 DEF Structure, FramesFollow
<1>4. /\ DOMAIN evaluators' = DOMAIN evaluators
      /\ \A e \in DOMAIN evaluators :
            /\ evaluators'[e].file = evaluators[e].file /\ evaluators'[e].stack = evaluators[e].stack
            /\ Len(evaluators'[e].scopes) = Len(evaluators[e].scopes)
    BY DEF Stays, Rebinds, Self
<1>5. StacksFollow'
  <2>1. \A i \in DOMAIN control : control[i].ev \in DOMAIN evaluators
    BY FrameFacts
  <2>2. \A i \in DOMAIN control : StackOf(i)' = StackOf(i)
                    /\ evaluators'[control'[i].ev].file = evaluators[control[i].ev].file
    BY <1>2, <1>4, <2>1 DEF StackOf
  <2>3. \A i \in DOMAIN control : FilesIn(control', i) = FilesIn(control, i)
    BY <1>1, <1>2, FilesSame
  <2> QED BY <1>1, <2>2, <2>3 DEF Structure, StacksFollow
<1>6. ScopesFollowCalls'
  <2>1. \A e : Pushed(e)' = Pushed(e)
    BY <1>1, <1>2 DEF Pushed
  <2> QED BY <1>4, <2>1 DEF Structure, ScopesFollowCalls
<1>7. EnteredIsFresh'
    BY <1>1, StaysFrames DEF Structure, EnteredIsFresh
<1> QED BY <1>3, <1>5, <1>6, <1>7 DEF Structure

(* Only the scopes of the running evaluator change.                        *)
SelfScopes(new) ==
    /\ DOMAIN evaluators' = DOMAIN evaluators
    /\ \A e \in DOMAIN evaluators : e # Current => evaluators'[e] = evaluators[e]
    /\ \A field \in EvaluatorFields \ {"scopes"} : evaluators'[Current][field] = Self[field]
    /\ evaluators'[Current].scopes = new

LEMMA SelfScopesKeep ==
    ASSUME TypeInv, Running, NEW new, SelfScopes(new)
    PROVE  \A e \in DOMAIN evaluators :
            /\ evaluators'[e].file = evaluators[e].file /\ evaluators'[e].stack = evaluators[e].stack
            /\ evaluators'[e].structs = evaluators[e].structs
            /\ evaluators'[e].behaviors = evaluators[e].behaviors
            /\ e # Current => evaluators'[e].scopes = evaluators[e].scopes
<1>1. "file" \in EvaluatorFields \ {"scopes"} /\ "stack" \in EvaluatorFields \ {"scopes"}
      /\ "structs" \in EvaluatorFields \ {"scopes"} /\ "behaviors" \in EvaluatorFields \ {"scopes"}
    BY DEF EvaluatorFields
<1> QED BY <1>1 DEF SelfScopes, Self

(* A call enters: its frame, and its scopes in the evaluator that runs.    *)
Enters(f, entered) ==
    /\ control' \in Seq(Frames)
    /\ Len(control') = Len(control) + 1
    /\ \A i \in DOMAIN control : control'[i] = control[i]
    /\ LET t == control'[Len(control) + 1]
       IN  t.ev = Current /\ t.role = "call" /\ t.f = f /\ t.pc = 1 /\ t.scopes = Len(entered)
    /\ IsSeq(entered) /\ Len(entered) \in 1 .. 2
    /\ SelfScopes(Self.scopes \o entered)

LEMMA EntersFrames ==
    ASSUME TypeInv, Running, NEW f, NEW entered, Enters(f, entered)
    PROVE  /\ DOMAIN control' = 1 .. Len(control) + 1 /\ DOMAIN control = 1 .. Len(control)
           /\ Len(control) \in Nat \ {0}
           /\ \A e : Before(control', e, Len(control) + 1) = Before(control, e, Len(control) + 1)
           /\ \A e : Cardinality(Before(control', e, Len(control) + 2)) =
                Cardinality(Before(control, e, Len(control) + 1)) + IF e = Current THEN Len(entered) ELSE 0
           /\ \A i \in DOMAIN control : Base(control', i) = Base(control, i)
<1>1. DOMAIN control' = 1 .. Len(control) + 1 /\ DOMAIN control = 1 .. Len(control)
      /\ Len(control) \in Nat \ {0}
    BY TopFacts DEF Enters
<1>2. Len(control) + 1 \in Nat \ {0} /\ Len(control) + 1 - 1 = Len(control)
      /\ Len(control) + 1 + 1 = Len(control) + 2
    BY <1>1
<1>3. \A e : Before(control', e, Len(control) + 1) = Before(control, e, Len(control) + 1)
    BY <1>1, <1>2, BeforeSame DEF Enters
<1>4. control'[Len(control) + 1].scopes \in 0 .. 2 /\ control'[Len(control) + 1].scopes = Len(entered)
      /\ control'[Len(control) + 1].ev = Current
    BY DEF Enters
<1>5. \A e : Cardinality(Before(control', e, Len(control) + 2)) =
                Cardinality(Before(control, e, Len(control) + 1)) + IF e = Current THEN Len(entered) ELSE 0
  <2> SUFFICES ASSUME NEW e
               PROVE  Cardinality(Before(control', e, Len(control) + 2)) =
                        Cardinality(Before(control, e, Len(control) + 1)) + IF e = Current THEN Len(entered) ELSE 0
    OBVIOUS
  <2>1. Cardinality(Before(control', e, Len(control) + 1 + 1)) =
            Cardinality(Before(control', e, Len(control) + 1))
                + (IF control'[Len(control) + 1].ev = e THEN control'[Len(control) + 1].scopes ELSE 0)
    BY <1>2, <1>4, BeforeFollows
  <2> QED BY <2>1, <1>2, <1>3, <1>4
<1>6. \A i \in DOMAIN control : Base(control', i) = Base(control, i)
  <2> SUFFICES ASSUME NEW i \in DOMAIN control PROVE Base(control', i) = Base(control, i)
    OBVIOUS
  <2>1. i \in Nat \ {0} /\ \A j \in 1 .. i : j \in DOMAIN control
    BY <1>1
  <2>2. \A j \in 1 .. i : control'[j].ev = control[j].ev /\ control'[j].scopes = control[j].scopes
    BY <2>1 DEF Enters
  <2> QED BY <2>1, <2>2, BaseSame
<1> QED BY <1>1, <1>3, <1>5, <1>6

LEMMA EntersStructure ==
    ASSUME TypeInv, Running, Structure, NEW f, NEW entered, Enters(f, entered),
           \A i \in DOMAIN control : control[i].pc # 0
    PROVE  Structure'
<1>0. PICK n \in Nat : n = Len(control) + 1
    BY TopFacts
<1>1. DOMAIN control' = 1 .. n /\ DOMAIN control = 1 .. Len(control) /\ Len(control) \in Nat \ {0}
      /\ n = Len(control) + 1
    BY <1>0, EntersFrames
<1>2. /\ \A i \in DOMAIN control : control'[i] = control[i]
      /\ control'[n].ev = Current /\ control'[n].role = "call" /\ control'[n].pc = 1
    BY <1>0 DEF Enters
<1>3. control[Len(control)].ev = Current /\ Current \in DOMAIN evaluators /\ Current \in Nat
    BY TopFacts
<1>4. \A i \in DOMAIN control : control[i].ev <= Current
    BY <1>1, <1>3 DEF Structure, FramesFollow
<1>5. FramesFollow'
  <2>1. control'[1].role = "file"
    BY <1>1, <1>2 DEF Structure, FramesFollow
  <2>2. ASSUME NEW i \in DOMAIN control', i # 1, control'[i].role = "call"
        PROVE  control'[i].ev = control'[i - 1].ev
    <3>1. CASE i = n
        BY <3>1, <1>1, <1>2, <1>3
    <3>2. CASE i # n
      <4>1. i \in DOMAIN control /\ i - 1 \in DOMAIN control
        BY <3>2, <2>2, <1>1
      <4> QED BY <4>1, <2>2, <1>2 DEF Structure, FramesFollow
    <3> QED BY <3>1, <3>2
  <2>3. ASSUME NEW i \in DOMAIN control', NEW j \in DOMAIN control', i < j
        PROVE  /\ control'[i].ev <= control'[j].ev
               /\ control'[j].role = "file" => control'[i].ev < control'[j].ev
    <3>0. i \in DOMAIN control
        BY <2>3, <1>1
    <3>1. CASE j = n
        BY <3>0, <3>1, <1>2, <1>4
    <3>2. CASE j # n
      <4>1. j \in DOMAIN control
        BY <3>2, <1>1
      <4> QED BY <3>0, <4>1, <2>3, <1>2 DEF Structure, FramesFollow
    <3> QED BY <3>1, <3>2
  <2> QED BY <2>1, <2>2, <2>3 DEF FramesFollow
<1>6. StacksFollow'
  <2>0. \A e \in DOMAIN evaluators : evaluators'[e].file = evaluators[e].file
                                  /\ evaluators'[e].stack = evaluators[e].stack
    BY SelfScopesKeep DEF Enters
  <2>1. \A i \in DOMAIN control : StackOf(i)' = StackOf(i)
                    /\ evaluators'[control'[i].ev].file = evaluators[control[i].ev].file
    BY <1>2, <2>0, FrameFacts DEF StackOf
  <2>2. StackOf(n)' = StackOf(Len(control))
                    /\ evaluators'[control'[n].ev].file = evaluators[control[Len(control)].ev].file
    BY <1>2, <1>3, <2>0 DEF StackOf
  <2>3. \A i \in DOMAIN control : FilesIn(control', i) = FilesIn(control, i)
    BY <1>1, <1>2, FilesSame
  <2>4. FilesIn(control', n) = FilesIn(control, Len(control))
    <3>1. FilesIn(control', n) = FilesIn(control', Len(control)) + 0
        BY <1>1, <1>2, FilesFollow
    <3>2. FilesIn(control', Len(control)) \in Nat
        BY <1>1, FilesFinite
    <3> QED BY <1>1, <3>1, <3>2, <2>3
  <2>5. ASSUME NEW i \in DOMAIN control'
        PROVE  \E j \in DOMAIN control :
                    /\ StackOf(i)' = StackOf(j) /\ FilesIn(control', i) = FilesIn(control, j)
                    /\ evaluators'[control'[i].ev].file = evaluators[control[j].ev].file
                    /\ j <= i /\ (i # n => i = j) /\ (i = n => j = Len(control))
    <3>1. CASE i = n
        BY <3>1, <1>1, <2>2, <2>4
    <3>2. CASE i # n
        BY <3>2, <1>1, <2>1, <2>3
    <3> QED BY <3>1, <3>2
  <2>6. \A i \in DOMAIN control' :
            /\ Len(StackOf(i)') = FilesIn(control', i)
            /\ StackOf(i)'[Len(StackOf(i)')] = evaluators'[control'[i].ev].file
            /\ \A j, k \in DOMAIN StackOf(i)' : StackOf(i)'[j] = StackOf(i)'[k] => j = k
    BY <2>5 DEF Structure, StacksFollow
  <2>7. ASSUME NEW i \in DOMAIN control', NEW j \in DOMAIN control', i < j
        PROVE  \A k \in DOMAIN StackOf(i)' : StackOf(j)'[k] = StackOf(i)'[k]
    <3>1. i \in DOMAIN control /\ StackOf(i)' = StackOf(i)
        BY <2>7, <1>1, <2>1
    <3>2. CASE j = n
      <4>1. i = Len(control) \/ i < Len(control)
        BY <3>1, <1>1
      <4>2. Len(control) \in DOMAIN control
        BY <1>1
      <4> QED BY <3>1, <3>2, <4>1, <4>2, <2>2 DEF Structure, StacksFollow
    <3>3. CASE j # n
      <4>1. j \in DOMAIN control /\ StackOf(j)' = StackOf(j)
        BY <3>3, <1>1, <2>1
      <4> QED BY <3>1, <4>1, <2>7 DEF Structure, StacksFollow
    <3> QED BY <3>2, <3>3
  <2> QED BY <2>6, <2>7 DEF StacksFollow
<1>7. ScopesFollowCalls'
  <2>1. \A e : Pushed(e)' = Before(control', e, Len(control) + 2)
    <3>1. Len(control) + 2 - 1 = Len(control) + 1
        BY <1>1
    <3> QED BY <1>1, <3>1 DEF Pushed, Before
  <2>2. DOMAIN evaluators' = DOMAIN evaluators
    BY DEF Enters, SelfScopes
  <2>3. ASSUME NEW e \in DOMAIN evaluators
        PROVE  Len(evaluators'[e].scopes) = 1 + Cardinality(Before(control', e, Len(control) + 2))
    <3>1. /\ Len(evaluators[e].scopes) = 1 + Cardinality(Before(control, e, Len(control) + 1))
          /\ Cardinality(Before(control, e, Len(control) + 1)) \in Nat
        BY <1>1, ScopesAre, BeforeFinite DEF Structure
    <3>2. Cardinality(Before(control', e, Len(control) + 2)) =
                Cardinality(Before(control, e, Len(control) + 1)) + IF e = Current THEN Len(entered) ELSE 0
        BY EntersFrames
    <3>3. CASE e = Current
      <4>1. Len(evaluators'[e].scopes) = Len(evaluators[e].scopes) + Len(entered) /\ Len(entered) \in Nat
        <5>1. evaluators'[e].scopes = Self.scopes \o entered /\ IsSeq(entered) /\ Len(entered) \in Nat
            BY <3>3 DEF Enters, SelfScopes
        <5>2. IsSeq(Self.scopes) /\ Self.scopes = evaluators[e].scopes
            BY <3>3, SelfFacts
        <5> QED BY <5>1, <5>2, ConcatIs
      <4> QED BY <4>1, <3>1, <3>2, <3>3
    <3>4. CASE e # Current
      <4>1. evaluators'[e].scopes = evaluators[e].scopes
        BY <3>4 DEF Enters, SelfScopes
      <4> QED BY <4>1, <3>1, <3>2, <3>4
    <3> QED BY <3>3, <3>4
  <2> QED BY <2>1, <2>2, <2>3 DEF ScopesFollowCalls
<1>8. EnteredIsFresh'
  <2>1. \A i \in DOMAIN control' : control'[i].pc # 0
    BY <1>1, <1>2
  <2> QED BY <2>1 DEF EnteredIsFresh
<1> QED BY <1>5, <1>6, <1>7, <1>8 DEF Structure

(* The frame on top is left.                                               *)
Shrinks ==
    /\ control' \in Seq(Frames)
    /\ Len(control') = Len(control) - 1
    /\ \A i \in 1 .. Len(control) - 1 : control'[i] = control[i]

Returns ==
    /\ Shrinks
    /\ Top.role = "call"
    /\ SelfScopes(SubSeq(Self.scopes, 1, Len(Self.scopes) - Top.scopes))

HandsOver == Shrinks /\ Top.role = "file" /\ evaluators' = evaluators

LEMMA ShrinksFrames ==
    ASSUME TypeInv, Running, Shrinks
    PROVE  /\ DOMAIN control' = 1 .. Len(control) - 1 /\ DOMAIN control = 1 .. Len(control)
           /\ Len(control) \in Nat \ {0} /\ DOMAIN control' \subseteq DOMAIN control
           /\ \A i \in DOMAIN control' : control'[i] = control[i] /\ i # Len(control)
           /\ \A e : Cardinality(Before(control, e, Len(control) + 1)) =
                Cardinality(Before(control', e, Len(control))) + IF e = Current THEN Top.scopes ELSE 0
           /\ \A e : Cardinality(Before(control', e, Len(control))) \in Nat
           /\ \A i \in DOMAIN control' : Base(control', i) = Base(control, i)
<1>1. DOMAIN control' = 1 .. Len(control) - 1 /\ DOMAIN control = 1 .. Len(control)
      /\ Len(control) \in Nat \ {0}
    BY TopFacts DEF Shrinks
<1>2. DOMAIN control' \subseteq DOMAIN control
      /\ \A i \in DOMAIN control' : control'[i] = control[i] /\ i # Len(control)
    BY <1>1 DEF Shrinks
<1>3. \A e : Cardinality(Before(control, e, Len(control) + 1)) =
                Cardinality(Before(control', e, Len(control))) + IF e = Current THEN Top.scopes ELSE 0
  <2> SUFFICES ASSUME NEW e
               PROVE  Cardinality(Before(control, e, Len(control) + 1)) =
                        Cardinality(Before(control', e, Len(control))) + IF e = Current THEN Top.scopes ELSE 0
    OBVIOUS
  <2>1. Before(control, e, Len(control)) = Before(control', e, Len(control))
    BY <1>1, BeforeSame DEF Shrinks
  <2>2. control[Len(control)] = Top /\ Top.ev = Current /\ Top.scopes \in 0 .. 2
    BY TopFacts, FrameFacts
  <2>3. Cardinality(Before(control, e, Len(control) + 1)) =
            Cardinality(Before(control, e, Len(control)))
                + (IF control[Len(control)].ev = e THEN control[Len(control)].scopes ELSE 0)
    BY <1>1, <2>2, BeforeFollows
  <2> QED BY <2>1, <2>2, <2>3
<1>4. \A e : Cardinality(Before(control', e, Len(control))) \in Nat
    BY <1>1, BeforeFinite
<1>5. \A i \in DOMAIN control' : Base(control', i) = Base(control, i)
  <2> SUFFICES ASSUME NEW i \in DOMAIN control' PROVE Base(control', i) = Base(control, i)
    OBVIOUS
  <2>1. i \in Nat \ {0} /\ \A j \in 1 .. i : j \in 1 .. Len(control) - 1
    BY <1>1
  <2>2. \A j \in 1 .. i : control'[j].ev = control[j].ev /\ control'[j].scopes = control[j].scopes
    BY <2>1 DEF Shrinks
  <2> QED BY <2>1, <2>2, BaseSame
<1> QED BY <1>1, <1>2, <1>3, <1>4, <1>5

LEMMA ShrinksStructure ==
    ASSUME TypeInv, Running, Structure, Shrinks, Len(control) # 1,
           DOMAIN evaluators' = DOMAIN evaluators,
           \A e \in DOMAIN evaluators : /\ evaluators'[e].file = evaluators[e].file
                                        /\ evaluators'[e].stack = evaluators[e].stack,
           \A e \in DOMAIN evaluators :
                Len(evaluators'[e].scopes) = Len(evaluators[e].scopes) - IF e = Current THEN Top.scopes ELSE 0
    PROVE  Structure'
<1>1. DOMAIN control' = 1 .. Len(control) - 1 /\ DOMAIN control = 1 .. Len(control)
      /\ Len(control) \in Nat \ {0} /\ DOMAIN control' \subseteq DOMAIN control
      /\ \A i \in DOMAIN control' : control'[i] = control[i] /\ i # Len(control)
    BY ShrinksFrames
<1>2. FramesFollow'
  <2>1. 1 \in DOMAIN control'
    <3>1. PICK n \in Nat : n = Len(control) /\ n # 0
        BY <1>1
    <3>2. n # 1
        BY <3>1
    <3>3. 1 \in 1 .. n - 1
        BY <3>1, <3>2
    <3> QED BY <1>1, <3>1, <3>3
  <2>2. \A i \in DOMAIN control' : i # 1 => i - 1 \in DOMAIN control'
    BY <1>1
  <2>3. \A i \in DOMAIN control' : i # 1 /\ control'[i].role = "call" => control'[i].ev = control'[i - 1].ev
    BY <1>1, <2>2 DEF Structure, FramesFollow
  <2> QED BY <1>1, <2>1, <2>3 DEF Structure, FramesFollow
<1>3. StacksFollow'
  <2>1. \A i \in DOMAIN control' : StackOf(i)' = StackOf(i)
                    /\ evaluators'[control'[i].ev].file = evaluators[control[i].ev].file
    BY <1>1, FrameFacts DEF StackOf
  <2>2. \A i \in DOMAIN control' : FilesIn(control', i) = FilesIn(control, i)
    BY <1>1, FilesSame
  <2>3. ASSUME NEW i \in DOMAIN control'
        PROVE  /\ Len(StackOf(i)') = FilesIn(control', i)
               /\ StackOf(i)'[Len(StackOf(i)')] = evaluators'[control'[i].ev].file
               /\ \A j, k \in DOMAIN StackOf(i)' : StackOf(i)'[j] = StackOf(i)'[k] => j = k
    <3>1. i \in DOMAIN control
        BY <1>1
    <3> QED BY <2>1, <2>2, <3>1 DEF Structure, StacksFollow
  <2>4. ASSUME NEW i \in DOMAIN control', NEW j \in DOMAIN control', i < j
        PROVE  \A k \in DOMAIN StackOf(i)' : StackOf(j)'[k] = StackOf(i)'[k]
    <3>1. i \in DOMAIN control /\ j \in DOMAIN control
        BY <1>1
    <3> QED BY <2>1, <2>4, <3>1 DEF Structure, StacksFollow
  <2> QED BY <2>3, <2>4 DEF StacksFollow
<1>4. ScopesFollowCalls'
  <2>1. \A e : Pushed(e)' = Before(control', e, Len(control))
    BY <1>1 DEF Pushed, Before
  <2>2. ASSUME NEW e \in DOMAIN evaluators
        PROVE  Len(evaluators'[e].scopes) = 1 + Cardinality(Before(control', e, Len(control)))
    <3>1. Len(evaluators[e].scopes) = 1 + Cardinality(Before(control, e, Len(control) + 1))
        BY ScopesAre DEF Structure
    <3>2. /\ Cardinality(Before(control, e, Len(control) + 1)) =
                Cardinality(Before(control', e, Len(control))) + IF e = Current THEN Top.scopes ELSE 0
          /\ Cardinality(Before(control', e, Len(control))) \in Nat
        BY ShrinksFrames
    <3>3. Len(evaluators'[e].scopes) = Len(evaluators[e].scopes) - IF e = Current THEN Top.scopes ELSE 0
        OBVIOUS
    <3>4. Top.scopes \in 0 .. 2
        BY TopScopes DEF Structure
    <3> QED BY <3>1, <3>2, <3>3, <3>4
  <2> QED BY <2>1, <2>2 DEF ScopesFollowCalls
<1>5. EnteredIsFresh'
    BY <1>1 DEF Structure, EnteredIsFresh
<1> QED BY <1>2, <1>3, <1>4, <1>5 DEF Structure

LEMMA ReturnsStructure ==
    ASSUME TypeInv, Running, Structure, Returns
    PROVE  Structure'
<1>1. Len(control) # 1
    BY TopFacts DEF Returns, Structure, FramesFollow
<1>2. /\ DOMAIN evaluators' = DOMAIN evaluators
      /\ \A e \in DOMAIN evaluators : /\ evaluators'[e].file = evaluators[e].file
                                      /\ evaluators'[e].stack = evaluators[e].stack
    BY SelfScopesKeep DEF Returns, SelfScopes
<1>3. ASSUME NEW e \in DOMAIN evaluators
      PROVE  Len(evaluators'[e].scopes) = Len(evaluators[e].scopes) - IF e = Current THEN Top.scopes ELSE 0
  <2>1. CASE e = Current
    <3>1. evaluators'[e].scopes = SubSeq(Self.scopes, 1, Len(Self.scopes) - Top.scopes)
        BY <2>1 DEF Returns, SelfScopes
    <3>2. IsSeq(Self.scopes) /\ Len(Self.scopes) - Top.scopes \in 0 .. Len(Self.scopes)
        BY SelfFacts, TopScopes DEF Structure
    <3>3. Len(SubSeq(Self.scopes, 1, Len(Self.scopes) - Top.scopes)) = Len(Self.scopes) - Top.scopes
        BY <3>2, PrefixIs
    <3> QED BY <2>1, <3>1, <3>3 DEF Self
  <2>2. CASE e # Current
    <3>1. evaluators'[e].scopes = evaluators[e].scopes /\ Len(evaluators[e].scopes) \in Nat
        BY <2>2, EvaluatorFacts DEF Returns, SelfScopes
    <3> QED BY <2>2, <3>1
  <2> QED BY <2>1, <2>2
<1> QED BY <1>1, <1>2, <1>3, ShrinksStructure DEF Returns

LEMMA HandsOverStructure ==
    ASSUME TypeInv, Running, Structure, HandsOver, Len(control) # 1
    PROVE  Structure'
<1>1. Top.scopes = 0
    BY TopFacts DEF HandsOver, FrameOK
<1>2. \A e \in DOMAIN evaluators :
        Len(evaluators'[e].scopes) = Len(evaluators[e].scopes) - IF e = Current THEN Top.scopes ELSE 0
    BY <1>1, EvaluatorFacts DEF HandsOver
<1> QED BY <1>2, ShrinksStructure DEF HandsOver

-----------------------------------------------------------------------------
(* A file enters, in an evaluator of its own.                              *)
Opened(file) ==
    /\ evaluators' = Append(evaluators, Evaluator(file, Append(Self.stack, file)))
    /\ control' = Append(control, FileFrame(Len(evaluators) + 1, file))
    /\ file \in Files
    /\ \A k \in DOMAIN Self.stack : Self.stack[k] # file

LEMMA OpenedFacts ==
    ASSUME TypeInv, Running, NEW file, Opened(file)
    PROVE  LET n == Len(control) + 1
               e == Len(evaluators) + 1
           IN  /\ Len(control) \in Nat \ {0} /\ DOMAIN control = 1 .. Len(control)
               /\ Len(evaluators) \in Nat /\ DOMAIN evaluators = 1 .. Len(evaluators)
               /\ DOMAIN control' = 1 .. n /\ control' \in Seq(Frames)
               /\ DOMAIN evaluators' = 1 .. e
               /\ \A i \in DOMAIN control : control'[i] = control[i]
               /\ \A d \in DOMAIN evaluators : evaluators'[d] = evaluators[d] /\ d # e
               /\ control'[n] = FileFrame(e, file) /\ FileFrame(e, file) \in Frames
               /\ evaluators'[e] = Evaluator(file, Append(Self.stack, file))
<1>1. Len(control) \in Nat \ {0} /\ DOMAIN control = 1 .. Len(control) /\ Current \in DOMAIN evaluators
    BY TopFacts
<1>2. IsSeq(evaluators) /\ Len(evaluators) \in Nat /\ DOMAIN evaluators = 1 .. Len(evaluators)
    BY <1>1, EvaluatorFacts DEF TypeInv, EvaluatorsOK
<1>3. FileFrame(Len(evaluators) + 1, file) \in Frames
    BY <1>2, DiskIsText DEF FileFrame, Frames, Opened
<1>4. /\ DOMAIN evaluators' = 1 .. Len(evaluators) + 1
      /\ evaluators'[Len(evaluators) + 1] = Evaluator(file, Append(Self.stack, file))
      /\ \A d \in 1 .. Len(evaluators) : evaluators'[d] = evaluators[d]
    BY <1>2, AppendIs DEF Opened
<1>5. control \in Seq(Frames)
    BY DEF TypeInv, ControlOK
<1>6. /\ control' \in Seq(Frames) /\ Len(control') = Len(control) + 1
      /\ control'[Len(control) + 1] = FileFrame(Len(evaluators) + 1, file)
      /\ \A i \in 1 .. Len(control) : control'[i] = control[i]
    BY <1>3, <1>5, AppendProperties DEF Opened
<1>7. DOMAIN control' = 1 .. Len(control) + 1
    BY <1>6
<1> QED BY <1>1, <1>2, <1>3, <1>4, <1>6, <1>7

LEMMA OpenedStructure ==
    ASSUME TypeInv, Running, Structure, NEW file, Opened(file), Top.pc # 0
    PROVE  Structure'
<1>0. PICK n \in Nat, new \in Nat : n = Len(control) + 1 /\ new = Len(evaluators) + 1
    BY OpenedFacts
<1>1. /\ Len(control) \in Nat \ {0} /\ DOMAIN control = 1 .. Len(control)
      /\ Len(evaluators) \in Nat /\ DOMAIN evaluators = 1 .. Len(evaluators)
      /\ DOMAIN control' = 1 .. n /\ DOMAIN evaluators' = 1 .. new
      /\ n = Len(control) + 1 /\ new = Len(evaluators) + 1
    BY <1>0, OpenedFacts
<1>2. /\ \A i \in DOMAIN control : control'[i] = control[i]
      /\ \A d \in DOMAIN evaluators : evaluators'[d] = evaluators[d] /\ d # new
    BY <1>0, OpenedFacts
<1>3. control'[n] = FileFrame(new, file) /\ evaluators'[new] = Evaluator(file, Append(Self.stack, file))
    BY <1>0, OpenedFacts
<1>4. /\ control'[n].ev = new /\ control'[n].role = "file" /\ control'[n].scopes = 0 /\ control'[n].pc = 0
      /\ evaluators'[new].file = file /\ evaluators'[new].stack = Append(Self.stack, file)
      /\ evaluators'[new].scopes = << <<>> >>
      /\ evaluators'[new].structs = <<>> /\ evaluators'[new].behaviors = <<>>
    BY <1>3 DEF FileFrame, Evaluator
<1>5. \A i \in DOMAIN control : control[i].ev \in DOMAIN evaluators /\ control[i].ev \in Nat
                                /\ control[i].ev < new
  <2>1. \A i \in DOMAIN control : control[i].ev \in DOMAIN evaluators
    BY FrameFacts
  <2> QED BY <1>1, <2>1
<1>6. FramesFollow'
  <2>1. control'[1].role = "file"
    BY <1>1, <1>2 DEF Structure, FramesFollow
  <2>2. ASSUME NEW i \in DOMAIN control', i # 1, control'[i].role = "call"
        PROVE  control'[i].ev = control'[i - 1].ev
    <3>1. i # n
        BY <2>2, <1>4
    <3>2. i \in DOMAIN control /\ i - 1 \in DOMAIN control
        BY <3>1, <2>2, <1>1
    <3> QED BY <3>2, <2>2, <1>2 DEF Structure, FramesFollow
  <2>3. ASSUME NEW i \in DOMAIN control', NEW j \in DOMAIN control', i < j
        PROVE  /\ control'[i].ev <= control'[j].ev
               /\ control'[j].role = "file" => control'[i].ev < control'[j].ev
    <3>0. i \in DOMAIN control /\ control'[i] = control[i]
        BY <2>3, <1>1, <1>2
    <3>1. CASE j = n
      <4>1. control[i].ev \in Nat /\ control[i].ev < new
        BY <3>0, <1>5
      <4> QED BY <3>0, <3>1, <1>1, <1>4, <4>1
    <3>2. CASE j # n
      <4>1. j \in DOMAIN control
        BY <3>2, <1>1
      <4> QED BY <3>0, <4>1, <2>3, <1>2 DEF Structure, FramesFollow
    <3> QED BY <3>1, <3>2
  <2> QED BY <2>1, <2>2, <2>3 DEF FramesFollow
<1>7. StacksFollow'
  <2>1. \A i \in DOMAIN control : StackOf(i)' = StackOf(i)
                    /\ evaluators'[control'[i].ev].file = evaluators[control[i].ev].file
    BY <1>2, <1>5 DEF StackOf
  <2>2. StackOf(n)' = Append(Self.stack, file) /\ evaluators'[control'[n].ev].file = file
    BY <1>4 DEF StackOf
  <2>3. \A i \in DOMAIN control : FilesIn(control', i) = FilesIn(control, i)
    BY <1>1, <1>2, FilesSame
  <2>4. FilesIn(control', n) = FilesIn(control, Len(control)) + 1
    <3>1. FilesIn(control', n) = FilesIn(control', Len(control)) + 1
        BY <1>1, <1>4, FilesFollow
    <3> QED BY <1>1, <3>1, <2>3
  <2>5. Self.stack = StackOf(Len(control)) /\ Self.stack \in Seq(Files)
    BY TopFacts, SelfFacts DEF Self, StackOf, EvaluatorOK
  <2>6. Len(Self.stack) = FilesIn(control, Len(control)) /\ Len(Self.stack) \in Nat
        /\ \A j, k \in DOMAIN Self.stack : Self.stack[j] = Self.stack[k] => j = k
    BY <1>1, <2>5 DEF Structure, StacksFollow
  <2>7. /\ Len(Append(Self.stack, file)) = Len(Self.stack) + 1
        /\ DOMAIN Append(Self.stack, file) = 1 .. Len(Self.stack) + 1
        /\ DOMAIN Self.stack = 1 .. Len(Self.stack)
        /\ Append(Self.stack, file)[Len(Self.stack) + 1] = file
        /\ \A k \in 1 .. Len(Self.stack) : Append(Self.stack, file)[k] = Self.stack[k]
    BY <2>5, AppendProperties DEF Opened
  <2>8. \A j, k \in DOMAIN Append(Self.stack, file) :
            Append(Self.stack, file)[j] = Append(Self.stack, file)[k] => j = k
    BY <2>6, <2>7 DEF Opened
  <2>9. ASSUME NEW i \in DOMAIN control'
        PROVE  /\ Len(StackOf(i)') = FilesIn(control', i)
               /\ StackOf(i)'[Len(StackOf(i)')] = evaluators'[control'[i].ev].file
               /\ \A j, k \in DOMAIN StackOf(i)' : StackOf(i)'[j] = StackOf(i)'[k] => j = k
    <3>1. CASE i = n
        BY <3>1, <2>2, <2>4, <2>6, <2>7, <2>8
    <3>2. CASE i # n
      <4>1. i \in DOMAIN control
        BY <3>2, <1>1
      <4> QED BY <4>1, <2>1, <2>3 DEF Structure, StacksFollow
    <3> QED BY <3>1, <3>2
  <2>10. ASSUME NEW i \in DOMAIN control', NEW j \in DOMAIN control', i < j
        PROVE  \A k \in DOMAIN StackOf(i)' : StackOf(j)'[k] = StackOf(i)'[k]
    <3>1. i \in DOMAIN control /\ StackOf(i)' = StackOf(i) /\ i \in Nat
        BY <2>10, <1>1, <2>1
    <3>2. CASE j = n
      <4>1. \A k \in DOMAIN StackOf(i) : Self.stack[k] = StackOf(i)[k]
        <5>1. i = Len(control) \/ i < Len(control)
            BY <3>1, <1>1
        <5>2. Len(control) \in DOMAIN control
            BY <1>1
        <5> QED BY <3>1, <5>1, <5>2, <2>5 DEF Structure, StacksFollow
      <4>2. DOMAIN StackOf(i) \subseteq 1 .. Len(Self.stack)
        <5>1. Len(StackOf(i)) = FilesIn(control, i)
            BY <3>1 DEF Structure, StacksFollow
        <5>2. FilesIn(control, i) <= FilesIn(control, Len(control))
            BY <3>1, <1>1, FilesGrow
        <5>3. DOMAIN StackOf(i) = 1 .. Len(StackOf(i))
            BY <3>1, <1>5, EvaluatorFacts DEF StackOf, EvaluatorOK
        <5>4. FilesIn(control, i) \in Nat
            BY <3>1, FilesFinite
        <5> QED BY <5>1, <5>2, <5>3, <5>4, <2>6
      <4>3. \A k \in DOMAIN StackOf(i) : StackOf(n)'[k] = Self.stack[k]
        BY <4>2, <2>2, <2>7
      <4> QED BY <3>1, <3>2, <4>1, <4>3
    <3>3. CASE j # n
      <4>1. j \in DOMAIN control /\ StackOf(j)' = StackOf(j)
        BY <3>3, <1>1, <2>1
      <4> QED BY <3>1, <4>1, <2>10 DEF Structure, StacksFollow
    <3> QED BY <3>2, <3>3
  <2> QED BY <2>9, <2>10 DEF StacksFollow
<1>8. ScopesFollowCalls'
  <2>1. n - 1 = Len(control) /\ n \in Nat \ {0} /\ n + 1 - 1 = n
    BY <1>1
  <2>2. \A e : Pushed(e)' = Before(control', e, n + 1)
    BY <1>1, <2>1 DEF Pushed, Before
  <2>3. \A e : Before(control', e, n) = Before(control, e, n)
    BY <1>1, <1>2, <2>1, BeforeSame
  <2>4. ASSUME NEW e PROVE Cardinality(Before(control', e, n + 1)) = Cardinality(Before(control, e, n))
    <3>1. Cardinality(Before(control', e, n + 1)) = Cardinality(Before(control', e, n)) + 0
        BY <1>4, <2>1, BeforeFollows
    <3>2. Cardinality(Before(control', e, n)) \in Nat
        BY <2>1, BeforeFinite
    <3> QED BY <3>1, <3>2, <2>3
  <2>5. ASSUME NEW e \in DOMAIN evaluators'
        PROVE  Len(evaluators'[e].scopes) = 1 + Cardinality(Before(control', e, n + 1))
    <3>1. CASE e = new
      <4>1. Before(control, e, n) = {}
        BY <3>1, <1>1, <1>5, <2>1 DEF Before
      <4>2. Cardinality(Before(control, e, n)) = 0
        BY <4>1, FS_EmptySet
      <4>3. Len(evaluators'[e].scopes) = 1
        BY <3>1, <1>4
      <4> QED BY <4>2, <4>3, <2>4
    <3>2. CASE e # new
      <4>1. e \in DOMAIN evaluators /\ evaluators'[e] = evaluators[e]
        BY <3>2, <1>1, <1>2
      <4>2. Len(evaluators[e].scopes) = 1 + Cardinality(Before(control, e, n))
        BY <4>1, <1>1, ScopesAre DEF Structure
      <4> QED BY <4>1, <4>2, <2>4
    <3> QED BY <3>1, <3>2
  <2> QED BY <2>2, <2>5 DEF ScopesFollowCalls
<1>9. EnteredIsFresh'
  <2>1. Len(control') = n
    BY <1>1, OpenedFacts, TopFacts
  <2>2. ASSUME NEW i \in DOMAIN control', control'[i].pc = 0 PROVE i = n
    <3>1. \A j \in DOMAIN control : control[j].pc = 0 => j = Len(control)
        BY DEF Structure, EnteredIsFresh
    <3>2. control[Len(control)].pc # 0
        BY TopFacts
    <3> QED BY <2>2, <3>1, <3>2, <1>1, <1>2
  <2> QED BY <2>1, <2>2, <1>4 DEF EnteredIsFresh
<1> QED BY <1>6, <1>7, <1>8, <1>9 DEF Structure

-----------------------------------------------------------------------------
(* What every step does: functions and types are added, never changed, only*)
(* the running evaluator changes, one that was left stays left, and a read *)
(* that leaves an evaluator is none.                                       *)
Extends(m, n) == \A x \in DOMAIN m : x \in DOMAIN n /\ n[x] = m[x]

Reads ==
    \/ lastRead' = lastRead
    \/ lastRead' = NoRead
    \/ \E n : Looked(n) /\ lastRead' = Reading(n, LookUp(n))

OthersStay ==
    /\ DOMAIN evaluators \subseteq DOMAIN evaluators'
    /\ \A e \in DOMAIN evaluators :
        /\ evaluators'[e].file = evaluators[e].file
        /\ Extends(evaluators[e].structs, evaluators'[e].structs)
        /\ e # Current => evaluators'[e] = evaluators[e]
        /\ Left(e) => Left(e)'

Goes ==
    /\ disk' = disk
    /\ Grows(functions, functions')
    /\ OthersStay
    /\ Reads
    /\ lastRead'.f # 0 => \A e \in DOMAIN evaluators : Left(e)' => Left(e)

LEMMA ExtendsSelf == ASSUME NEW m PROVE Extends(m, m)
BY DEF Extends

LEMMA LeftIsOther ==
    ASSUME TypeInv, Running, NEW e, Left(e)
    PROVE  e # Current
BY TopFacts DEF Left

LEMMA ExportsStay ==
    ASSUME TypeInv, Goes, NothingExportedAgain'
    PROVE  NothingExportedAgain
<1> SUFFICES ASSUME NEW e \in DOMAIN evaluators, ExportsAgain(e) PROVE FALSE
    BY DEF NothingExportedAgain
<1>1. PICK n \in ExportsOf(e) \cap DOMAIN evaluators[e].structs :
            evaluators[e].structs[n][1] # evaluators[e].file
    BY DEF ExportsAgain
<1>2. e \in DOMAIN evaluators' /\ evaluators'[e].file = evaluators[e].file /\ disk' = disk
      /\ Extends(evaluators[e].structs, evaluators'[e].structs)
    BY DEF Goes, OthersStay
<1>3. ExportsOf(e)' = ExportsOf(e)
    BY <1>2 DEF ExportsOf
<1>4. n \in DOMAIN evaluators'[e].structs /\ evaluators'[e].structs[n] = evaluators[e].structs[n]
    BY <1>1, <1>2 DEF Extends
<1>5. ExportsAgain(e)'
    BY <1>1, <1>2, <1>3, <1>4 DEF ExportsAgain
<1> QED BY <1>2, <1>5 DEF NothingExportedAgain

(* A name that the scope beneath a call's locals gives, and they do not.   *)
LEMMA OwnIsSeen ==
    ASSUME TypeInv, Running, ScopesFollowCalls, Top.scopes = 2, NEW n,
           n \in DOMAIN Own(Len(control)), n \notin DOMAIN Self.scopes[Len(Self.scopes)]
    PROVE  LookUp(n) = Own(Len(control))[n]
<1>1. Base(control, Len(control)) + 2 = Len(Self.scopes) /\ Base(control, Len(control)) \in Nat \ {0}
    BY TopScopes
<1>2. IsSeq(Self.scopes) /\ DOMAIN Self.scopes = 1 .. Len(Self.scopes)
    BY SelfFacts
<1> DEFINE k == Base(control, Len(control)) + 1
<1>3. Own(Len(control)) = Self.scopes[k]
    BY TopFacts DEF Own, Self
<1>4. k \in DOMAIN Self.scopes /\ \A j \in DOMAIN Self.scopes : j > k => j = Len(Self.scopes)
  <2>1. PICK b \in Nat : b = Base(control, Len(control))
    BY <1>1
  <2>2. PICK m \in Nat : m = Len(Self.scopes) /\ m = b + 2 /\ k = b + 1
    BY <1>1, <2>1
  <2> HIDE DEF k
  <2>3. b + 1 \in 1 .. m /\ \A j \in 1 .. m : j > b + 1 => j = m
    BY <2>2
  <2> QED BY <1>2, <2>2, <2>3
<1> HIDE DEF k
<1>5. n \in DOMAIN Self.scopes[k] /\ \A j \in DOMAIN Self.scopes : j > k => n \notin DOMAIN Self.scopes[j]
    BY <1>3, <1>4
<1>6. Seen(Self.scopes)[n] = Self.scopes[k][n]
  <2> PICK scopes : scopes = Self.scopes
    OBVIOUS
  <2>1. /\ IsSeq(scopes) /\ k \in DOMAIN scopes /\ n \in DOMAIN scopes[k]
        /\ \A j \in DOMAIN scopes : j > k => n \notin DOMAIN scopes[j]
    BY <1>2, <1>4, <1>5
  <2>2. Seen(scopes)[n] = scopes[k][n]
    BY <2>1, SeenAt
  <2> QED BY <2>2
<1> QED BY <1>3, <1>6 DEF LookUp

LEMMA ReadsAreRight ==
    ASSUME TypeInv, Running, Structure, CallsSee, ReadsSeen, Goes
    PROVE  ReadsSeen'
<1>0. Grows(functions, functions')
    BY DEF Goes
<1>1. CASE lastRead' = lastRead
  <2>1. lastRead.f # 0 => /\ lastRead.f \in DOMAIN functions' /\ lastRead.n \in functions'[lastRead.f].free
                          /\ functions'[lastRead.f].n = functions[lastRead.f].n
                          /\ functions'[lastRead.f].sees = functions[lastRead.f].sees
    BY <1>0 DEF Grows, ReadsSeen
  <2> QED BY <1>1, <2>1 DEF ReadsSeen, FunctionsReadTheirModule, Named
<1>2. CASE lastRead' = NoRead
    BY <1>2 DEF NoRead, ReadsSeen, FunctionsReadTheirModule
<1>3. CASE lastRead' # NoRead /\ \E n : Looked(n) /\ lastRead' = Reading(n, LookUp(n))
  <2>1. PICK n : Looked(n) /\ lastRead' = Reading(n, LookUp(n))
    BY <1>3
  <2>2. /\ Top.f # 0 /\ n \in functions[Top.f].free /\ n \notin DOMAIN Self.scopes[Len(Self.scopes)]
        /\ lastRead' = [f |-> Top.f, n |-> n, v |-> LookUp(n)]
    BY <1>3, <2>1 DEF Reading
  <2>3. Top.role = "call" /\ Top.f \in DOMAIN functions
    BY <2>2, TopFacts DEF FrameOK, Frames
  <2>4. /\ Top.f \in DOMAIN functions' /\ functions'[Top.f].free = functions[Top.f].free
        /\ functions'[Top.f].n = functions[Top.f].n /\ functions'[Top.f].sees = functions[Top.f].sees
    BY <1>0, <2>3 DEF Grows
  <2>5. ASSUME functions[Top.f].n # Anonymous, n \in DOMAIN functions[Top.f].sees
        PROVE  LookUp(n) = functions[Top.f].sees[n]
    <3>1. Top.scopes = 2 /\ Gives(Own(Len(control)), n, functions[Top.f].sees[n])
        BY <2>2, <2>3, <2>5, TopFacts DEF CallsSee, CallSees, Named
    <3> QED BY <3>1, <2>2, OwnIsSeen DEF Gives, Structure
  <2> QED BY <2>2, <2>4, <2>5 DEF ReadsSeen, FunctionsReadTheirModule, Named
<1> QED BY <1>1, <1>2, <1>3 DEF Goes, Reads

LEMMA MessageReadsAreRight ==
    ASSUME TypeInv, Running, Structure, Knowledge, ReadsSeen, MessagesReadTheirModule, Goes
    PROVE  MessagesReadTheirModule'
<1>0. Grows(functions, functions') /\ OthersStay
    BY DEF Goes
<1> SUFFICES ASSUME lastRead'.f # 0, ~Named(lastRead.f)', Left(functions[lastRead.f].home)',
                    NothingExportedAgain', lastRead'.n \in DOMAIN Globals(functions[lastRead.f].home)'
             PROVE  lastRead'.v = Globals(functions[lastRead.f].home)'[lastRead'.n]
    BY DEF MessagesReadTheirModule
<1>1. NothingExportedAgain /\ \A e \in DOMAIN evaluators : Left(e)' => Left(e)
    BY ExportsStay DEF Goes
<1>2. lastRead'.f \in DOMAIN functions
  <2>1. CASE lastRead' = lastRead
    BY <2>1 DEF ReadsSeen
  <2>2. CASE lastRead' = NoRead
    BY <2>2 DEF NoRead
  <2>3. CASE \E n : Looked(n) /\ lastRead' = Reading(n, LookUp(n))
    <3>1. PICK n : lastRead' = Reading(n, LookUp(n))
        BY <2>3
    <3>2. Top.f # 0 /\ lastRead'.f = Top.f
        BY <3>1 DEF Reading, NoRead
    <3> QED BY <3>2, TopFacts DEF FrameOK, Frames
  <2> QED BY <2>1, <2>2, <2>3 DEF Goes, Reads
<1>3. PICK f \in DOMAIN functions, h \in DOMAIN evaluators : f = lastRead'.f /\ h = functions[f].home
  <2>1. PICK f \in DOMAIN functions : f = lastRead'.f
    BY <1>2
  <2>2. functions[f].home \in DOMAIN evaluators
    BY DEF TypeInv, FunctionsOK, FunctionOK
  <2> QED BY <2>1, <2>2
<1>4. functions'[f].home = h /\ functions'[f].n = functions[f].n
    BY <1>0, <1>3 DEF Grows
<1>5. functions[f].n = Anonymous
    BY <1>3, <1>4 DEF Named
<1>6. Left(h)'
    BY <1>3, <1>4 DEF Left
<1>7. Left(h) /\ h # Current /\ evaluators'[h] = evaluators[h]
    BY <1>0, <1>1, <1>6, LeftIsOther DEF OthersStay
<1>8. Globals(functions[lastRead.f].home)' = Globals(h)
    BY <1>3, <1>4, <1>7 DEF Globals
<1>9. CASE lastRead' = lastRead
    BY <1>1, <1>3, <1>5, <1>7, <1>8, <1>9 DEF MessagesReadTheirModule, Named
<1>10. CASE \E n : Looked(n) /\ lastRead' = Reading(n, LookUp(n))
  <2>1. PICK n : lastRead' = Reading(n, LookUp(n))
    BY <1>10
  <2>2. /\ Top.f # 0 /\ n \in functions[Top.f].free /\ n \notin DOMAIN Self.scopes[Len(Self.scopes)]
        /\ lastRead' = [f |-> Top.f, n |-> n, v |-> LookUp(n)]
    BY <2>1 DEF Reading, NoRead
  <2>3. Top.role = "call" /\ Top.f = f /\ lastRead'.n = n /\ lastRead'.v = LookUp(n)
    BY <2>2, <1>3, TopFacts DEF FrameOK, Frames
  <2>4. n \in DOMAIN Globals(h)
    BY <2>3, <1>8
  <2>5. CallKnows(Len(control))
    BY TopFacts, <1>1 DEF Knowledge, CallsKnow
  <2>6. Top.scopes = 2 /\ Gives(Own(Len(control)), n, Globals(h)[n])
    BY <1>3, <1>5, <1>7, <2>2, <2>3, <2>4, <2>5, TopFacts DEF CallKnows, Named
  <2>7. LookUp(n) = Globals(h)[n]
    BY <2>2, <2>6, OwnIsSeen DEF Gives, Structure
  <2> QED BY <2>3, <2>7, <1>8
<1>11. lastRead' # NoRead
    BY DEF NoRead
<1> QED BY <1>9, <1>10, <1>11 DEF Goes, Reads

-----------------------------------------------------------------------------
(* The captures of functions that have a name are set once.                *)
CapturesGo ==
    /\ \A f \in DOMAIN functions : Named(f) =>
            functions'[f].captures = functions[f].captures \/ functions[f].captures = <<>>
    /\ \A f \in DOMAIN functions' : f \notin DOMAIN functions /\ functions'[f].n # Anonymous =>
            Captured(functions'[f])

LEMMA CapturesAreSeen ==
    ASSUME CapturesSeen, Grows(functions, functions'), CapturesGo
    PROVE  CapturesSeen'
<1> SUFFICES ASSUME NEW f \in DOMAIN functions', functions'[f].n # Anonymous
             PROVE  Captured(functions'[f])
    BY DEF CapturesSeen, Named
<1>1. CASE f \in DOMAIN functions
  <2>1. /\ functions'[f].n = functions[f].n /\ functions'[f].free = functions[f].free
        /\ functions'[f].sees = functions[f].sees
    BY <1>1 DEF Grows
  <2>2. Captured(functions[f])
    BY <1>1, <2>1 DEF CapturesSeen, Named
  <2>3. functions'[f].captures = functions[f].captures \/ functions[f].captures = <<>>
    BY <1>1, <2>1 DEF CapturesGo, Named
  <2> QED BY <2>1, <2>2, <2>3 DEF Captured, Gives
<1>2. CASE f \notin DOMAIN functions
    BY <1>2 DEF CapturesGo
<1> QED BY <1>1, <1>2

(* Calls that go on.                                                       *)
CallStays(i) ==
    /\ control'[i].ev = control[i].ev /\ control'[i].role = control[i].role
    /\ control'[i].f = control[i].f /\ control'[i].scopes = control[i].scopes
    /\ control[i].scopes = 2 =>
            evaluators'[control[i].ev].scopes[Base(control', i) + 1] = Own(i)

LEMMA CallSeesStays ==
    ASSUME TypeInv, Grows(functions, functions'), NEW i \in DOMAIN control, CallStays(i), CallSees(i)
    PROVE  CallSees(i)'
<1> SUFFICES ASSUME control'[i].role = "call", functions'[control'[i].f].n # Anonymous,
                    NEW n \in functions'[control'[i].f].free \cap DOMAIN functions'[control'[i].f].sees
             PROVE  control'[i].scopes = 2 /\ Gives(Own(i)', n, functions'[control'[i].f].sees[n])
    BY DEF CallSees, Named
<1> DEFINE f == control[i].f
<1>1. control[i].role = "call" /\ control'[i].f = f /\ f \in DOMAIN functions
    BY DEF CallStays, TypeInv, ControlOK, FrameOK
<1>2. /\ functions'[f].n = functions[f].n /\ functions'[f].free = functions[f].free
      /\ functions'[f].sees = functions[f].sees
    BY <1>1 DEF Grows
<1>3. control[i].scopes = 2 /\ Gives(Own(i), n, functions[f].sees[n])
    BY <1>1, <1>2 DEF CallSees, Named
<1>4. Own(i)' = Own(i)
    BY <1>3 DEF CallStays, Own
<1> QED BY <1>1, <1>2, <1>3, <1>4 DEF CallStays

LEMMA CallKnowsStays ==
    ASSUME TypeInv, Running, Grows(functions, functions'), OthersStay,
           NEW i \in DOMAIN control, CallStays(i), CallKnows(i)
    PROVE  CallKnows(i)'
<1> DEFINE f == control[i].f
           h == functions[f].home
<1> SUFFICES ASSUME control'[i].role = "call", functions'[control'[i].f].n = Anonymous,
                    functions'[control'[i].f].home # control'[i].ev
             PROVE  /\ \A j \in DOMAIN control' : control'[j].ev # functions'[control'[i].f].home
                    /\ \A n \in functions'[control'[i].f].free
                            \cap DOMAIN evaluators'[functions'[control'[i].f].home].scopes[1] :
                        /\ control'[i].scopes = 2
                        /\ Gives(Own(i)', n, evaluators'[functions'[control'[i].f].home].scopes[1][n])
    BY DEF CallKnows, Named, Globals, Left
<1>1. control[i].role = "call" /\ control'[i].f = f /\ f \in DOMAIN functions
    BY DEF CallStays, TypeInv, ControlOK, FrameOK
<1>2. /\ functions'[f].n = functions[f].n /\ functions'[f].free = functions[f].free
      /\ functions'[f].home = h /\ h \in DOMAIN evaluators
    BY <1>1 DEF Grows, TypeInv, FunctionsOK, FunctionOK
<1>3. /\ Left(h) /\ \A n \in functions[f].free \cap DOMAIN evaluators[h].scopes[1] :
            control[i].scopes = 2 /\ Gives(Own(i), n, evaluators[h].scopes[1][n])
    BY <1>1, <1>2 DEF CallKnows, CallStays, Named, Globals
<1>4. evaluators'[h] = evaluators[h] /\ \A d : d = h => Left(d)'
    BY <1>2, <1>3, LeftIsOther DEF OthersStay
<1>5. control[i].scopes = 2 => Own(i)' = Own(i)
    BY DEF CallStays, Own
<1> HIDE DEF f, h
<1>6. \A j \in DOMAIN control' : control'[j].ev # h
  <2>1. PICK d : d = h
    OBVIOUS
  <2>2. Left(d)'
    BY <1>4, <2>1
  <2> QED BY <2>1, <2>2 DEF Left
<1> QED BY <1>1, <1>2, <1>3, <1>4, <1>5, <1>6 DEF CallStays

LEMMA StaysCalls ==
    ASSUME TypeInv, Running, Structure, Stays, NEW i \in DOMAIN control
    PROVE  CallStays(i) /\ DOMAIN control' = DOMAIN control
<1>1. i \in Nat \ {0} /\ i <= Len(control) /\ Base(control, i) \in Nat \ {0}
      /\ control[i].ev \in DOMAIN evaluators
    BY FrameFacts
<1>2. SameFrames(control, control', Len(control)) /\ DOMAIN control' = DOMAIN control
      /\ Len(control) \in Nat
    BY StaysFrames, TopFacts
<1>3. \A j \in 1 .. i : control[j].ev = control'[j].ev /\ control[j].scopes = control'[j].scopes
    BY <1>1, <1>2 DEF SameFrames
<1>4. Base(control', i) = Base(control, i)
    BY <1>1, <1>3, BaseSame
<1>5. ASSUME control[i].scopes = 2
      PROVE  evaluators'[control[i].ev].scopes[Base(control, i) + 1] = Own(i)
  <2>1. CASE control[i].ev = Current
    <3>1. Base(control, i) + 2 <= Len(Self.scopes) /\ Len(Self.scopes) \in Nat
        BY <1>5, <2>1, BaseFacts, SelfFacts DEF Structure
    <3>2. Base(control, i) + 1 \in 1 .. Len(Self.scopes) /\ Base(control, i) + 1 # Len(Self.scopes)
        BY <1>1, <3>1
    <3>3. evaluators'[Current].scopes[Base(control, i) + 1] = Self.scopes[Base(control, i) + 1]
        BY <3>2 DEF Stays, Rebinds
    <3> QED BY <2>1, <3>3 DEF Own, Self
  <2>2. CASE control[i].ev # Current
    BY <1>1, <2>2 DEF Stays, Rebinds, Own
  <2> QED BY <2>1, <2>2
<1> QED BY <1>1, <1>2, <1>4, <1>5 DEF CallStays, SameFrames

LEMMA EntersCalls ==
    ASSUME TypeInv, Running, Structure, NEW f, NEW entered, Enters(f, entered),
           NEW i \in DOMAIN control
    PROVE  CallStays(i)
<1>1. i \in Nat \ {0} /\ Base(control, i) \in Nat \ {0} /\ control[i].ev \in DOMAIN evaluators
    BY FrameFacts
<1>2. Base(control', i) = Base(control, i) /\ control'[i] = control[i]
    BY EntersFrames DEF Enters
<1>3. ASSUME control[i].scopes = 2
      PROVE  evaluators'[control[i].ev].scopes[Base(control, i) + 1] = Own(i)
  <2>1. CASE control[i].ev = Current
    <3>1. Base(control, i) + 2 <= Len(Self.scopes) /\ Len(Self.scopes) \in Nat /\ IsSeq(Self.scopes)
        BY <1>3, <2>1, BaseFacts, SelfFacts DEF Structure
    <3>2. Base(control, i) + 1 \in 1 .. Len(Self.scopes)
        BY <1>1, <3>1
    <3>3. evaluators'[Current].scopes = Self.scopes \o entered /\ IsSeq(entered)
        BY DEF Enters, SelfScopes
    <3>4. evaluators'[Current].scopes[Base(control, i) + 1] = Self.scopes[Base(control, i) + 1]
        BY <3>1, <3>2, <3>3, ConcatIs
    <3> QED BY <2>1, <3>4 DEF Own, Self
  <2>2. CASE control[i].ev # Current
    BY <1>1, <2>2 DEF Enters, SelfScopes, Own
  <2> QED BY <2>1, <2>2
<1> QED BY <1>2, <1>3 DEF CallStays

(* The scope beneath the locals of a call that has just entered.           *)
LEMMA EnteredOwn ==
    ASSUME TypeInv, Running, Structure, NEW f, NEW entered, Enters(f, entered)
    PROVE  evaluators'[Current].scopes[Base(control', Len(control) + 1) + 1] = entered[1]
<1>1. Len(control) \in Nat \ {0} /\ Current \in DOMAIN evaluators /\ Self = evaluators[Current]
    BY TopFacts DEF Self
<1>2. control'[Len(control) + 1].ev = Current
    BY DEF Enters
<1>3. Base(control', Len(control) + 1) = 1 + Cardinality(Before(control, Current, Len(control) + 1))
    BY <1>2, EntersFrames DEF Base
<1>4. Len(Self.scopes) = 1 + Cardinality(Before(control, Current, Len(control) + 1))
    BY <1>1, ScopesAre DEF Structure
<1>5. evaluators'[Current].scopes = Self.scopes \o entered /\ IsSeq(entered) /\ Len(entered) \in 1 .. 2
    BY DEF Enters, SelfScopes
<1>6. IsSeq(Self.scopes)
    BY SelfFacts
<1>7. 1 \in 1 .. Len(entered)
  <2>1. PICK m \in 1 .. 2 : m = Len(entered)
    BY <1>5
  <2>2. 1 \in 1 .. m
    BY <2>1
  <2> QED BY <2>1, <2>2
<1>8. (Self.scopes \o entered)[Len(Self.scopes) + 1] = entered[1]
    BY <1>5, <1>6, <1>7, ConcatIs
<1> QED BY <1>3, <1>4, <1>5, <1>8

LEMMA ReturnsCalls ==
    ASSUME TypeInv, Running, Structure, Returns, NEW i \in DOMAIN control'
    PROVE  i \in DOMAIN control /\ CallStays(i)
<1>0. Shrinks
    BY DEF Returns
<1>1. i \in DOMAIN control /\ control'[i] = control[i] /\ i # Len(control)
      /\ Base(control', i) = Base(control, i)
    BY <1>0, ShrinksFrames
<1>2. i \in Nat \ {0} /\ i <= Len(control) /\ Len(control) \in Nat
      /\ Base(control, i) \in Nat \ {0} /\ control[i].ev \in DOMAIN evaluators
    BY <1>1, FrameFacts
<1>3. ASSUME control[i].scopes = 2
      PROVE  evaluators'[control[i].ev].scopes[Base(control, i) + 1] = Own(i)
  <2>1. CASE control[i].ev = Current
    <3>1. Base(control, i) + 2 <= Base(control, Len(control))
        BY <1>1, <1>2, <1>3, <2>1, BaseFacts, TopFacts DEF Structure
    <3>2. Base(control, Len(control)) + Top.scopes = Len(Self.scopes) /\ Top.scopes \in Nat
          /\ Len(Self.scopes) \in Nat /\ Base(control, Len(control)) \in Nat
        BY TopScopes DEF Structure
    <3>3. /\ Base(control, i) + 1 \in 1 .. Len(Self.scopes) - Top.scopes
          /\ Len(Self.scopes) - Top.scopes \in 0 .. Len(Self.scopes)
        BY <1>2, <3>1, <3>2
    <3>4. evaluators'[Current].scopes = SubSeq(Self.scopes, 1, Len(Self.scopes) - Top.scopes)
        BY DEF Returns, SelfScopes
    <3>5. SubSeq(Self.scopes, 1, Len(Self.scopes) - Top.scopes)[Base(control, i) + 1] =
                Self.scopes[Base(control, i) + 1]
        BY <3>3, SelfFacts, PrefixIs
    <3> QED BY <2>1, <3>4, <3>5 DEF Own, Self
  <2>2. CASE control[i].ev # Current
    BY <1>2, <2>2 DEF Returns, SelfScopes, Own
  <2> QED BY <2>1, <2>2
<1> QED BY <1>1, <1>3 DEF CallStays

LEMMA HandsOverCalls ==
    ASSUME TypeInv, Running, HandsOver, NEW i \in DOMAIN control'
    PROVE  i \in DOMAIN control /\ CallStays(i)
<1>1. i \in DOMAIN control /\ control'[i] = control[i] /\ Base(control', i) = Base(control, i)
    BY ShrinksFrames DEF HandsOver
<1> QED BY <1>1 DEF CallStays, HandsOver, Own

LEMMA OpenedCalls ==
    ASSUME TypeInv, Running, NEW file, Opened(file), NEW i \in DOMAIN control
    PROVE  CallStays(i)
<1>1. i \in Nat \ {0} /\ control[i].ev \in DOMAIN evaluators
    BY FrameFacts
<1>2. /\ \A j \in DOMAIN control : control'[j] = control[j]
      /\ evaluators'[control[i].ev] = evaluators[control[i].ev]
      /\ \A j \in 1 .. i : j \in DOMAIN control
    BY <1>1, OpenedFacts
<1>3. Base(control', i) = Base(control, i)
    BY <1>1, <1>2, BaseSame
<1> QED BY <1>2, <1>3 DEF CallStays, Own

-----------------------------------------------------------------------------
(* Evaluators stay left.                                                   *)
LEMMA StaysLeft ==
    ASSUME TypeInv, Running, Stays, NEW e
    PROVE  Left(e)' <=> Left(e)
BY StaysFrames, TopFacts DEF Left, SameFrames

LEMMA EntersLeft ==
    ASSUME TypeInv, Running, NEW f, NEW entered, Enters(f, entered), NEW e
    PROVE  Left(e)' <=> Left(e)
<1>1. DOMAIN control' = 1 .. Len(control) + 1 /\ DOMAIN control = 1 .. Len(control)
      /\ Len(control) \in Nat \ {0} /\ control[Len(control)].ev = Current
    BY EntersFrames, TopFacts
<1>2. /\ \A i \in DOMAIN control : control'[i] = control[i]
      /\ control'[Len(control) + 1].ev = Current
    BY DEF Enters
<1>3. \A i \in DOMAIN control' : i \in DOMAIN control \/ i = Len(control) + 1
    BY <1>1
<1> QED BY <1>1, <1>2, <1>3 DEF Left

LEMMA ShrinksLeft ==
    ASSUME TypeInv, Running, Shrinks, NEW e
    PROVE  Left(e) => Left(e)'
BY ShrinksFrames DEF Left

LEMMA ReturnsLeft ==
    ASSUME TypeInv, Running, Structure, Returns, NEW e
    PROVE  Left(e)' => Left(e)
<1>1. /\ DOMAIN control' = 1 .. Len(control) - 1 /\ DOMAIN control = 1 .. Len(control)
      /\ Len(control) \in Nat \ {0} /\ \A i \in DOMAIN control' : control'[i] = control[i]
    BY ShrinksFrames DEF Returns
<1>2. Len(control) - 1 \in DOMAIN control /\ Len(control) - 1 # Len(control)
      /\ control[Len(control) - 1].ev = Current /\ control[Len(control)].ev = Current
    BY CallOnTop, TopFacts DEF Returns, Structure
<1>3. Len(control) - 1 \in DOMAIN control' /\ \A i \in DOMAIN control : i \in DOMAIN control' \/ i = Len(control)
  <2>1. PICK n \in Nat : n = Len(control)
    BY <1>1
  <2>2. n - 1 \in 1 .. n
    BY <1>1, <1>2, <2>1
  <2>3. n - 1 \in 1 .. n - 1 /\ \A i \in 1 .. n : i \in 1 .. n - 1 \/ i = n
    BY <2>2
  <2> QED BY <1>1, <2>1, <2>3
<1> QED BY <1>1, <1>2, <1>3 DEF Left

LEMMA OpenedLeft ==
    ASSUME TypeInv, Running, NEW file, Opened(file), NEW e \in DOMAIN evaluators
    PROVE  Left(e)' <=> Left(e)
<1> DEFINE n == Len(control) + 1
           new == Len(evaluators) + 1
<1>1. /\ DOMAIN control' = 1 .. n /\ DOMAIN control = 1 .. Len(control)
      /\ Len(control) \in Nat \ {0} /\ \A i \in DOMAIN control : control'[i] = control[i]
      /\ control'[n] = FileFrame(new, file) /\ \A d \in DOMAIN evaluators : d # new
    BY OpenedFacts
<1>2. control'[n].ev # e
    BY <1>1 DEF FileFrame
<1>3. \A i \in DOMAIN control' : i \in DOMAIN control \/ i = n
    BY <1>1
<1>4. \A i \in DOMAIN control : i \in DOMAIN control'
    BY <1>1
<1> QED BY <1>1, <1>2, <1>3, <1>4 DEF Left

-----------------------------------------------------------------------------
(* What is known of messages, from one step to the next.                   *)
CapturesStay ==
    \A f \in DOMAIN functions :
        functions[f].n = Anonymous /\ Left(functions[f].home) =>
            functions'[f].captures = functions[f].captures

LEMMA CapturesOfStays ==
    ASSUME TypeInv, Running, Grows(functions, functions'), OthersStay, CapturesStay,
           NEW f \in DOMAIN functions, functions[f].n = Anonymous,
           Left(functions[f].home), CapturesOf(f)
    PROVE  CapturesOf(f)'
<1>1. /\ functions'[f].home = functions[f].home /\ functions'[f].free = functions[f].free
      /\ functions'[f].captures = functions[f].captures /\ functions[f].home \in DOMAIN evaluators
    BY DEF Grows, CapturesStay, TypeInv, FunctionsOK, FunctionOK
<1>2. evaluators'[functions[f].home] = evaluators[functions[f].home]
    BY <1>1, LeftIsOther DEF OthersStay
<1> QED BY <1>1, <1>2 DEF CapturesOf

LEMMA KnownStays ==
    ASSUME TypeInv, Running, Grows(functions, functions'), OthersStay, CapturesStay,
           NEW e \in DOMAIN evaluators, NEW k,
           NEW f \in DOMAIN functions, functions[f].n = Anonymous, MessageKnown(e, k, f)
    PROVE  MessageKnown(e, k, f)'
<1>1. functions'[f].home = functions[f].home /\ functions[f].home \in DOMAIN evaluators
    BY DEF Grows, TypeInv, FunctionsOK, FunctionOK
<1>2. \A d \in DOMAIN evaluators : evaluators'[d].file = evaluators[d].file /\ (Left(d) => Left(d)')
    BY DEF OthersStay
<1>3. k[1][1] = evaluators'[functions'[f].home].file
    BY <1>1, <1>2 DEF MessageKnown
<1>4. CASE functions[f].home = e
    BY <1>1, <1>3, <1>4 DEF MessageKnown
<1>5. CASE Foreign(f, evaluators[e].file)
  <2>1. CapturesOf(f)'
    BY <1>5, CapturesOfStays DEF Foreign
  <2>2. evaluators'[functions'[f].home].file # evaluators'[e].file
    BY <1>1, <1>2, <1>5 DEF Foreign
  <2>3. PICK h \in DOMAIN evaluators : h = functions[f].home
    BY <1>1
  <2>4. Left(h)'
    BY <1>2, <1>5, <2>3 DEF Foreign
  <2>5. Left(functions[f].home)'
    BY <2>3, <2>4, <1>1 DEF Left
  <2>6. Foreign(f, evaluators[e].file)'
    BY <2>1, <2>2, <2>5 DEF Foreign
  <2> QED BY <1>3, <2>6 DEF MessageKnown
<1> QED BY <1>4, <1>5 DEF MessageKnown

LEMMA HandedOverStays ==
    ASSUME TypeInv, Running, Grows(functions, functions'), OthersStay, CapturesStay,
           NEW home \in DOMAIN evaluators, Left(home), NEW types,
           \A n \in DOMAIN types : SafeMessages(functions, types[n].behaviors),
           HandedOver(home, types)
    PROVE  HandedOver(home, types)'
<1> SUFFICES ASSUME NEW n \in DOMAIN types, NEW k \in DOMAIN types[n].behaviors,
                    NEW f, f = types[n].behaviors[k]
             PROVE  /\ functions'[f].home = home /\ k[1][1] = evaluators'[home].file
                    /\ CapturesOf(f)'
    BY DEF HandedOver
<1>1. f \in DOMAIN functions /\ functions[f].n = Anonymous
    BY DEF SafeMessages
<1>2. functions[f].home = home /\ k[1][1] = evaluators[home].file /\ CapturesOf(f)
    BY DEF HandedOver
<1>3. CapturesOf(f)'
    BY <1>1, <1>2, CapturesOfStays
<1> QED BY <1>1, <1>2, <1>3 DEF Grows, OthersStay

MessagesGo ==
    \A k \in DOMAIN evaluators'[Current].behaviors :
        LET f == evaluators'[Current].behaviors[k]
        IN  \/ k \in DOMAIN Self.behaviors /\ f = Self.behaviors[k]
            \/ functions'[f].home = Current /\ k[1][1] = Self.file
            \/ /\ result.kind = "module"
               /\ \E n \in DOMAIN result.types :
                    k \in DOMAIN result.types[n].behaviors /\ f = result.types[n].behaviors[k]

LEMMA MessagesStayKnown ==
    ASSUME TypeInv, Running, Grows(functions, functions'), OthersStay, CapturesStay,
           MessagesKnown, MessagesHandedOver, MessagesGo,
           \A e \in DOMAIN evaluators' : e \notin DOMAIN evaluators => evaluators'[e].behaviors = <<>>
    PROVE  MessagesKnown'
<1> SUFFICES ASSUME NEW e \in DOMAIN evaluators', NEW k \in DOMAIN evaluators'[e].behaviors,
                    NEW f, f = evaluators'[e].behaviors[k]
             PROVE  MessageKnown(e, k, f)'
    BY DEF MessagesKnown
<1>1. e \in DOMAIN evaluators
    OBVIOUS
<1>2. \A d \in DOMAIN evaluators : \A j \in DOMAIN evaluators[d].behaviors :
        /\ evaluators[d].behaviors[j] \in DOMAIN functions
        /\ functions[evaluators[d].behaviors[j]].n = Anonymous
    BY DEF TypeInv, EvaluatorsOK, EvaluatorOK, SafeMessages
<1>3. CASE k \in DOMAIN evaluators[e].behaviors /\ f = evaluators[e].behaviors[k]
    BY <1>1, <1>2, <1>3, KnownStays DEF MessagesKnown
<1>4. CASE e # Current
    BY <1>1, <1>3, <1>4 DEF OthersStay
<1>5. CASE e = Current /\ functions'[f].home = Current /\ k[1][1] = Self.file
    BY <1>1, <1>5 DEF MessageKnown, OthersStay, Self
<1>6. CASE /\ e = Current /\ result.kind = "module"
           /\ \E n \in DOMAIN result.types :
                k \in DOMAIN result.types[n].behaviors /\ f = result.types[n].behaviors[k]
  <2>1. PICK n \in DOMAIN result.types :
            k \in DOMAIN result.types[n].behaviors /\ f = result.types[n].behaviors[k]
    BY <1>6
  <2>2. f \in DOMAIN functions /\ functions[f].n = Anonymous
    BY <1>6, <2>1 DEF TypeInv, ResultOK, SafeMessages
  <2>3. PICK home \in DOMAIN evaluators :
            Left(home) /\ evaluators[home].file # Self.file /\ HandedOver(home, result.types)
    BY <1>6 DEF MessagesHandedOver
  <2>4. functions[f].home = home /\ k[1][1] = evaluators[home].file /\ CapturesOf(f)
    BY <2>1, <2>3 DEF HandedOver
  <2>5. MessageKnown(e, k, f)
    BY <1>6, <2>3, <2>4 DEF MessageKnown, Foreign, Self
  <2> QED BY <1>1, <2>2, <2>5, KnownStays
<1>7. e = Current => k \in DOMAIN evaluators'[Current].behaviors /\ f = evaluators'[Current].behaviors[k]
    OBVIOUS
<1> QED BY <1>3, <1>4, <1>5, <1>6, <1>7 DEF MessagesGo, Self

(* What a module handed over, while the statement that opened it goes on.  *)
LEMMA StillHandedOver ==
    ASSUME TypeInv, Running, Grows(functions, functions'), OthersStay, CapturesStay,
           MessagesHandedOver, result' = result, Current' = Current
    PROVE  MessagesHandedOver'
<1> SUFFICES ASSUME result.kind = "module"
             PROVE  \E home \in DOMAIN evaluators' :
                        /\ Left(home)' /\ evaluators'[home].file # Self.file'
                        /\ HandedOver(home, result.types)'
    BY DEF MessagesHandedOver
<1>1. PICK home \in DOMAIN evaluators :
            Left(home) /\ evaluators[home].file # Self.file /\ HandedOver(home, result.types)
    BY DEF MessagesHandedOver
<1>2. Self.file' = Self.file /\ evaluators'[home].file = evaluators[home].file /\ Left(home)'
      /\ home \in DOMAIN evaluators'
    BY <1>1, TopFacts DEF Self, OthersStay
<1>3. PICK types : types = result.types
    OBVIOUS
<1>4. \A n \in DOMAIN types : SafeMessages(functions, types[n].behaviors)
    BY <1>3 DEF TypeInv, ResultOK
<1>5. HandedOver(home, types)'
    BY <1>1, <1>3, <1>4, HandedOverStays
<1>6. HandedOver(home, result.types)'
    BY <1>3, <1>5
<1> QED BY <1>1, <1>2, <1>6

LEMMA NothingHandedOver ==
    ASSUME result'.kind # "module"
    PROVE  MessagesHandedOver'
BY DEF MessagesHandedOver

-----------------------------------------------------------------------------
(* What a module that is left hands over.                                  *)
MessagesOf(e) ==
    {evaluators[e].behaviors[k] :
        k \in UNION {BehaviorsOf(e, evaluators[e].structs[n]) : n \in ExportedTypes(e)}}

Bare(e) == {f \in ExportedFunctions(e) : functions[f].captures = <<>>}

LEMMA RecapturedIs ==
    ASSUME TypeInv, NEW e, functions' = Recaptured(e)
    PROVE  /\ IsSeq(functions') /\ DOMAIN functions' = DOMAIN functions
           /\ \A f \in DOMAIN functions :
                functions'[f] = IF f \in MessagesOf(e) \cup Bare(e)
                                THEN [functions[f] EXCEPT !.captures =
                                        ValuesFor(evaluators[e].scopes, functions[f].free)]
                                ELSE functions[f]
<1> DEFINE New(f) == IF f \in MessagesOf(e) \cup Bare(e)
                     THEN [functions[f] EXCEPT !.captures =
                             ValuesFor(evaluators[e].scopes, functions[f].free)]
                     ELSE functions[f]
           made == [f \in DOMAIN functions |-> New(f)]
<1>1. functions' = <<>> \o made
    BY DEF Recaptured, MessagesOf, Bare
<1>2. IsSeq(functions) /\ Len(functions) \in Nat /\ DOMAIN functions = 1 .. Len(functions)
    BY SeqFacts DEF TypeInv, FunctionsOK
<1>3. IsSeq(made) /\ Len(made) = Len(functions)
  <2>1. DOMAIN made = 1 .. Len(functions) /\ made = [f \in 1 .. Len(functions) |-> made[f]]
    BY <1>2
  <2> HIDE DEF made
  <2> QED BY <1>2, <2>1, ListIsSeq
<1>4. \A f \in DOMAIN functions : made[f] = New(f)
    OBVIOUS
<1>5. IsSeq(<<>>) /\ Len(<<>>) = 0
    BY EmptyIsSeq
<1> HIDE DEF made
<1>6. /\ IsSeq(functions') /\ Len(functions') = 0 + Len(made)
      /\ \A f \in 1 .. Len(made) : functions'[0 + f] = made[f]
    BY <1>1, <1>3, <1>5, ConcatIs
<1>7. DOMAIN functions' = DOMAIN functions /\ \A f \in DOMAIN functions : functions'[f] = made[f]
    BY <1>2, <1>3, <1>6, SeqFacts
<1> QED BY <1>4, <1>6, <1>7

LEMMA MessagesHaveNoName ==
    ASSUME TypeInv, NEW e \in DOMAIN evaluators, NEW f \in MessagesOf(e)
    PROVE  f \in DOMAIN functions /\ functions[f].n = Anonymous
<1>1. PICK k \in DOMAIN evaluators[e].behaviors : f = evaluators[e].behaviors[k]
    BY DEF MessagesOf, BehaviorsOf
<1> QED BY <1>1, EvaluatorFacts DEF EvaluatorOK, SafeMessages

LEMMA BareHaveNames ==
    ASSUME TypeInv, NEW e \in DOMAIN evaluators, NEW f \in Bare(e)
    PROVE  f \in DOMAIN functions /\ functions[f].n # Anonymous /\ functions[f].captures = <<>>
<1> DEFINE seen == Seen(evaluators[e].scopes)
<1>1. PICK n \in DOMAIN seen : seen[n].kind = "function" /\ f = seen[n].f
    BY DEF Bare, ExportedFunctions
<1>2. SafeMap(functions, seen)
    BY EvaluatorFacts, SeenSafe
<1> HIDE DEF seen
<1>3. Safe(functions, seen[n])
    BY <1>1, <1>2 DEF SafeMap
<1> QED BY <1>1, <1>3 DEF Safe, Bare

LEMMA RecapturedGrows ==
    ASSUME TypeInv, NEW e \in DOMAIN evaluators, functions' = Recaptured(e)
    PROVE  Grows(functions, functions') /\ CapturesGo
<1>1. \A f \in DOMAIN functions :
        /\ functions'[f].n = functions[f].n /\ functions'[f].body = functions[f].body
        /\ functions'[f].free = functions[f].free /\ functions'[f].home = functions[f].home
        /\ functions'[f].sees = functions[f].sees
  <2> SUFFICES ASSUME NEW f \in DOMAIN functions
               PROVE  /\ functions'[f].n = functions[f].n /\ functions'[f].body = functions[f].body
                      /\ functions'[f].free = functions[f].free /\ functions'[f].home = functions[f].home
                      /\ functions'[f].sees = functions[f].sees
    OBVIOUS
  <2>1. DOMAIN functions[f] = FunctionFields
    BY DEF TypeInv, FunctionsOK, FunctionOK
  <2>2. \/ functions'[f] = functions[f]
        \/ \E c : functions'[f] = [functions[f] EXCEPT !.captures = c]
    BY RecapturedIs
  <2> QED BY <2>1, <2>2 DEF FunctionFields
<1>2. DOMAIN functions' = DOMAIN functions
    BY RecapturedIs
<1>3. ASSUME NEW f \in DOMAIN functions, functions[f].n # Anonymous
      PROVE  functions'[f].captures = functions[f].captures \/ functions[f].captures = <<>>
  <2>1. CASE f \in Bare(e)
    BY <2>1, BareHaveNames
  <2>2. CASE f \notin Bare(e)
    <3>1. f \notin MessagesOf(e)
        BY <1>3, MessagesHaveNoName
    <3> QED BY <2>2, <3>1, RecapturedIs
  <2> QED BY <2>1, <2>2
<1> QED BY <1>1, <1>2, <1>3 DEF Grows, CapturesGo, Named

LEMMA RecapturedTyped ==
    ASSUME TypeInv, NEW e \in DOMAIN evaluators, functions' = Recaptured(e),
           DOMAIN evaluators' = DOMAIN evaluators
    PROVE  FunctionsOK'
<1>1. Grows(functions, functions') /\ DOMAIN functions' = DOMAIN functions /\ IsSeq(functions')
    BY RecapturedGrows, RecapturedIs
<1>2. ASSUME NEW f \in DOMAIN functions PROVE FunctionOK(functions', DOMAIN evaluators', functions'[f])
  <2>1. FunctionOK(functions, DOMAIN evaluators, functions[f])
    BY DEF TypeInv, FunctionsOK
  <2>2. SafeMap(functions', functions[f].captures)
    BY <1>1, <2>1, SafeGrows DEF FunctionOK
  <2>3. CASE functions'[f] = functions[f]
    BY <2>1, <2>2, <2>3 DEF FunctionOK
  <2>4. CASE functions'[f] = [functions[f] EXCEPT !.captures =
                                ValuesFor(evaluators[e].scopes, functions[f].free)]
    <3>1. SafeMap(functions, ValuesFor(evaluators[e].scopes, functions[f].free))
        BY EvaluatorFacts, SeenSafe
    <3>2. SafeMap(functions', ValuesFor(evaluators[e].scopes, functions[f].free))
        BY <1>1, <3>1, SafeGrows
    <3> QED BY <2>1, <2>4, <3>2 DEF FunctionOK, FunctionFields
  <2> QED BY <2>3, <2>4, RecapturedIs
<1> QED BY <1>1, <1>2 DEF FunctionsOK

(* The messages that go with an exported type are its module's own.        *)
LEMMA OwnMessages ==
    ASSUME TypeInv, MessagesKnown, NothingExportedAgain, NEW e \in DOMAIN evaluators,
           NEW n \in ExportedTypes(e), NEW k \in BehaviorsOf(e, evaluators[e].structs[n])
    PROVE  /\ k \in DOMAIN evaluators[e].behaviors
           /\ k[1][1] = evaluators[e].file
           /\ functions[evaluators[e].behaviors[k]].home = e
<1>1. k \in DOMAIN evaluators[e].behaviors /\ k[1] = evaluators[e].structs[n]
    BY DEF BehaviorsOf
<1>2. evaluators[e].structs[n][1] = evaluators[e].file
    BY DEF NothingExportedAgain, ExportsAgain, ExportedTypes
<1>3. MessageKnown(e, k, evaluators[e].behaviors[k])
    BY <1>1 DEF MessagesKnown
<1> QED BY <1>1, <1>2, <1>3 DEF MessageKnown, Foreign

LEMMA RecapturedStay ==
    ASSUME TypeInv, MessagesKnown, NothingExportedAgain, NEW e \in DOMAIN evaluators, ~Left(e),
           functions' = Recaptured(e)
    PROVE  CapturesStay
<1> SUFFICES ASSUME NEW f \in DOMAIN functions, functions[f].n = Anonymous, Left(functions[f].home)
             PROVE  functions'[f].captures = functions[f].captures
    BY DEF CapturesStay
<1>1. f \notin Bare(e)
    BY BareHaveNames
<1>2. f \notin MessagesOf(e)
  <2>1. ASSUME f \in MessagesOf(e) PROVE functions[f].home = e
    <3>1. PICK n \in ExportedTypes(e) :
            \E k \in BehaviorsOf(e, evaluators[e].structs[n]) : f = evaluators[e].behaviors[k]
        BY <2>1 DEF MessagesOf
    <3>2. PICK k \in BehaviorsOf(e, evaluators[e].structs[n]) : f = evaluators[e].behaviors[k]
        BY <3>1
    <3> QED BY <3>2, OwnMessages
  <2> QED BY <2>1
<1> QED BY <1>1, <1>2, RecapturedIs

LEMMA InterchangeSafe ==
    ASSUME TypeInv, NEW e \in DOMAIN evaluators, NEW v, Safe(functions, v)
    PROVE  ResultOK(functions, Interchange(e, v))
<1> DEFINE seen == Seen(evaluators[e].scopes)
           r == Interchange(e, v)
<1>1. SafeMap(functions, seen) /\ SafeMessages(functions, evaluators[e].behaviors)
    BY EvaluatorFacts, SeenSafe DEF EvaluatorOK
<1>2. r.kind = "module" /\ r.v = v
    BY DEF Interchange
<1>3. r.values = [n \in ExportsOf(e) \cap DOMAIN seen |-> seen[n]]
    BY DEF Interchange
<1>4. /\ DOMAIN r.types = ExportedTypes(e)
      /\ \A n \in ExportedTypes(e) :
            r.types[n].behaviors = [k \in BehaviorsOf(e, evaluators[e].structs[n]) |-> evaluators[e].behaviors[k]]
    BY DEF Interchange
<1> HIDE DEF seen, r
<1>5. SafeMap(functions, r.values)
    BY <1>1, <1>3 DEF SafeMap
<1>6. ASSUME NEW n \in DOMAIN r.types PROVE SafeMessages(functions, r.types[n].behaviors)
  <2> DEFINE given == BehaviorsOf(e, evaluators[e].structs[n])
             b == r.types[n].behaviors
  <2>1. given \subseteq DOMAIN evaluators[e].behaviors
    BY DEF BehaviorsOf
  <2> HIDE DEF given
  <2>2. b = [k \in given |-> evaluators[e].behaviors[k]]
    BY <1>4, <1>6 DEF given
  <2> HIDE DEF b
  <2>3. SafeMessages(functions, b)
    BY <1>1, <2>1, <2>2 DEF SafeMessages
  <2> QED BY <2>3 DEF b
<1> QED BY <1>2, <1>5, <1>6 DEF ResultOK, r

LEMMA ModuleHandsOver ==
    ASSUME TypeInv, Running, Structure, MessagesKnown, NothingExportedAgain,
           HandsOver, Len(control) # 1, functions' = Recaptured(Current),
           NEW v, result' = Interchange(Current, v)
    PROVE  MessagesHandedOver'
<1>0. PICK e \in DOMAIN evaluators : e = Current
    BY TopFacts
<1>1. PICK types : e = Current /\ types = result'.types
    BY <1>0
<1>2. /\ DOMAIN types = ExportedTypes(e)
      /\ \A n \in ExportedTypes(e) :
            types[n].behaviors = [k \in BehaviorsOf(e, evaluators[e].structs[n]) |-> evaluators[e].behaviors[k]]
    BY <1>1 DEF Interchange
<1>3. /\ DOMAIN control' = 1 .. Len(control) - 1 /\ DOMAIN control = 1 .. Len(control)
      /\ Len(control) \in Nat \ {0} /\ DOMAIN control' \subseteq DOMAIN control
      /\ \A i \in DOMAIN control' : control'[i] = control[i] /\ i # Len(control)
    BY ShrinksFrames DEF HandsOver
<1>4. Left(e)'
  <2>1. ASSUME NEW i \in DOMAIN control' PROVE control'[i].ev # e
    <3>1. control[i].ev < Current /\ control[i].ev \in Nat /\ Current \in Nat
        BY <1>3, FileOnTop, FrameFacts, TopFacts DEF HandsOver, Structure
    <3> QED BY <1>1, <1>3, <3>1
  <2> QED BY <2>1 DEF Left
<1>5. evaluators'[e].file # Self.file'
  <2>0. PICK n \in Nat : n = Len(control) /\ n # 0
    <3>1. Len(control) \in Nat \ {0}
        BY TopFacts
    <3> QED BY <3>1
  <2>1. PICK m \in Nat : m = n - 1 /\ n = Len(control) /\ n # 0
    BY <2>0
  <2>2. m \in DOMAIN control /\ n \in DOMAIN control /\ m < n /\ m # 0
    BY <1>3, <2>1
  <2>3. Self.file' = evaluators[control[m].ev].file
    <3>1. Len(control') = m
        BY <2>1, <1>3 DEF HandsOver, Shrinks
    <3>2. m \in DOMAIN control'
        BY <1>3, <2>1, <2>2
    <3>3. control'[m] = control[m]
        BY <1>3, <3>2
    <3> QED BY <3>1, <3>3 DEF Self, Current, Top, Last, HandsOver
  <2>4. control[n].ev = e /\ evaluators'[e].file = evaluators[e].file
    BY <1>1, <2>1, TopFacts DEF HandsOver
  <2>5. /\ Len(StackOf(m)) = FilesIn(control, m) /\ Len(StackOf(n)) = FilesIn(control, n)
        /\ StackOf(m)[Len(StackOf(m))] = evaluators[control[m].ev].file
        /\ StackOf(n)[Len(StackOf(n))] = evaluators[e].file
        /\ \A j, k \in DOMAIN StackOf(n) : StackOf(n)[j] = StackOf(n)[k] => j = k
        /\ \A k \in DOMAIN StackOf(m) : StackOf(n)[k] = StackOf(m)[k]
    BY <2>2, <2>4 DEF Structure, StacksFollow
  <2>6. control[n].role = "file" /\ control[1].role = "file"
    BY <2>1, TopFacts DEF HandsOver, Structure, FramesFollow
  <2>7. FilesIn(control, n) = FilesIn(control, m) + 1
    <3>1. m + 1 = n
        BY <2>1
    <3> QED BY <2>6, <3>1, FilesFollow
  <2>8. FilesIn(control, m) \in Nat \ {0}
    <3>1. FilesIn(control, 0) \in Nat /\ FilesIn(control, 0 + 1) = FilesIn(control, 0) + 1
        BY <2>6, FilesFinite, FilesFollow
    <3>2. FilesIn(control, 1) <= FilesIn(control, m)
        BY <2>2, FilesGrow
    <3>3. FilesIn(control, m) \in Nat
        BY FilesFinite
    <3> QED BY <3>1, <3>2, <3>3
  <2>9. DOMAIN StackOf(m) = 1 .. Len(StackOf(m)) /\ DOMAIN StackOf(n) = 1 .. Len(StackOf(n))
    <3>1. StackOf(m) \in Seq(Files) /\ StackOf(n) \in Seq(Files)
        BY <2>2, FrameFacts, EvaluatorFacts DEF StackOf, EvaluatorOK
    <3> QED BY <3>1
  <2> DEFINE c == FilesIn(control, m)
  <2>10. c \in DOMAIN StackOf(m) /\ c \in DOMAIN StackOf(n) /\ c + 1 \in DOMAIN StackOf(n) /\ c # c + 1
    BY <2>5, <2>7, <2>8, <2>9
  <2>11. StackOf(n)[c] = evaluators[control[m].ev].file /\ StackOf(n)[c + 1] = evaluators[e].file
    BY <2>5, <2>7, <2>10
  <2> QED BY <2>3, <2>4, <2>5, <2>10, <2>11
<1>6. HandedOver(e, types)'
  <2> SUFFICES ASSUME NEW n \in DOMAIN types, NEW k \in DOMAIN types[n].behaviors,
                      NEW f, f = types[n].behaviors[k]
               PROVE  /\ functions'[f].home = e /\ k[1][1] = evaluators'[e].file
                      /\ CapturesOf(f)'
    BY DEF HandedOver
  <2>1. n \in ExportedTypes(e) /\ k \in BehaviorsOf(e, evaluators[e].structs[n])
        /\ f = evaluators[e].behaviors[k]
    <3>1. n \in ExportedTypes(e)
        BY <1>2
    <3> DEFINE B == BehaviorsOf(e, evaluators[e].structs[n])
    <3>2. types[n].behaviors = [x \in B |-> evaluators[e].behaviors[x]]
        BY <1>2, <3>1
    <3> HIDE DEF B
    <3>3. k \in B /\ types[n].behaviors[k] = evaluators[e].behaviors[k]
        BY <3>2
    <3> QED BY <3>1, <3>3 DEF B
  <2>2. f \in MessagesOf(e) /\ f \in DOMAIN functions
    BY <2>1, MessagesHaveNoName DEF MessagesOf
  <2>3. functions[f].home = e /\ k[1][1] = evaluators[e].file
    BY <2>1, OwnMessages
  <2>4. functions'[f] = [functions[f] EXCEPT !.captures = ValuesFor(evaluators[e].scopes, functions[f].free)]
    BY <1>1, <2>2, RecapturedIs
  <2>5. DOMAIN functions[f] = FunctionFields
    BY <2>2 DEF TypeInv, FunctionsOK, FunctionOK
  <2>6. functions'[f].home = e /\ functions'[f].free = functions[f].free
        /\ functions'[f].captures = ValuesFor(evaluators[e].scopes, functions[f].free)
    BY <2>3, <2>4, <2>5 DEF FunctionFields
  <2> QED BY <2>3, <2>6 DEF CapturesOf, HandsOver
<1>7. e \in DOMAIN evaluators'
    BY DEF HandsOver
<1>8. HandedOver(e, result.types)'
    BY <1>1, <1>6
<1> QED BY <1>4, <1>5, <1>7, <1>8 DEF MessagesHandedOver

-----------------------------------------------------------------------------
(* The invariant, from one step to the next, by what kind of step it is.   *)
LEMMA OnGoing ==
    ASSUME IInv, Running, Goes, TypeInv', CapturesGo,
           Running' => Structure' /\ CallsSee' /\ Knowledge'
    PROVE  IInv'
<1>1. TypeInv /\ Structure /\ CallsSee /\ Knowledge /\ CapturesSeen /\ ReadsSeen /\ MessagesReadTheirModule
    BY DEF IInv
<1>2. Grows(functions, functions')
    BY DEF Goes
<1>3. CapturesSeen'
    BY <1>1, <1>2, CapturesAreSeen
<1>4. ReadsSeen'
    BY <1>1, ReadsAreRight
<1>5. MessagesReadTheirModule'
    BY <1>1, MessageReadsAreRight
<1> QED BY <1>3, <1>4, <1>5 DEF IInv

LEMMA KnowledgeNeeds ==
    ASSUME TypeInv, Knowledge, Goes,
           NothingExportedAgain /\ MessagesKnown /\ MessagesHandedOver /\ CallsKnow =>
                MessagesKnown' /\ MessagesHandedOver' /\ CallsKnow'
    PROVE  Knowledge'
BY ExportsStay DEF Knowledge

(* The program stops.                                                      *)
LEMMA StopsKeep ==
    ASSUME IInv, Running, TypeInv', ~Running', evaluators' = evaluators, functions' = functions,
           disk' = disk, Reads, \A e : Left(e) => Left(e)',
           lastRead'.f # 0 => control' = control
    PROVE  IInv'
<1>1. Grows(functions, functions')
    BY DEF Grows
<1>2. OthersStay
    BY ExtendsSelf DEF OthersStay
<1>3. lastRead'.f # 0 => \A e \in DOMAIN evaluators : Left(e)' => Left(e)
    BY DEF Left
<1>4. Goes
    BY <1>1, <1>2, <1>3 DEF Goes
<1>5. CapturesGo
    BY DEF CapturesGo
<1> QED BY <1>4, <1>5, OnGoing

(* The frames stay.                                                        *)
LEMMA StaysKeep ==
    ASSUME IInv, Running, TypeInv', Stays, disk' = disk, Grows(functions, functions'),
           CapturesGo, CapturesStay, MessagesGo, Reads,
           Extends(Self.structs, evaluators'[Current].structs),
           result' = result \/ result' = Nothing
    PROVE  IInv'
<1>1. TypeInv /\ Structure /\ CallsSee /\ Knowledge
    BY DEF IInv
<1>2. OthersStay
  <2>1. ASSUME NEW e \in DOMAIN evaluators
        PROVE  /\ evaluators'[e].file = evaluators[e].file
               /\ Extends(evaluators[e].structs, evaluators'[e].structs)
               /\ e # Current => evaluators'[e] = evaluators[e]
               /\ Left(e) => Left(e)'
    <3>1. Left(e) => Left(e)'
        BY <1>1, StaysLeft
    <3>2. CASE e = Current
        BY <3>1, <3>2 DEF Stays, Rebinds, Self
    <3>3. CASE e # Current
      <4>1. evaluators'[e] = evaluators[e]
        BY <3>3 DEF Stays, Rebinds
      <4> QED BY <3>1, <3>3, <4>1, ExtendsSelf
    <3> QED BY <3>2, <3>3
  <2>2. DOMAIN evaluators' = DOMAIN evaluators
    BY DEF Stays, Rebinds
  <2> QED BY <2>1, <2>2 DEF OthersStay
<1>3. Goes
    BY <1>1, <1>2, StaysLeft DEF Goes
<1>4. Structure'
    BY <1>1, StaysStructure
<1>5. DOMAIN control' = DOMAIN control /\ \A i \in DOMAIN control : CallStays(i)
    BY <1>1, StaysCalls, TopFacts
<1>6. CallsSee'
    BY <1>1, <1>5, CallSeesStays DEF CallsSee
<1>7. ASSUME CallsKnow PROVE CallsKnow'
    BY <1>1, <1>2, <1>5, <1>7, CallKnowsStays DEF CallsKnow
<1>8. ASSUME MessagesKnown, MessagesHandedOver PROVE MessagesKnown'
  <2>1. \A e \in DOMAIN evaluators' : e \in DOMAIN evaluators
    BY DEF Stays, Rebinds
  <2> QED BY <1>1, <1>2, <1>8, <2>1, MessagesStayKnown
<1>9. ASSUME MessagesHandedOver PROVE MessagesHandedOver'
  <2>1. Current' = Current
    <3>1. control'[Len(control)].ev = control[Len(control)].ev /\ Len(control') = Len(control)
        BY <1>1, StaysFrames, TopFacts DEF SameFrames
    <3> QED BY <3>1 DEF Current, Top, Last
  <2>2. CASE result' = result
    BY <1>1, <1>2, <1>9, <2>1, <2>2, StillHandedOver
  <2>3. CASE result' = Nothing
    BY <2>3, NothingHandedOver DEF Nothing
  <2> QED BY <2>2, <2>3
<1>10. Knowledge'
    BY <1>1, <1>3, <1>7, <1>8, <1>9, KnowledgeNeeds
<1> QED BY <1>3, <1>4, <1>6, <1>10, OnGoing

(* When functions are only added, and nothing else is done to messages.    *)
LEMMA FunctionsKept ==
    ASSUME functions' = functions
    PROVE  Grows(functions, functions') /\ CapturesGo /\ CapturesStay
BY DEF Grows, CapturesGo, CapturesStay

LEMMA MessagesKept ==
    ASSUME evaluators'[Current].behaviors = Self.behaviors
    PROVE  MessagesGo
BY DEF MessagesGo

(* A call enters, with the captures of its function beneath its locals.    *)
Entered(f) == IF NeedsScope(f) THEN <<OwnScope(f), <<>>>> ELSE << <<>> >>

LEMMA EnteredGives ==
    ASSUME NEW f, NEW n \in DOMAIN functions[f].captures
    PROVE  /\ Len(Entered(f)) = 2
           /\ Gives(Entered(f)[1], n, functions[f].captures[n])
<1> DEFINE captures == functions[f].captures
           others == IF functions[f].n = Anonymous THEN <<>> ELSE Only(functions[f].n, Function(f))
<1>0. n \in DOMAIN captures
    OBVIOUS
<1>1. captures # <<>>
    OBVIOUS
<1>2. Entered(f) = <<Over(captures, others), <<>>>>
    BY <1>1 DEF Entered, NeedsScope, OwnScope
<1> HIDE DEF captures, others
<1>3. n \in DOMAIN Over(captures, others) /\ Over(captures, others)[n] = captures[n]
    BY <1>0 DEF Over
<1> QED BY <1>2, <1>3 DEF Gives, captures

LEMMA EntersKeeps ==
    ASSUME IInv, Running, TypeInv', NEW f \in DOMAIN functions, Enters(f, Entered(f)),
           Top.pc # 0, disk' = disk, functions' = functions, result' = Nothing, Reads,
           \/ Named(f)
           \/ \E k \in DOMAIN Self.behaviors : f = Self.behaviors[k]
    PROVE  IInv'
<1>1. TypeInv /\ Structure /\ CallsSee /\ Knowledge /\ CapturesSeen
    BY DEF IInv
<1>2. Grows(functions, functions') /\ CapturesGo /\ CapturesStay
    BY FunctionsKept
<1>3. \A e \in DOMAIN evaluators :
            /\ evaluators'[e].file = evaluators[e].file
            /\ evaluators'[e].structs = evaluators[e].structs
            /\ evaluators'[e].behaviors = evaluators[e].behaviors
            /\ e # Current => evaluators'[e] = evaluators[e]
    BY <1>1, SelfScopesKeep DEF Enters, SelfScopes
<1>4. DOMAIN evaluators' = DOMAIN evaluators
    BY DEF Enters, SelfScopes
<1>5. OthersStay
    BY <1>1, <1>3, <1>4, EntersLeft, ExtendsSelf DEF OthersStay
<1>6. Goes
    BY <1>1, <1>2, <1>5, EntersLeft DEF Goes
<1>7. PICK n \in Nat : n = Len(control) + 1
    BY <1>1, TopFacts
<1>8. DOMAIN control' = 1 .. n /\ DOMAIN control = 1 .. Len(control) /\ Len(control) \in Nat \ {0}
    BY <1>1, <1>7, EntersFrames
<1>9. Structure'
  <2>1. \A i \in DOMAIN control : control[i].pc # 0
    BY <1>1, TopFacts DEF Structure, EnteredIsFresh
  <2> QED BY <1>1, <2>1, EntersStructure
<1>10. \A i \in DOMAIN control : CallStays(i)
    BY <1>1, EntersCalls
<1>11. \A i \in DOMAIN control' : i \in DOMAIN control \/ i = n
    BY <1>7, <1>8
<1>12. /\ control'[n].ev = Current /\ control'[n].f = f /\ control'[n].role = "call"
       /\ control'[n].scopes = Len(Entered(f))
    BY <1>7 DEF Enters
<1>13. Own(n)' = Entered(f)[1]
    BY <1>1, <1>7, <1>12, EnteredOwn DEF Own
<1>14. ASSUME NEW m \in DOMAIN functions[f].captures
       PROVE  control'[n].scopes = 2 /\ Gives(Own(n)', m, functions[f].captures[m])
    BY <1>12, <1>13, EnteredGives
<1>15. CallSees(n)'
  <2> SUFFICES ASSUME functions[f].n # Anonymous,
                      NEW m \in functions[f].free \cap DOMAIN functions[f].sees
               PROVE  control'[n].scopes = 2 /\ Gives(Own(n)', m, functions[f].sees[m])
    BY <1>12 DEF CallSees, Named
  <2>1. Gives(functions[f].captures, m, functions[f].sees[m])
    BY <1>1 DEF CapturesSeen, Captured, Named
  <2> QED BY <2>1, <1>14 DEF Gives
<1>16. CallsSee'
    BY <1>1, <1>2, <1>10, <1>11, <1>15, CallSeesStays DEF CallsSee
<1>17. ASSUME MessagesKnown PROVE CallKnows(n)'
  <2> DEFINE h == functions[f].home
  <2> SUFFICES ASSUME functions[f].n = Anonymous, h # Current
               PROVE  /\ Left(h)'
                      /\ \A m \in functions[f].free \cap DOMAIN Globals(h)' :
                            control'[n].scopes = 2 /\ Gives(Own(n)', m, Globals(h)'[m])
    BY <1>12 DEF CallKnows, Named, Globals, Left
  <2>1. PICK k \in DOMAIN Self.behaviors : f = Self.behaviors[k]
    BY DEF Named
  <2>2. Foreign(f, Self.file)
    BY <1>1, <1>17, <2>1, TopFacts DEF MessagesKnown, MessageKnown, Self
  <2>3. Left(h) /\ h \in DOMAIN evaluators
    BY <1>1, <2>2 DEF Foreign, TypeInv, FunctionsOK, FunctionOK
  <2>4. PICK d \in DOMAIN evaluators : d = h
    BY <2>3
  <2>5. Left(d)' /\ evaluators'[d] = evaluators[d]
    BY <2>3, <2>4, <1>3, <1>5 DEF OthersStay
  <2>6. Left(h)'
    BY <2>4, <2>5 DEF Left
  <2>7. Len(evaluators[d].scopes) = 1 /\ IsSeq(evaluators[d].scopes)
    BY <1>1, <2>3, <2>4, OneScope, EvaluatorFacts DEF Left, Structure
  <2>8. DOMAIN evaluators[d].scopes = 1 .. 1
    BY <2>7, SeqFacts
  <2>9. functions[f].captures = ValuesFor(evaluators[d].scopes, functions[f].free)
    BY <2>2, <2>4 DEF Foreign, CapturesOf
  <2>10. ASSUME NEW m \in functions[f].free \cap DOMAIN Globals(d)
         PROVE  m \in DOMAIN functions[f].captures /\ functions[f].captures[m] = Globals(d)[m]
    <3>1. m \in DOMAIN Seen(evaluators[d].scopes) /\ Seen(evaluators[d].scopes)[m] = evaluators[d].scopes[1][m]
      <4>1. 1 \in DOMAIN evaluators[d].scopes /\ m \in DOMAIN evaluators[d].scopes[1]
            /\ \A j \in DOMAIN evaluators[d].scopes : ~(j > 1)
        BY <2>8 DEF Globals
      <4> QED BY <2>7, <4>1, SeenAt
    <3> DEFINE seen == Seen(evaluators[d].scopes)
    <3>2. functions[f].captures = [x \in functions[f].free \cap DOMAIN seen |-> seen[x]]
        BY <2>9 DEF ValuesFor
    <3>3. m \in functions[f].free \cap DOMAIN seen /\ seen[m] = Globals(d)[m]
        BY <3>1 DEF Globals
    <3> HIDE DEF seen
    <3> QED BY <3>2, <3>3
  <2>11. Globals(h)' = Globals(d)
    BY <2>4, <2>5 DEF Globals
  <2> QED BY <2>6, <2>10, <2>11, <1>14
<1>18. ASSUME MessagesKnown, CallsKnow PROVE CallsKnow'
    BY <1>1, <1>2, <1>5, <1>10, <1>11, <1>17, <1>18, CallKnowsStays DEF CallsKnow
<1>19. ASSUME MessagesKnown, MessagesHandedOver PROVE MessagesKnown'
  <2>1. MessagesGo
    BY <1>1, <1>3, MessagesKept, TopFacts DEF Self
  <2> QED BY <1>1, <1>2, <1>4, <1>5, <1>19, <2>1, MessagesStayKnown
<1>20. MessagesHandedOver'
    BY NothingHandedOver DEF Nothing
<1>21. Knowledge'
    BY <1>1, <1>6, <1>18, <1>19, <1>20, KnowledgeNeeds
<1> QED BY <1>2, <1>6, <1>9, <1>16, <1>21, OnGoing

(* A call returns to its caller.                                           *)
LEMMA ReturnsKeep ==
    ASSUME IInv, Running, TypeInv', Returns, disk' = disk, functions' = functions,
           result'.kind # "module", Reads
    PROVE  IInv'
<1>1. TypeInv /\ Structure /\ CallsSee /\ Knowledge
    BY DEF IInv
<1>2. Grows(functions, functions') /\ CapturesGo /\ CapturesStay
    BY FunctionsKept
<1>3. \A e \in DOMAIN evaluators :
            /\ evaluators'[e].file = evaluators[e].file
            /\ evaluators'[e].structs = evaluators[e].structs
            /\ evaluators'[e].behaviors = evaluators[e].behaviors
            /\ e # Current => evaluators'[e] = evaluators[e]
    BY <1>1, SelfScopesKeep DEF Returns, SelfScopes
<1>4. DOMAIN evaluators' = DOMAIN evaluators
    BY DEF Returns, SelfScopes
<1>5. OthersStay
    BY <1>1, <1>3, <1>4, ShrinksLeft, ExtendsSelf DEF OthersStay, Returns
<1>6. Goes
    BY <1>1, <1>2, <1>5, ReturnsLeft DEF Goes
<1>7. Structure'
    BY <1>1, ReturnsStructure
<1>8. \A i \in DOMAIN control' : i \in DOMAIN control /\ CallStays(i)
    BY <1>1, ReturnsCalls
<1>9. CallsSee'
    BY <1>1, <1>2, <1>8, CallSeesStays DEF CallsSee
<1>10. ASSUME CallsKnow PROVE CallsKnow'
    BY <1>1, <1>2, <1>5, <1>8, <1>10, CallKnowsStays DEF CallsKnow
<1>11. ASSUME MessagesKnown, MessagesHandedOver PROVE MessagesKnown'
  <2>1. MessagesGo
    BY <1>1, <1>3, MessagesKept, TopFacts DEF Self
  <2> QED BY <1>1, <1>2, <1>4, <1>5, <1>11, <2>1, MessagesStayKnown
<1>12. Knowledge'
    BY <1>1, <1>6, <1>10, <1>11, NothingHandedOver, KnowledgeNeeds
<1> QED BY <1>2, <1>6, <1>7, <1>9, <1>12, OnGoing

(* A module hands over what it exports.                                    *)
LEMMA HandsOverKeeps ==
    ASSUME IInv, Running, TypeInv', HandsOver, disk' = disk, functions' = Recaptured(Current),
           NEW v, result' = Interchange(Current, v), lastRead' = NoRead
    PROVE  IInv'
<1>1. TypeInv /\ Structure /\ CallsSee /\ Knowledge /\ Shrinks /\ evaluators' = evaluators
    BY DEF IInv, HandsOver
<1>2. PICK e \in DOMAIN evaluators : e = Current /\ ~Left(e)
    BY <1>1, TopFacts DEF Left
<1>3. Grows(functions, functions') /\ CapturesGo
    BY <1>1, <1>2, RecapturedGrows
<1>4. OthersStay
    BY <1>1, ShrinksLeft, ExtendsSelf DEF OthersStay
<1>5. Goes
    BY <1>3, <1>4 DEF Goes, Reads, NoRead
<1>6. ASSUME Running' PROVE Structure' /\ CallsSee' /\ Knowledge'
  <2>1. Len(control) # 1
    <3>1. control' # <<>> /\ control' \in Seq(Frames) /\ Len(control') = Len(control) - 1
        BY <1>6 DEF Running, HandsOver, Shrinks
    <3> QED BY <3>1, <1>1, TopFacts
  <2>2. Structure'
    BY <1>1, <2>1, HandsOverStructure
  <2>3. \A i \in DOMAIN control' : i \in DOMAIN control /\ CallStays(i)
    BY <1>1, HandsOverCalls
  <2>4. CallsSee'
    BY <1>1, <1>3, <2>3, CallSeesStays DEF CallsSee
  <2>5. ASSUME CallsKnow PROVE CallsKnow'
    BY <1>1, <1>3, <1>4, <2>3, <2>5, CallKnowsStays DEF CallsKnow
  <2>6. ASSUME MessagesKnown, MessagesHandedOver, NothingExportedAgain
        PROVE  MessagesKnown' /\ MessagesHandedOver'
    <3>1. CapturesStay
        BY <1>1, <1>2, <2>6, RecapturedStay
    <3>2. MessagesGo
        BY <1>1, MessagesKept, TopFacts DEF Self
    <3>3. MessagesKnown'
        BY <1>1, <1>3, <1>4, <2>6, <3>1, <3>2, MessagesStayKnown
    <3>4. MessagesHandedOver'
        BY <1>1, <2>1, <2>6, ModuleHandsOver
    <3> QED BY <3>3, <3>4
  <2>7. Knowledge'
    BY <1>1, <1>5, <2>5, <2>6, KnowledgeNeeds
  <2> QED BY <2>2, <2>4, <2>7
<1> QED BY <1>3, <1>5, <1>6, OnGoing

(* A module is opened.                                                     *)
LEMMA OpensKeep ==
    ASSUME IInv, Running, TypeInv', NEW file, Opened(file), Top.pc # 0, disk' = disk,
           functions' = functions, result' = Nothing, Reads
    PROVE  IInv'
<1>1. TypeInv /\ Structure /\ CallsSee /\ Knowledge
    BY DEF IInv
<1>2. Grows(functions, functions') /\ CapturesGo /\ CapturesStay
    BY FunctionsKept
<1>3. PICK n \in Nat, new \in Nat : n = Len(control) + 1 /\ new = Len(evaluators) + 1
    BY <1>1, OpenedFacts
<1>4. /\ DOMAIN evaluators = 1 .. Len(evaluators) /\ DOMAIN evaluators' = 1 .. new
      /\ DOMAIN control = 1 .. Len(control) /\ DOMAIN control' = 1 .. n
      /\ Len(control) \in Nat /\ Len(evaluators) \in Nat
      /\ \A e \in DOMAIN evaluators : evaluators'[e] = evaluators[e]
      /\ \A i \in DOMAIN control : control'[i] = control[i]
      /\ control'[n] = FileFrame(new, file)
      /\ evaluators'[new] = Evaluator(file, Append(Self.stack, file))
    BY <1>1, <1>3, OpenedFacts
<1>5. DOMAIN evaluators \subseteq DOMAIN evaluators'
      /\ \A e \in DOMAIN evaluators' : e \in DOMAIN evaluators \/ e = new
    BY <1>3, <1>4
<1>6. OthersStay
    BY <1>1, <1>4, <1>5, OpenedLeft, ExtendsSelf DEF OthersStay
<1>7. Goes
    BY <1>1, <1>2, <1>6, OpenedLeft DEF Goes
<1>8. Structure'
    BY <1>1, OpenedStructure
<1>9. \A i \in DOMAIN control : CallStays(i)
    BY <1>1, OpenedCalls
<1>10. \A i \in DOMAIN control' : i \in DOMAIN control \/ (i = n /\ control'[i].role = "file")
    BY <1>3, <1>4 DEF FileFrame
<1>11. \A i \in DOMAIN control' : i \in DOMAIN control \/ (CallSees(i)' /\ CallKnows(i)')
    BY <1>10 DEF CallSees, CallKnows
<1>12. CallsSee'
    BY <1>1, <1>2, <1>9, <1>11, CallSeesStays DEF CallsSee
<1>13. ASSUME CallsKnow PROVE CallsKnow'
    BY <1>1, <1>2, <1>6, <1>9, <1>11, <1>13, CallKnowsStays DEF CallsKnow
<1>14. ASSUME MessagesKnown, MessagesHandedOver PROVE MessagesKnown'
  <2>1. MessagesGo
    BY <1>1, <1>4, MessagesKept, TopFacts DEF Self
  <2>2. \A e \in DOMAIN evaluators' : e \notin DOMAIN evaluators => evaluators'[e].behaviors = <<>>
    BY <1>4, <1>5 DEF Evaluator
  <2> QED BY <1>1, <1>2, <1>6, <1>14, <2>1, <2>2, MessagesStayKnown
<1>15. MessagesHandedOver'
    BY NothingHandedOver DEF Nothing
<1>16. Knowledge'
    BY <1>1, <1>7, <1>13, <1>14, <1>15, KnowledgeNeeds
<1> QED BY <1>2, <1>7, <1>8, <1>12, <1>16, OnGoing

-----------------------------------------------------------------------------
(* What the actions have in common.                                        *)
LEMMA RunningParts ==
    ASSUME IInv, Running
    PROVE  TypeInv /\ Structure /\ Len(Self.scopes) \in Nat \ {0}
BY TopScopes DEF IInv, Structure

LEMMA FailKeeps ==
    ASSUME IInv, Running, NEW kind \in ErrorKinds, Fail(kind)
    PROVE  IInv'
<1>1. TypeInv
    BY DEF IInv
<1>2. /\ status' = kind /\ disk' = disk /\ evaluators' = evaluators /\ functions' = functions
      /\ control' = control /\ result' = result /\ lastRead' = lastRead
    BY DEF Fail
<1>3. TypeInv'
    BY <1>1, <1>2 DEF TypeInv, EvaluatorsOK, FunctionsOK, ControlOK
<1>4. ~Running'
    BY <1>2 DEF Running, ErrorKinds
<1>5. \A e : Left(e) => Left(e)'
    BY <1>2 DEF Left
<1> QED BY <1>2, <1>3, <1>4, <1>5, StopsKeep DEF Reads

LEMMA PassesOn ==
    ASSUME IInv, Running, Top.pc \in DOMAIN Top.body, control' = Advanced,
           disk' = disk, evaluators' = evaluators, functions' = functions, status' = status,
           result' = result \/ result' = Nothing, Reads
    PROVE  IInv'
<1>1. TypeInv
    BY DEF IInv
<1>2. FunctionsOK' /\ Grows(functions, functions') /\ CapturesGo /\ CapturesStay
    BY <1>1, KeepFunctions, FunctionsKept
<1>3. EvaluatorsOK' /\ ControlOK' /\ Stays
    BY <1>1, <1>2, StaysAsItIs
<1>4. ResultOK(functions', result')
    BY <1>1 DEF TypeInv, ResultOK, Nothing
<1>5. TypeInv'
    BY <1>1, <1>2, <1>3, <1>4 DEF TypeInv
<1>6. MessagesGo /\ Extends(Self.structs, evaluators'[Current].structs)
    BY MessagesKept, ExtendsSelf DEF Self
<1> QED BY <1>2, <1>3, <1>5, <1>6, StaysKeep

LEMMA BindsKeep ==
    ASSUME IInv, Running, Top.pc \in DOMAIN Top.body \/ Top.pc = 0, control' = Advanced,
           disk' = disk, status' = status, result' = result \/ result' = Nothing, Reads,
           FunctionsOK', Grows(functions, functions'), CapturesGo, CapturesStay,
           NEW locals, SafeMap(functions', locals), NEW r, DOMAIN r = EvaluatorFields,
           r.file = Self.file, r.stack = Self.stack, r.scopes = Binding(locals).scopes,
           Extends(Self.structs, r.structs), SafeMessages(functions', r.behaviors),
           evaluators' = [evaluators EXCEPT ![Current] = r],
           evaluators'[Current] = r => MessagesGo
    PROVE  IInv'
<1>1. TypeInv /\ Len(Self.scopes) # 0
    BY RunningParts
<1>2. EvaluatorsOK' /\ ControlOK' /\ Stays /\ evaluators'[Current] = r
    BY <1>1, BindsAndStays
<1>3. ResultOK(functions', result')
    BY <1>1, AllGrow DEF TypeInv, ResultOK, Nothing
<1>4. TypeInv'
    BY <1>1, <1>2, <1>3 DEF TypeInv
<1> QED BY <1>2, <1>4, StaysKeep

(* Binding a value, and nothing else.                                      *)
LEMMA BindsOnly ==
    ASSUME IInv, Running, Top.pc \in DOMAIN Top.body, control' = Advanced,
           disk' = disk, status' = status, result' = Nothing, Reads, functions' = functions,
           NEW locals, SafeMap(functions, locals),
           evaluators' = [evaluators EXCEPT ![Current] = Binding(locals)]
    PROVE  IInv'
<1>1. TypeInv /\ Len(Self.scopes) # 0
    BY RunningParts
<1>2. FunctionsOK' /\ Grows(functions, functions') /\ CapturesGo /\ CapturesStay
    BY <1>1, KeepFunctions, FunctionsKept, ReplaceSelf DEF TypeInv, FunctionsOK
<1> DEFINE r == Binding(locals)
<1>3. /\ DOMAIN r = EvaluatorFields /\ r.file = Self.file /\ r.stack = Self.stack
      /\ r.structs = Self.structs /\ r.behaviors = Self.behaviors
    BY <1>1, BindingIs
<1>4. SafeMessages(functions', r.behaviors)
    BY <1>1, <1>3, SelfFacts DEF EvaluatorOK
<1>5. evaluators'[Current] = r => MessagesGo
    BY <1>3, MessagesKept
<1>6. Extends(Self.structs, r.structs)
    BY <1>3, ExtendsSelf
<1> HIDE DEF r
<1> QED BY <1>2, <1>3, <1>4, <1>5, <1>6, BindsKeep DEF r

LEMMA ScopesReplaced ==
    ASSUME TypeInv, Running, functions' = functions, NEW new, IsSeq(new),
           \A i \in DOMAIN new : SafeMap(functions, new[i]),
           evaluators' = [evaluators EXCEPT ![Current].scopes = new]
    PROVE  EvaluatorsOK' /\ SelfScopes(new) /\ DOMAIN evaluators' = DOMAIN evaluators
<1> DEFINE r == [Self EXCEPT !.scopes = new]
<1>1. DOMAIN Self = EvaluatorFields /\ EvaluatorOK(functions, Self)
    BY SelfFacts DEF EvaluatorOK
<1>2. /\ DOMAIN r = EvaluatorFields /\ r.scopes = new
      /\ \A field \in EvaluatorFields \ {"scopes"} : r[field] = Self[field]
    BY <1>1 DEF EvaluatorFields
<1>3. evaluators' = [evaluators EXCEPT ![Current] = r]
    BY DEF Self
<1> HIDE DEF r
<1>4. EvaluatorOK(functions', r)
  <2>1. r.file = Self.file /\ r.stack = Self.stack /\ r.behaviors = Self.behaviors
    BY <1>2 DEF EvaluatorFields
  <2> QED BY <1>1, <1>2, <2>1 DEF EvaluatorOK
<1>5. Grows(functions, functions')
    BY DEF Grows
<1> QED BY <1>2, <1>3, <1>4, <1>5, ReplaceSelf DEF SelfScopes

-----------------------------------------------------------------------------
(* Leaving a call, or a module.                                            *)
LEMMA FrontShrinks ==
    ASSUME TypeInv, Running, control' = Front(control)
    PROVE  Shrinks
<1>1. control \in Seq(Frames) /\ control # <<>>
    BY DEF TypeInv, ControlOK, Running
<1> QED BY <1>1, FrontIs DEF Shrinks

LEMMA LeavesCall ==
    ASSUME IInv, Running, Top.role = "call", control' = Front(control), disk' = disk,
           status' = status, functions' = functions, evaluators' = Popped(Top.scopes),
           NEW v, Safe(functions, v), result' = [kind |-> "value", v |-> v], Reads
    PROVE  IInv'
<1>1. TypeInv /\ ScopesFollowCalls
    BY DEF IInv, Structure
<1>2. PICK m \in Nat : m = Len(Self.scopes) - Top.scopes /\ m \in 0 .. Len(Self.scopes)
    BY <1>1, TopScopes
<1> DEFINE new == SubSeq(Self.scopes, 1, m)
<1>3. IsSeq(new) /\ \A i \in DOMAIN new : SafeMap(functions, new[i])
  <2>1. IsSeq(Self.scopes) /\ \A i \in 1 .. Len(Self.scopes) : SafeMap(functions, Self.scopes[i])
    BY <1>1, SelfFacts DEF EvaluatorOK
  <2>2. IsSeq(new) /\ Len(new) = m /\ \A i \in 1 .. m : new[i] = Self.scopes[i]
    BY <1>2, <2>1, PrefixIs
  <2>3. DOMAIN new = 1 .. m
    BY <2>2, SeqFacts
  <2>4. \A i \in 1 .. m : i \in 1 .. Len(Self.scopes)
    BY <1>2
  <2> HIDE DEF new
  <2> QED BY <2>1, <2>2, <2>3, <2>4
<1>4. evaluators' = [evaluators EXCEPT ![Current].scopes = new]
    BY <1>2 DEF Popped, Self
<1>5. Returns
    <2>1. SelfScopes(SubSeq(Self.scopes, 1, Len(Self.scopes) - Top.scopes))
        BY <1>1, <1>2, <1>3, <1>4, ScopesReplaced
    <2> QED BY <1>1, <2>1, FrontShrinks DEF Returns
<1>6. EvaluatorsOK' /\ DOMAIN evaluators' = DOMAIN evaluators
    BY <1>1, <1>3, <1>4, ScopesReplaced
<1>7. FunctionsOK' /\ Grows(functions, functions')
    BY <1>1, <1>6, KeepFunctions
<1>8. ControlOK'
    BY <1>1, <1>6, <1>7, LeaveControl
<1>9. TypeInv'
    BY <1>1, <1>6, <1>7, <1>8 DEF TypeInv, ResultOK
<1> QED BY <1>5, <1>9, ReturnsKeep

LEMMA LeavesStopped ==
    ASSUME IInv, Running, Top.role # "call", control' = Front(control), disk' = disk,
           status' \in ErrorKinds, functions' = functions, evaluators' = evaluators,
           result' = Nothing, lastRead' = NoRead
    PROVE  IInv'
<1>1. TypeInv
    BY DEF IInv
<1>2. EvaluatorsOK' /\ FunctionsOK' /\ Grows(functions, functions')
    BY <1>1, KeepFunctions, KeepEvaluators
<1>3. ControlOK'
    BY <1>1, <1>2, LeaveControl
<1>4. TypeInv'
    BY <1>1, <1>2, <1>3 DEF TypeInv, ResultOK, Nothing
<1>5. ~Running'
    BY DEF Running, ErrorKinds
<1>6. \A e : Left(e) => Left(e)'
    BY <1>1, FrontShrinks, ShrinksLeft
<1>7. Reads /\ lastRead'.f = 0
    BY DEF Reads, NoRead
<1> QED BY <1>4, <1>5, <1>6, <1>7, StopsKeep

LEMMA LeavesModule ==
    ASSUME IInv, Running, Top.role # "call", control' = Front(control), disk' = disk,
           status' = status, functions' = Recaptured(Current), evaluators' = evaluators,
           NEW v, Safe(functions, v), result' = Interchange(Current, v), lastRead' = NoRead
    PROVE  IInv'
<1>1. TypeInv
    BY DEF IInv
<1>2. PICK e \in DOMAIN evaluators : e = Current
    BY <1>1, TopFacts
<1>3. FunctionsOK' /\ Grows(functions, functions')
    BY <1>1, <1>2, RecapturedTyped, RecapturedGrows
<1>4. ResultOK(functions', result')
  <2>1. ResultOK(functions, Interchange(e, v))
    BY <1>1, InterchangeSafe
  <2> QED BY <2>1, <1>2, <1>3, AllGrow
<1>5. EvaluatorsOK' /\ ControlOK'
    BY <1>1, <1>3, KeepEvaluators, LeaveControl
<1>6. TypeInv'
    BY <1>1, <1>3, <1>4, <1>5 DEF TypeInv
<1>7. HandsOver
  <2>1. Top.role = "file"
    BY <1>1, TopFacts DEF Frames
  <2> QED BY <1>1, <2>1, FrontShrinks DEF HandsOver
<1> QED BY <1>6, <1>7, HandsOverKeeps

LEMMA LeaveKeeps ==
    ASSUME IInv, Running, NEW v, Safe(functions, v), Leave(v),
           lastRead' = NoRead \/ \E n : Looked(n) /\ lastRead' = Reading(n, LookUp(n))
    PROVE  IInv'
<1>1. TypeInv
    BY DEF IInv
<1>2. control' = Front(control) /\ disk' = disk
    BY DEF Leave
<1>3. CASE Top.role = "call"
  <2>1. /\ status' = status /\ functions' = functions /\ evaluators' = Popped(Top.scopes)
        /\ result' = [kind |-> "value", v |-> v]
    BY <1>3 DEF Leave
  <2>2. Reads
    BY DEF Reads
  <2> QED BY <1>2, <1>3, <2>1, <2>2, LeavesCall
<1>4. CASE Top.role # "call"
  <2>1. Top.f = 0
    BY <1>1, <1>4, TopFacts DEF FrameOK, Frames
  <2>2. lastRead' = NoRead
    BY <2>1 DEF Reading
  <2>3. CASE status' \in {"control", "import"} /\ result' = Nothing /\ UNCHANGED <<evaluators, functions>>
    BY <1>2, <1>4, <2>2, <2>3, LeavesStopped DEF ErrorKinds
  <2>4. CASE /\ functions' = Recaptured(Current) /\ result' = Interchange(Current, v)
             /\ UNCHANGED <<evaluators, status>>
    BY <1>2, <1>4, <2>2, <2>4, LeavesModule
  <2> QED BY <1>4, <2>3, <2>4 DEF Leave
<1> QED BY <1>3, <1>4

-----------------------------------------------------------------------------
(* Statements whose value is known.                                        *)
LEMMA StopKeeps ==
    ASSUME IInv, Running, status' \in ErrorKinds, disk' = disk, evaluators' = evaluators,
           functions' = functions, control' = control, result' = result, Reads
    PROVE  IInv'
<1>1. TypeInv
    BY DEF IInv
<1>2. TypeInv'
    BY <1>1 DEF TypeInv, EvaluatorsOK, FunctionsOK, ControlOK
<1>3. ~Running'
    BY DEF Running, ErrorKinds
<1>4. \A e : Left(e) => Left(e)'
    BY DEF Left
<1> QED BY <1>2, <1>3, <1>4, StopsKeep

LEMMA CompleteKeeps ==
    ASSUME IInv, Running, Top.pc \in DOMAIN Top.body, NEW v, Safe(functions, v), Complete(v),
           lastRead' = NoRead \/ \E n : Looked(n) /\ lastRead' = Reading(n, LookUp(n))
    PROVE  IInv'
<1>1. Reads
    BY DEF Reads
<1>2. CASE Leave(v)
    BY <1>2, LeaveKeeps
<1>3. CASE Statement.op = "do" /\ control' = Advanced /\ result' = Nothing
           /\ UNCHANGED <<disk, evaluators, functions, status>>
    BY <1>1, <1>3, PassesOn
<1>4. CASE status' = "duplicate" /\ UNCHANGED <<disk, functions, evaluators, control, result>>
    BY <1>1, <1>4, StopKeeps DEF ErrorKinds
<1>5. CASE /\ evaluators' = [evaluators EXCEPT ![Current] = Binding(Only(Statement.n, v))]
           /\ control' = Advanced /\ result' = Nothing /\ UNCHANGED <<disk, functions, status>>
  <2> DEFINE locals == Only(Statement.n, v)
  <2>1. SafeMap(functions, locals)
    BY SafeOnly
  <2> HIDE DEF locals
  <2>2. evaluators' = [evaluators EXCEPT ![Current] = Binding(locals)]
    BY <1>5 DEF locals
  <2> QED BY <1>1, <1>5, <2>1, <2>2, BindsOnly
<1> QED BY <1>2, <1>3, <1>4, <1>5 DEF Complete

LEMMA EvaluateLiteralKeeps == ASSUME IInv, EvaluateLiteral PROVE IInv'
<1>1. Running /\ Top.pc \in DOMAIN Top.body
    BY DEF EvaluateLiteral, AtExpression, At
<1>2. Safe(functions, Number(Statement.e.v))
    BY DEF Safe, Number
<1> QED BY <1>1, <1>2, CompleteKeeps DEF EvaluateLiteral

LEMMA LookUpSafe ==
    ASSUME TypeInv, Running, NEW n, Looked(n)
    PROVE  Safe(functions, LookUp(n))
<1>1. EvaluatorOK(functions, Self)
    BY SelfFacts
<1>2. SafeMap(functions, Seen(Self.scopes))
    BY <1>1, SeenSafe
<1> QED BY <1>2 DEF SafeMap, Looked, LookUp

LEMMA EvaluateNameKeeps == ASSUME IInv, EvaluateName PROVE IInv'
<1>1. Running /\ Top.pc \in DOMAIN Top.body /\ TypeInv
    BY DEF EvaluateName, AtExpression, At, IInv
<1>2. CASE Fail("name")
    BY <1>1, <1>2, FailKeeps DEF ErrorKinds
<1>3. CASE /\ Looked(Statement.e.n) /\ Complete(LookUp(Statement.e.n))
           /\ lastRead' = Reading(Statement.e.n, LookUp(Statement.e.n))
    BY <1>1, <1>3, LookUpSafe, CompleteKeeps
<1> QED BY <1>2, <1>3 DEF EvaluateName

LEMMA ConstructKeeps == ASSUME IInv, Construct PROVE IInv'
<1>1. Running /\ Top.pc \in DOMAIN Top.body
    BY DEF Construct, AtExpression, At
<1>2. Safe(functions, Instance(Self.structs[Statement.e.n]))
    BY DEF Safe, Instance
<1> QED BY <1>1, <1>2, CompleteKeeps DEF Construct

LEMMA ResumeKeeps == ASSUME IInv, Resume PROVE IInv'
<1>1. Running /\ Top.pc \in DOMAIN Top.body
    BY DEF Resume, At
<1>2. Safe(functions, result.v)
    BY DEF Resume, IInv, TypeInv, ResultOK
<1> QED BY <1>1, <1>2, CompleteKeeps DEF Resume

LEMMA EndOfBodyKeeps == ASSUME IInv, EndOfBody PROVE IInv'
<1>1. Running /\ TypeInv
    BY DEF EndOfBody, IInv
<1>2. CASE Leave(Unit) /\ lastRead' = NoRead
    BY <1>1, <1>2, LeaveKeeps DEF Safe, Unit
<1>3. CASE Fail("import")
    BY <1>1, <1>3, FailKeeps DEF ErrorKinds
<1>4. CASE /\ status' = "done" /\ control' = <<>> /\ lastRead' = NoRead
           /\ UNCHANGED <<disk, evaluators, functions, result>>
  <2>1. EvaluatorsOK' /\ FunctionsOK'
    BY <1>1, <1>4, KeepFunctions, KeepEvaluators
  <2>2. ControlOK'
    BY <1>4 DEF ControlOK
  <2>3. TypeInv'
    BY <1>1, <1>4, <2>1, <2>2 DEF TypeInv
  <2>4. ~Running' /\ \A e : Left(e)'
    BY <1>4 DEF Running, Left
  <2>5. Reads /\ lastRead'.f = 0
    BY <1>4 DEF Reads, NoRead
  <2> QED BY <1>1, <1>4, <2>3, <2>4, <2>5, StopsKeep
<1> QED BY <1>2, <1>3, <1>4 DEF EndOfBody

-----------------------------------------------------------------------------
(* Entering a call.                                                        *)
LEMMA PairIs ==
    ASSUME NEW a, NEW b
    PROVE  /\ IsSeq(<<a, b>>) /\ Len(<<a, b>>) = 2 /\ DOMAIN <<a, b>> = 1 .. 2
           /\ <<a, b>>[1] = a /\ <<a, b>>[2] = b
<1>1. <<a, b>> \in Seq({a, b}) /\ Len(<<a, b>>) = 2 /\ <<a, b>>[1] = a /\ <<a, b>>[2] = b
    OBVIOUS
<1>2. IsSeq(<<a, b>>)
    BY <1>1, MakesSeq
<1> QED BY <1>1, <1>2, SeqFacts

LEMMA SingleIs ==
    ASSUME NEW a
    PROVE  IsSeq(<<a>>) /\ Len(<<a>>) = 1 /\ DOMAIN <<a>> = 1 .. 1 /\ <<a>>[1] = a
<1>1. <<a>> \in Seq({a}) /\ Len(<<a>>) = 1 /\ <<a>>[1] = a
    OBVIOUS
<1>2. IsSeq(<<a>>)
    BY <1>1, MakesSeq
<1> QED BY <1>1, <1>2, SeqFacts

LEMMA EnteredIs ==
    ASSUME TypeInv, NEW f \in DOMAIN functions
    PROVE  /\ IsSeq(Entered(f)) /\ Len(Entered(f)) \in 1 .. 2
           /\ \A i \in DOMAIN Entered(f) : SafeMap(functions, Entered(f)[i])
<1>1. SafeMap(functions, <<>>)
    BY SafeNone
<1>2. SafeMap(functions, OwnScope(f))
  <2>1. SafeMap(functions, functions[f].captures)
    BY DEF TypeInv, FunctionsOK, FunctionOK
  <2>2. SafeMap(functions, IF functions[f].n = Anonymous THEN <<>> ELSE Only(functions[f].n, Function(f)))
    <3>1. CASE functions[f].n = Anonymous
        BY <1>1, <3>1
    <3>2. CASE functions[f].n # Anonymous
      <4>1. Safe(functions, Function(f))
        BY <3>2 DEF Safe, Function
      <4> QED BY <3>2, <4>1, SafeOnly
    <3> QED BY <3>1, <3>2
  <2> QED BY <2>1, <2>2, SafeOver DEF OwnScope
<1> DEFINE own == OwnScope(f)
<1>3. IsSeq(<<own, <<>>>>) /\ Len(<<own, <<>>>>) = 2 /\ DOMAIN <<own, <<>>>> = 1 .. 2
      /\ <<own, <<>>>>[1] = own /\ <<own, <<>>>>[2] = <<>>
    BY PairIs
<1>4. IsSeq(<< <<>> >>) /\ Len(<< <<>> >>) = 1 /\ DOMAIN << <<>> >> = 1 .. 1 /\ << <<>> >>[1] = <<>>
    BY SingleIs
<1> HIDE DEF own
<1>5. CASE Entered(f) = <<own, <<>>>>
  <2>1. SafeMap(functions, own)
    BY <1>2 DEF own
  <2>2. \A i \in DOMAIN Entered(f) : i = 1 \/ i = 2
    BY <1>3, <1>5
  <2> QED BY <1>1, <1>3, <1>5, <2>1, <2>2
<1>6. CASE Entered(f) = << <<>> >>
  <2>1. \A i \in DOMAIN Entered(f) : i = 1
    BY <1>4, <1>6
  <2> QED BY <1>1, <1>4, <1>6, <2>1
<1> QED BY <1>5, <1>6 DEF Entered, own

LEMMA SafeConcat ==
    ASSUME NEW s, NEW t, IsSeq(s), IsSeq(t), NEW fs,
           \A i \in DOMAIN s : SafeMap(fs, s[i]), \A i \in DOMAIN t : SafeMap(fs, t[i])
    PROVE  IsSeq(s \o t) /\ \A i \in DOMAIN (s \o t) : SafeMap(fs, (s \o t)[i])
<1>1. /\ IsSeq(s \o t) /\ Len(s \o t) = Len(s) + Len(t)
      /\ \A i \in 1 .. Len(s) : (s \o t)[i] = s[i]
      /\ \A i \in 1 .. Len(t) : (s \o t)[Len(s) + i] = t[i]
    BY ConcatIs
<1>2. /\ DOMAIN s = 1 .. Len(s) /\ DOMAIN t = 1 .. Len(t)
      /\ DOMAIN (s \o t) = 1 .. Len(s) + Len(t) /\ Len(s) \in Nat /\ Len(t) \in Nat
    BY <1>1, SeqFacts
<1>3. ASSUME NEW i \in 1 .. Len(s) + Len(t) PROVE SafeMap(fs, (s \o t)[i])
  <2>1. CASE i <= Len(s)
    <3>1. i \in 1 .. Len(s)
        BY <1>2, <2>1
    <3> QED BY <1>1, <1>2, <3>1
  <2>2. CASE i > Len(s)
    <3>1. PICK j \in 1 .. Len(t) : i = Len(s) + j
      <4>1. i - Len(s) \in 1 .. Len(t) /\ i = Len(s) + (i - Len(s))
        BY <1>2, <2>2
      <4> QED BY <4>1
    <3> QED BY <1>1, <1>2, <3>1
  <2> QED BY <1>2, <2>1, <2>2
<1> QED BY <1>1, <1>2, <1>3

LEMMA InvokeKeeps ==
    ASSUME IInv, Running, Top.pc # 0, result = Nothing, NEW f \in DOMAIN functions, NEW read,
           Invoke(f, read),
           read = NoRead \/ \E n : Looked(n) /\ read = Reading(n, LookUp(n)),
           \/ Named(f)
           \/ \E k \in DOMAIN Self.behaviors : f = Self.behaviors[k]
    PROVE  IInv'
<1>1. TypeInv
    BY DEF IInv
<1>2. CASE Fail("limit")
    BY <1>2, FailKeeps DEF ErrorKinds
<1> DEFINE t == [ev |-> Current, role |-> "call", f |-> f, body |-> functions[f].body,
                 pc |-> 1, scopes |-> Len(Entered(f))]
           new == Self.scopes \o Entered(f)
<1>3. CASE /\ control' = Append(control, t)
           /\ evaluators' = [evaluators EXCEPT ![Current].scopes = @ \o Entered(f)]
           /\ lastRead' = read
           /\ UNCHANGED <<disk, functions, result, status>>
  <2>1. /\ IsSeq(Entered(f)) /\ Len(Entered(f)) \in 1 .. 2
        /\ \A i \in DOMAIN Entered(f) : SafeMap(functions, Entered(f)[i])
    BY <1>1, EnteredIs
  <2>2. IsSeq(Self.scopes) /\ \A i \in DOMAIN Self.scopes : SafeMap(functions, Self.scopes[i])
    BY <1>1, SelfFacts DEF EvaluatorOK
  <2>3. IsSeq(new) /\ \A i \in DOMAIN new : SafeMap(functions, new[i])
    BY <2>1, <2>2, SafeConcat
  <2>4. evaluators' = [evaluators EXCEPT ![Current].scopes = new]
    BY <1>3 DEF Self
  <2> HIDE DEF new
  <2>5. EvaluatorsOK' /\ SelfScopes(new) /\ DOMAIN evaluators' = DOMAIN evaluators
    BY <1>1, <1>3, <2>3, <2>4, ScopesReplaced
  <2>6. FunctionsOK' /\ Grows(functions, functions')
    BY <1>1, <1>3, <2>5, KeepFunctions
  <2>7. t \in Frames
    <3>1. f \in Nat /\ functions[f].body \in Seq(Statements)
        BY <1>1, SeqFacts DEF TypeInv, FunctionsOK, FunctionOK
    <3>2. Current \in Nat /\ Len(Entered(f)) \in 0 .. 2
        BY <1>1, <2>1, TopFacts
    <3> QED BY <3>1, <3>2 DEF Frames
  <2>8. FrameOK(functions', DOMAIN evaluators', t)
    <3>1. Current \in DOMAIN evaluators'
        BY <1>1, <2>5, TopFacts
    <3>2. 1 \in 0 .. Len(functions[f].body) + 1 /\ Len(Entered(f)) # 0
      <4>1. functions[f].body \in Seq(Statements)
        BY <1>1 DEF TypeInv, FunctionsOK, FunctionOK
      <4>2. Len(functions[f].body) \in Nat
        BY <4>1
      <4> QED BY <2>1, <4>2
    <3> QED BY <1>3, <3>1, <3>2 DEF FrameOK
  <2>9. /\ t.ev = Current /\ t.role = "call" /\ t.f = f /\ t.pc = 1 /\ t.scopes = Len(Entered(f))
    OBVIOUS
  <2> HIDE DEF t
  <2>10. /\ ControlOK' /\ Len(control') = Len(control) + 1
         /\ control'[Len(control) + 1] = t
         /\ \A i \in DOMAIN control : control'[i] = control[i]
    BY <1>1, <1>3, <2>5, <2>6, <2>7, <2>8, EnterControl
  <2>11. TypeInv'
    BY <1>1, <1>3, <2>5, <2>6, <2>10 DEF TypeInv
  <2>12. Enters(f, Entered(f))
    BY <2>1, <2>5, <2>9, <2>10 DEF Enters, ControlOK, new
  <2>13. Reads
    BY <1>3 DEF Reads
  <2> QED BY <1>3, <2>11, <2>12, <2>13, EntersKeeps
<1> QED BY <1>2, <1>3 DEF Invoke, Entered

LEMMA CallFunctionKeeps == ASSUME IInv, CallFunction PROVE IInv'
<1>1. Running /\ Top.pc \in DOMAIN Top.body /\ TypeInv /\ result = Nothing
    BY DEF CallFunction, AtExpression, At, IInv
<1>2. Top.pc # 0
    BY <1>1, StatementFacts
<1> DEFINE n == Statement.e.n
<1>3. CASE Fail("name") \/ Fail("type")
    BY <1>1, <1>3, FailKeeps DEF ErrorKinds
<1>4. CASE Looked(n) /\ LookUp(n).kind = "function" /\ Invoke(LookUp(n).f, Reading(n, LookUp(n)))
  <2>1. LookUp(n).f \in DOMAIN functions /\ Named(LookUp(n).f)
    BY <1>1, <1>4, LookUpSafe DEF Safe, Named
  <2> QED BY <1>1, <1>2, <1>4, <2>1, InvokeKeeps
<1> QED BY <1>3, <1>4 DEF CallFunction

LEMMA SendMessageKeeps == ASSUME IInv, SendMessage PROVE IInv'
<1>1. Running /\ Top.pc \in DOMAIN Top.body /\ TypeInv /\ result = Nothing
    BY DEF SendMessage, AtExpression, At, IInv
<1>2. Top.pc # 0
    BY <1>1, StatementFacts
<1> DEFINE key == <<Self.structs[Statement.e.n], Statement.e.m>>
<1>3. CASE Fail("name") \/ Fail("message")
    BY <1>1, <1>3, FailKeeps DEF ErrorKinds
<1>4. CASE key \in DOMAIN Self.behaviors /\ Invoke(Self.behaviors[key], NoRead)
  <2>1. Self.behaviors[key] \in DOMAIN functions
    BY <1>1, <1>4, SelfFacts DEF EvaluatorOK, SafeMessages
  <2> QED BY <1>1, <1>2, <1>4, <2>1, InvokeKeeps
<1> QED BY <1>3, <1>4 DEF SendMessage

LEMMA SkipDeclarationKeeps == ASSUME IInv, SkipDeclaration PROVE IInv'
BY PassesOn DEF SkipDeclaration, At, Reads

LEMMA ExportStatementKeeps == ASSUME IInv, ExportStatement PROVE IInv'
<1>1. Running /\ Top.pc \in DOMAIN Top.body
    BY DEF ExportStatement, At
<1>2. CASE Fail("import")
    BY <1>1, <1>2, FailKeeps DEF ErrorKinds
<1>3. CASE control' = Advanced
           /\ UNCHANGED <<disk, evaluators, functions, result, status, lastRead>>
    BY <1>1, <1>3, PassesOn DEF Reads
<1> QED BY <1>2, <1>3 DEF ExportStatement

-----------------------------------------------------------------------------
(* Declaring a function.                                                   *)
LEMMA AddsOne ==
    ASSUME TypeInv, NEW r, functions' = Append(functions, r)
    PROVE  /\ functions' = functions \o <<r>> /\ Grows(functions, functions')
           /\ Handle(1) \in DOMAIN functions' /\ functions'[Handle(1)] = r
           /\ DOMAIN functions \subseteq DOMAIN functions'
           /\ \A f \in DOMAIN functions : functions'[f] = functions[f]
           /\ \A f \in DOMAIN functions' : f \in DOMAIN functions \/ f = Handle(1)
<1>1. IsSeq(functions)
    BY DEF TypeInv, FunctionsOK
<1>2. Len(functions) \in Nat /\ DOMAIN functions = 1 .. Len(functions)
    BY <1>1, SeqFacts
<1>3. /\ DOMAIN functions' = 1 .. Len(functions) + 1
      /\ functions'[Len(functions) + 1] = r
      /\ \A f \in 1 .. Len(functions) : functions'[f] = functions[f]
    BY <1>1, AppendIs
<1>4. functions' = functions \o <<r>>
  <2>1. functions \in Seq(ToSet(functions) \cup {r})
    BY <1>1, WithinSeq
  <2> QED BY <2>1
<1>5. Handle(1) = Len(functions) + 1
    BY DEF Handle
<1> QED BY <1>2, <1>3, <1>4, <1>5 DEF Grows

LEMMA RehoistedIs ==
    ASSUME NEW b, DOMAIN b = EvaluatorFields, NEW h
    PROVE  LET r == [b EXCEPT !.hoisted = h]
           IN  /\ DOMAIN r = EvaluatorFields /\ r.file = b.file /\ r.stack = b.stack
               /\ r.scopes = b.scopes /\ r.structs = b.structs /\ r.behaviors = b.behaviors
BY DEF EvaluatorFields

LEMMA DeclareFunctionKeeps == ASSUME IInv, DeclareFunction PROVE IInv'
<1>1. Running /\ Top.pc \in DOMAIN Top.body /\ Statement.op = "fn" /\ TypeInv
    BY DEF DeclareFunction, At, IInv
<1>2. CASE Fail("duplicate")
    BY <1>1, <1>2, FailKeeps DEF ErrorKinds
<1> DEFINE n == Statement.n
           depth == Len(Self.scopes)
           hoisted == depth = 1 /\ n \in Self.hoisted
           free == Free(Statement.body) \ {n}
           sees == IF depth > 1 \/ Imported(Current) THEN Seen(Self.scopes) ELSE <<>>
           new == NewFunction(n, Statement.body, Captures(free), Current, sees)
           locals == Only(n, Function(Handle(1)))
           h == IF hoisted THEN Self.hoisted \ {n} ELSE Self.hoisted
           r == [Binding(locals) EXCEPT !.hoisted = h]
<1>3. CASE /\ functions' = Append(functions, new)
           /\ evaluators' = [evaluators EXCEPT ![Current] =
                 [Binding(locals) EXCEPT !.hoisted = IF hoisted THEN @ \ {n} ELSE @]]
           /\ control' = Advanced
           /\ UNCHANGED <<disk, result, status, lastRead>>
  <2>1. Statement \in Statements /\ n # Anonymous /\ Statement.body \in Seq(Statements)
    BY <1>1, StatementFacts, ProgramsAreTexts
  <2>2. /\ DOMAIN new = FunctionFields
        /\ new.n = n /\ new.body = Statement.body /\ new.free = free
        /\ new.captures = Captures(free) /\ new.home = Current /\ new.sees = sees
    BY NewFunctionIs
  <2>3. SafeMap(functions, Captures(free)) /\ Captured(new)
    <3>1. SafeMap(functions, ValuesFor(Self.scopes, free)) /\ SafeMap(functions, <<>>)
        BY <1>1, SelfFacts, SeenSafe, SafeNone
    <3>2. CASE Snapshots
      <4>1. Captures(free) = ValuesFor(Self.scopes, free) /\ sees = Seen(Self.scopes)
        BY <3>2 DEF Captures, Snapshots
      <4>2. \A m \in free \cap DOMAIN Seen(Self.scopes) :
                Gives(ValuesFor(Self.scopes, free), m, Seen(Self.scopes)[m])
        BY ValuesIs DEF Gives
      <4> HIDE DEF free, sees, new
      <4> QED BY <2>2, <3>1, <4>1, <4>2 DEF Captured
    <3>3. CASE ~Snapshots
      <4>1. Captures(free) = <<>> /\ sees = <<>>
        BY <3>3 DEF Captures, Snapshots
      <4>2. DOMAIN <<>> = {}
        OBVIOUS
      <4> HIDE DEF free, sees, new
      <4> QED BY <2>2, <3>1, <4>1, <4>2 DEF Captured
    <3> QED BY <3>2, <3>3
  <2> HIDE DEF new, sees
  <2>4. /\ functions' = functions \o <<new>> /\ Grows(functions, functions')
        /\ Handle(1) \in DOMAIN functions' /\ functions'[Handle(1)] = new
        /\ DOMAIN functions \subseteq DOMAIN functions'
        /\ \A f \in DOMAIN functions : functions'[f] = functions[f]
        /\ \A f \in DOMAIN functions' : f \in DOMAIN functions \/ f = Handle(1)
    BY <1>1, <1>3, AddsOne
  <2>5. FunctionOK(functions', DOMAIN evaluators, new)
    <3>1. SafeMap(functions', new.captures)
        BY <2>2, <2>3, <2>4, SafeGrows
    <3>2. Current \in DOMAIN evaluators
        BY <1>1, TopFacts
    <3> QED BY <2>1, <2>2, <3>1, <3>2 DEF FunctionOK
  <2>6. FunctionsOK'
    <3>1. DOMAIN evaluators' = DOMAIN evaluators
        BY <1>3
    <3>2. IsSeq(<<new>>) /\ \A i \in DOMAIN <<new>> : FunctionOK(functions', DOMAIN evaluators, <<new>>[i])
      <4>1. IsSeq(<<new>>) /\ DOMAIN <<new>> = 1 .. 1 /\ <<new>>[1] = new
        BY SingleIs
      <4>2. \A i \in 1 .. 1 : i = 1
        OBVIOUS
      <4> QED BY <2>5, <4>1, <4>2
    <3> QED BY <1>1, <2>4, <3>1, <3>2, AddFunctions
  <2>7. CapturesGo /\ CapturesStay
    BY <2>3, <2>4 DEF CapturesGo, CapturesStay
  <2>8. SafeMap(functions', locals)
    <3>1. Safe(functions', Function(Handle(1)))
        BY <2>1, <2>2, <2>4 DEF Safe, Function
    <3> QED BY <3>1, SafeOnly
  <2> HIDE DEF locals
  <2>9. /\ DOMAIN Binding(locals) = EvaluatorFields
        /\ Binding(locals).file = Self.file /\ Binding(locals).stack = Self.stack
        /\ Binding(locals).structs = Self.structs /\ Binding(locals).behaviors = Self.behaviors
        /\ Binding(locals).hoisted = Self.hoisted
    BY <1>1, BindingIs, RunningParts
  <2>10. evaluators' = [evaluators EXCEPT ![Current] = r]
    BY <1>3, <2>9
  <2>11. /\ DOMAIN r = EvaluatorFields /\ r.file = Self.file /\ r.stack = Self.stack
         /\ r.scopes = Binding(locals).scopes /\ r.structs = Self.structs
         /\ r.behaviors = Self.behaviors
    <3> DEFINE b == Binding(locals)
    <3> HIDE DEF b, h
    <3>1. DOMAIN b = EvaluatorFields
        BY <2>9 DEF b
    <3>2. /\ DOMAIN [b EXCEPT !.hoisted = h] = EvaluatorFields
          /\ [b EXCEPT !.hoisted = h].file = b.file /\ [b EXCEPT !.hoisted = h].stack = b.stack
          /\ [b EXCEPT !.hoisted = h].scopes = b.scopes
          /\ [b EXCEPT !.hoisted = h].structs = b.structs
          /\ [b EXCEPT !.hoisted = h].behaviors = b.behaviors
        BY <3>1, RehoistedIs
    <3> QED BY <2>9, <3>2 DEF b
  <2> HIDE DEF r
  <2>12. SafeMessages(functions', r.behaviors)
    BY <1>1, <2>4, <2>11, SelfFacts, SafeGrows DEF EvaluatorOK
  <2>13. Extends(Self.structs, r.structs) /\ (evaluators'[Current] = r => MessagesGo)
    BY <2>11, ExtendsSelf, MessagesKept
  <2>14. Reads
    BY <1>3 DEF Reads
  <2> QED BY <1>1, <1>3, <2>4, <2>6, <2>7, <2>8, <2>10, <2>11, <2>12, <2>13, <2>14, BindsKeep
<1> QED
  <2>1. \/ Fail("duplicate")
        \/ /\ functions' = Append(functions, new)
           /\ evaluators' = [evaluators EXCEPT ![Current] =
                 [Binding(locals) EXCEPT !.hoisted = IF hoisted THEN @ \ {n} ELSE @]]
           /\ control' = Advanced
           /\ UNCHANGED <<disk, result, status, lastRead>>
    BY DEF DeclareFunction
  <2> QED BY <1>2, <1>3, <2>1

-----------------------------------------------------------------------------
(* Binding what a module handed over under a name.                         *)
LEMMA BindAliasKeeps == ASSUME IInv, BindAlias PROVE IInv'
<1>1. Running /\ Top.pc \in DOMAIN Top.body /\ TypeInv /\ result.kind = "module"
    BY DEF BindAlias, At, IInv
<1>2. CASE Fail("duplicate")
    BY <1>1, <1>2, FailKeeps DEF ErrorKinds
<1> DEFINE locals == Only(Statement.alias, result.v)
<1>3. CASE /\ evaluators' = [evaluators EXCEPT ![Current] = Binding(locals)]
           /\ control' = Advanced /\ result' = Nothing
           /\ UNCHANGED <<disk, functions, status, lastRead>>
  <2>1. Safe(functions, result.v)
    BY <1>1 DEF TypeInv, ResultOK
  <2>2. SafeMap(functions, locals)
    BY <2>1, SafeOnly
  <2>3. Reads
    BY <1>3 DEF Reads
  <2> HIDE DEF locals
  <2> QED BY <1>1, <1>3, <2>2, <2>3, BindsOnly
<1> QED BY <1>2, <1>3 DEF BindAlias

-----------------------------------------------------------------------------
(* Opening a module.                                                       *)
LEMMA OpenModuleKeeps == ASSUME IInv, OpenModule PROVE IInv'
<1>1. Running /\ Top.pc \in DOMAIN Top.body /\ TypeInv /\ result = Nothing /\ Opens(Statement)
    BY DEF OpenModule, AtOpen, IInv
<1>2. CASE Fail("import")
    BY <1>1, <1>2, FailKeeps DEF ErrorKinds
<1> DEFINE file == Locate[Self.file][Statement.path]
           new == Evaluator(file, Append(Self.stack, file))
           t == FileFrame(Len(evaluators) + 1, file)
<1>3. CASE /\ file # Nowhere /\ ~Cyclic(Self.stack, file)
           /\ evaluators' = Append(evaluators, new)
           /\ control' = Append(control, t)
           /\ lastRead' = NoRead
           /\ UNCHANGED <<disk, functions, result, status>>
  <2>1. EvaluatorOK(functions, Self) /\ Self.file \in Files /\ Self.stack \in Seq(Files)
    BY <1>1, SelfFacts DEF EvaluatorOK
  <2>2. file \in Files
    BY <1>1, <1>3, <2>1, StatementFacts, ProgramsAreTexts
  <2> HIDE DEF file
  <2>3. \A k \in DOMAIN Self.stack : Self.stack[k] # file
    <3>1. DOMAIN Self.stack = 1 .. Len(Self.stack)
        BY <2>1
    <3> QED BY <1>3, <3>1 DEF Cyclic, Contains
  <2>4. Opened(file)
    BY <1>3, <2>2, <2>3 DEF Opened
  <2>5. /\ Len(evaluators) \in Nat /\ DOMAIN evaluators = 1 .. Len(evaluators)
        /\ DOMAIN evaluators' = 1 .. Len(evaluators) + 1
        /\ \A d \in DOMAIN evaluators : evaluators'[d] = evaluators[d]
        /\ t \in Frames /\ evaluators'[Len(evaluators) + 1] = new
    BY <1>1, <2>4, OpenedFacts
  <2>6. EvaluatorOK(functions, new)
    <3>1. /\ DOMAIN new = EvaluatorFields /\ new.file = file
          /\ new.stack = Append(Self.stack, file) /\ new.scopes = << <<>> >>
          /\ new.behaviors = <<>>
        BY DEF Evaluator, EvaluatorFields
    <3>2. Append(Self.stack, file) \in Seq(Files)
        BY <2>1, <2>2
    <3>3. IsSeq(<< <<>> >>) /\ \A i \in DOMAIN << <<>> >> : SafeMap(functions, << <<>> >>[i])
      <4>1. IsSeq(<< <<>> >>) /\ DOMAIN << <<>> >> = 1 .. 1 /\ << <<>> >>[1] = <<>>
        BY SingleIs
      <4>2. \A i \in 1 .. 1 : i = 1
        OBVIOUS
      <4> QED BY <4>1, <4>2, SafeNone
    <3>4. SafeMessages(functions, <<>>)
      <4>1. DOMAIN <<>> = {}
        OBVIOUS
      <4> QED BY <4>1 DEF SafeMessages
    <3> HIDE DEF new
    <3> QED BY <2>2, <3>1, <3>2, <3>3, <3>4 DEF EvaluatorOK
  <2> HIDE DEF new
  <2>7. FunctionsOK' /\ Grows(functions, functions')
    BY <1>1, <1>3, <2>5, KeepFunctions
  <2>8. EvaluatorsOK'
    <3>1. IsSeq(evaluators)
        BY <1>1 DEF TypeInv, EvaluatorsOK
    <3>2. IsSeq(evaluators')
        BY <1>3, <3>1, AppendIs
    <3>3. \A e \in DOMAIN evaluators' : e \in DOMAIN evaluators \/ e = Len(evaluators) + 1
        BY <2>5
    <3>4. \A e \in DOMAIN evaluators' : EvaluatorOK(functions, evaluators'[e])
        BY <1>1, <2>5, <2>6, <3>3 DEF TypeInv, EvaluatorsOK
    <3> QED BY <1>3, <3>2, <3>4 DEF EvaluatorsOK
  <2>9. FrameOK(functions', DOMAIN evaluators', t)
    <3>1. /\ t.ev = Len(evaluators) + 1 /\ t.role = "file" /\ t.f = 0 /\ t.scopes = 0
          /\ t.pc = 0 /\ t.body = disk[file]
        BY DEF FileFrame
    <3>2. disk[file] \in Seq(Statements)
        BY <1>1, <2>2, DiskIsText
    <3>3. 0 \in 0 .. Len(disk[file]) + 1
        BY <3>2
    <3>4. Len(evaluators) + 1 \in DOMAIN evaluators'
        BY <2>5
    <3> HIDE DEF t
    <3> QED BY <3>1, <3>3, <3>4 DEF FrameOK
  <2> HIDE DEF t
  <2>10. ControlOK'
    <3>1. DOMAIN evaluators \subseteq DOMAIN evaluators'
        BY <2>5
    <3> QED BY <1>1, <1>3, <2>5, <2>7, <2>9, <3>1, EnterControl
  <2>11. TypeInv'
    BY <1>1, <1>3, <2>7, <2>8, <2>10 DEF TypeInv
  <2>12. Top.pc # 0 /\ Reads
    BY <1>1, <1>3, StatementFacts DEF Reads
  <2> QED BY <1>1, <1>3, <2>4, <2>11, <2>12, OpensKeep
<1> QED BY <1>2, <1>3 DEF OpenModule

-----------------------------------------------------------------------------
(* Entering a file.                                                        *)
LEMMA StatementsAre ==
    ASSUME NEW text \in Seq(Statements), NEW op
    PROVE  /\ IsSeq(StatementsOf(text, op)) /\ Len(StatementsOf(text, op)) \in Nat
           /\ DOMAIN StatementsOf(text, op) = 1 .. Len(StatementsOf(text, op))
           /\ \A i \in DOMAIN StatementsOf(text, op) :
                StatementsOf(text, op)[i] \in Statements /\ StatementsOf(text, op)[i].op = op
<1> DEFINE S == Places(text, op)
           places == SetToSeq(S)
           made == StatementsOf(text, op)
<1>1. S \subseteq 1 .. Len(text) /\ \A i \in S : text[i] \in Statements /\ text[i].op = op
    BY DEF Places
<1>2. IsFiniteSet(S)
  <2>1. IsFiniteSet(1 .. Len(text))
    BY FS_Interval
  <2> QED BY <1>1, <2>1, FS_Subset
<1>3. PICK n \in Nat : n = Cardinality(S) /\ ExistsBijection(1 .. n, S)
    BY <1>2, FS_CardinalityType
<1>4. places \in [1 .. n -> S]
  <2>1. \E f \in [1 .. n -> S] : IsInjective(f)
    BY <1>3 DEF ExistsBijection, Bijection, Injection, Surjection
  <2> QED BY <1>3, <2>1 DEF SetToSeq
<1>5. made = [i \in 1 .. n |-> text[places[i]]]
    BY <1>4 DEF StatementsOf
<1> HIDE DEF places, made, S
<1>6. DOMAIN made = 1 .. n /\ made = [i \in 1 .. n |-> made[i]]
    BY <1>5
<1>7. IsSeq(made) /\ Len(made) = n
    BY <1>6, ListIsSeq
<1>8. \A i \in DOMAIN made : made[i] \in Statements /\ made[i].op = op
    BY <1>1, <1>4, <1>5, <1>6
<1> QED BY <1>6, <1>7, <1>8 DEF made

(* What a file has of its own when it is entered: functions of its text.   *)
Declared(r, n) ==
    \E body \in Seq(Statements) : r = NewFunction(n, body, <<>>, Current, <<>>)

LEMMA DeclaredIs ==
    ASSUME NEW r, NEW n, Declared(r, n)
    PROVE  /\ DOMAIN r = FunctionFields /\ r.n = n /\ r.body \in Seq(Statements)
           /\ r.home = Current /\ Captured(r) /\ r.captures = <<>>
<1>1. PICK body \in Seq(Statements) : r = NewFunction(n, body, <<>>, Current, <<>>)
    BY DEF Declared
<1>2. /\ DOMAIN r = FunctionFields /\ r.n = n /\ r.body = body
      /\ r.home = Current /\ r.captures = <<>> /\ r.sees = <<>>
    BY <1>1, NewFunctionIs
<1>3. Captured(r)
  <2>1. DOMAIN <<>> = {}
    OBVIOUS
  <2> QED BY <1>2, <2>1 DEF Captured
<1> QED BY <1>2, <1>3

Joins(made, a, b) ==
    /\ IsSeq(made) /\ DOMAIN made = 1 .. Len(a) + Len(b)
    /\ Len(a) \in Nat /\ DOMAIN a = 1 .. Len(a) /\ Len(b) \in Nat /\ DOMAIN b = 1 .. Len(b)
    /\ \A i \in DOMAIN a : i \in DOMAIN made /\ made[i] = a[i]
    /\ \A i \in DOMAIN b : Len(a) + i \in DOMAIN made /\ made[Len(a) + i] = b[i]
    /\ \A i \in DOMAIN made : i \in DOMAIN a \/ \E j \in DOMAIN b : i = Len(a) + j

LEMMA MadeIs ==
    ASSUME NEW a, NEW b, IsSeq(a), IsSeq(b)
    PROVE  Joins(a \o b, a, b)
<1>1. /\ IsSeq(a \o b) /\ Len(a \o b) = Len(a) + Len(b)
      /\ \A i \in 1 .. Len(a) : (a \o b)[i] = a[i]
      /\ \A i \in 1 .. Len(b) : (a \o b)[Len(a) + i] = b[i]
    BY ConcatIs
<1>2. /\ DOMAIN a = 1 .. Len(a) /\ DOMAIN b = 1 .. Len(b)
      /\ DOMAIN (a \o b) = 1 .. Len(a) + Len(b) /\ Len(a) \in Nat /\ Len(b) \in Nat
    BY <1>1, SeqFacts
<1>3. ASSUME NEW i \in 1 .. Len(a) + Len(b), i \notin 1 .. Len(a)
      PROVE  \E j \in 1 .. Len(b) : i = Len(a) + j
  <2>1. i - Len(a) \in 1 .. Len(b) /\ i = Len(a) + (i - Len(a))
    BY <1>2, <1>3
  <2> QED BY <2>1
<1>4. \A i \in 1 .. Len(a) : i \in 1 .. Len(a) + Len(b)
    BY <1>2
<1>5. \A i \in 1 .. Len(b) : Len(a) + i \in 1 .. Len(a) + Len(b)
    BY <1>2
<1> DEFINE made == a \o b
<1>6. /\ IsSeq(made) /\ DOMAIN made = 1 .. Len(a) + Len(b)
      /\ \A i \in 1 .. Len(a) : made[i] = a[i]
      /\ \A i \in 1 .. Len(b) : made[Len(a) + i] = b[i]
    BY <1>1, <1>2
<1> HIDE DEF made
<1>7. Joins(made, a, b)
    BY <1>2, <1>3, <1>4, <1>5, <1>6 DEF Joins
<1> QED BY <1>7 DEF made

LEMMA RegisteredIs ==
    ASSUME NEW b, DOMAIN b = EvaluatorFields, NEW s, NEW k, NEW h
    PROVE  LET r == [b EXCEPT !.structs = s, !.behaviors = k, !.hoisted = h]
           IN  /\ DOMAIN r = EvaluatorFields /\ r.file = b.file /\ r.stack = b.stack
               /\ r.scopes = b.scopes /\ r.structs = s /\ r.behaviors = k
BY DEF EvaluatorFields

(* The messages a file declares, and the functions it hoists, as a step    *)
(* adds them to the heap.                                                  *)
Registers(messages, hoisted, locals, structs, behaviors, h) ==
    /\ IsSeq(messages) /\ \A i \in DOMAIN messages : Declared(messages[i], Anonymous)
    /\ IsSeq(hoisted) /\ \A i \in DOMAIN hoisted : \E n : n # Anonymous /\ Declared(hoisted[i], n)
    /\ functions' = functions \o (messages \o hoisted)
    /\ \A n \in DOMAIN locals : \E i \in DOMAIN hoisted :
            locals[n] = Function(Handle(Len(messages) + i))
    /\ \A k \in DOMAIN behaviors :
            k[1][1] = Self.file /\ \E i \in DOMAIN messages : behaviors[k] = Handle(i)
    /\ evaluators' = [evaluators EXCEPT ![Current] =
            [Binding(locals) EXCEPT !.structs = structs, !.behaviors = behaviors, !.hoisted = h]]

LEMMA RegistersKeep ==
    ASSUME IInv, Running, Top.pc = 0, control' = Advanced, disk' = disk, result' = result,
           status' = status, lastRead' = lastRead,
           NEW messages, NEW hoisted, NEW locals, NEW structs, NEW behaviors, NEW h,
           Registers(messages, hoisted, locals, structs, behaviors, h)
    PROVE  IInv'
<1> USE DEF Registers
<1> DEFINE made == messages \o hoisted
           r == [Binding(locals) EXCEPT !.structs = structs, !.behaviors = behaviors, !.hoisted = h]
<1>1. TypeInv /\ Structure /\ Len(Self.scopes) # 0
    BY RunningParts
<1>2. /\ IsSeq(made) /\ DOMAIN made = 1 .. Len(messages) + Len(hoisted)
      /\ Len(messages) \in Nat
      /\ \A i \in DOMAIN messages : i \in DOMAIN made /\ made[i] = messages[i]
      /\ \A i \in DOMAIN hoisted :
            Len(messages) + i \in DOMAIN made /\ made[Len(messages) + i] = hoisted[i]
      /\ \A i \in DOMAIN made : i \in DOMAIN messages \/ \E j \in DOMAIN hoisted : i = Len(messages) + j
  <2> HIDE DEF Registers, made
  <2>1. IsSeq(messages) /\ IsSeq(hoisted)
    BY DEF Registers
  <2>2. Joins(made, messages, hoisted)
    BY <2>1, MadeIs DEF made
  <2> QED BY <2>2 DEF Joins
<1>3. functions' = functions \o made
    OBVIOUS
<1> HIDE DEF made
<1>4. ASSUME NEW i \in DOMAIN made PROVE \E n : Declared(made[i], n)
  <2>1. CASE i \in DOMAIN messages
    <3>1. made[i] = messages[i] /\ Declared(messages[i], Anonymous)
        BY <1>2, <2>1
    <3> QED BY <3>1
  <2>2. CASE \E j \in DOMAIN hoisted : i = Len(messages) + j
    <3>1. PICK j \in DOMAIN hoisted : i = Len(messages) + j
        BY <2>2
    <3>2. PICK n : Declared(hoisted[j], n)
        OBVIOUS
    <3>3. made[i] = hoisted[j]
        BY <1>2, <3>1
    <3> QED BY <3>2, <3>3
  <2> QED BY <1>2, <2>1, <2>2
<1>5. \A i \in DOMAIN made : FunctionOK(functions', DOMAIN evaluators, made[i])
  <2>1. Current \in DOMAIN evaluators
    BY <1>1, TopFacts
  <2> SUFFICES ASSUME NEW i \in DOMAIN made PROVE FunctionOK(functions', DOMAIN evaluators, made[i])
    OBVIOUS
  <2>2. PICK n : Declared(made[i], n)
    BY <1>4
  <2> QED BY <2>1, <2>2, DeclaredIs, SafeNone DEF FunctionOK
<1>6. DOMAIN evaluators' = DOMAIN evaluators
    OBVIOUS
<1>7. /\ FunctionsOK' /\ Grows(functions, functions')
      /\ DOMAIN functions' = 1 .. Len(functions) + Len(made)
      /\ \A f \in DOMAIN functions : functions'[f] = functions[f]
      /\ \A i \in DOMAIN made :
            Len(functions) + i \in DOMAIN functions' /\ functions'[Len(functions) + i] = made[i]
    BY <1>1, <1>2, <1>3, <1>5, <1>6, AddFunctions
<1>8. \A i \in DOMAIN made : Handle(i) \in DOMAIN functions' /\ functions'[Handle(i)] = made[i]
    BY <1>7 DEF Handle
<1>9. CapturesStay
    BY <1>7 DEF CapturesStay
<1>10. CapturesGo
  <2>1. ASSUME NEW f \in DOMAIN functions', f \notin DOMAIN functions PROVE Captured(functions'[f])
    <3>1. Len(functions) \in Nat /\ DOMAIN functions = 1 .. Len(functions)
        BY <1>1, SeqFacts DEF TypeInv, FunctionsOK
    <3>2. Len(made) \in Nat /\ DOMAIN made = 1 .. Len(made)
        BY <1>2, SeqFacts
    <3>3. PICK i \in 1 .. Len(made) : f = Len(functions) + i
      <4>1. f - Len(functions) \in 1 .. Len(made) /\ f = Len(functions) + (f - Len(functions))
        BY <1>7, <2>1, <3>1, <3>2
      <4> QED BY <4>1
    <3>4. functions'[f] = made[i]
        BY <1>7, <3>2, <3>3
    <3> QED BY <1>4, <3>2, <3>4, DeclaredIs
  <2> QED BY <1>7, <2>1 DEF CapturesGo
<1>11. SafeMap(functions', locals)
  <2> SUFFICES ASSUME NEW n \in DOMAIN locals PROVE Safe(functions', locals[n])
    BY DEF SafeMap
  <2>1. PICK i \in DOMAIN hoisted : locals[n] = Function(Handle(Len(messages) + i))
    OBVIOUS
  <2>2. made[Len(messages) + i].n # Anonymous
    <3>1. PICK m : m # Anonymous /\ Declared(hoisted[i], m)
        OBVIOUS
    <3>2. hoisted[i].n = m
        BY <3>1, DeclaredIs
    <3> QED BY <1>2, <3>1, <3>2
  <2>3. Len(messages) + i \in DOMAIN made
    BY <1>2
  <2> QED BY <1>8, <2>1, <2>2, <2>3 DEF Safe, Function
<1>12. /\ DOMAIN Binding(locals) = EvaluatorFields
       /\ Binding(locals).file = Self.file /\ Binding(locals).stack = Self.stack
    BY <1>1, BindingIs
<1>13. /\ DOMAIN r = EvaluatorFields /\ r.file = Self.file /\ r.stack = Self.stack
       /\ r.scopes = Binding(locals).scopes /\ r.structs = structs
       /\ r.behaviors = behaviors
  <2> DEFINE b == Binding(locals)
  <2> HIDE DEF b
  <2>1. DOMAIN b = EvaluatorFields
    BY <1>12 DEF b
  <2> DEFINE q == [b EXCEPT !.structs = structs, !.behaviors = behaviors, !.hoisted = h]
  <2>2. /\ DOMAIN q = EvaluatorFields /\ q.file = b.file /\ q.stack = b.stack
        /\ q.scopes = b.scopes /\ q.structs = structs /\ q.behaviors = behaviors
    BY <2>1, RegisteredIs
  <2> QED BY <1>12, <2>2 DEF b
<1>14. evaluators' = [evaluators EXCEPT ![Current] = r]
    OBVIOUS
<1> HIDE DEF r
<1>15. \A k \in DOMAIN behaviors :
          /\ behaviors[k] \in DOMAIN functions' /\ functions'[behaviors[k]].n = Anonymous
          /\ functions'[behaviors[k]].home = Current
  <2> SUFFICES ASSUME NEW k \in DOMAIN behaviors
               PROVE  /\ behaviors[k] \in DOMAIN functions' /\ functions'[behaviors[k]].n = Anonymous
                      /\ functions'[behaviors[k]].home = Current
    OBVIOUS
  <2>1. PICK i \in DOMAIN messages : behaviors[k] = Handle(i)
    OBVIOUS
  <2>2. functions'[Handle(i)] = messages[i] /\ Handle(i) \in DOMAIN functions'
    BY <1>2, <1>8
  <2> QED BY <2>1, <2>2, DeclaredIs
<1>16. SafeMessages(functions', r.behaviors)
    BY <1>13, <1>15 DEF SafeMessages
<1>17. evaluators'[Current] = r => MessagesGo
    BY <1>13, <1>15 DEF MessagesGo
<1>18. Extends(Self.structs, r.structs)
  <2>1. Self.structs = <<>>
    BY <1>1, TopFacts DEF Structure, EnteredIsFresh, Self
  <2>2. DOMAIN <<>> = {}
    OBVIOUS
  <2> QED BY <2>1, <2>2 DEF Extends
<1>19. Reads
    BY DEF Reads
<1> QED BY <1>7, <1>9, <1>10, <1>11, <1>13, <1>14, <1>16, <1>17, <1>18, <1>19, BindsKeep

LEMMA MadeFrom ==
    ASSUME NEW s, IsSeq(s), NEW f, f = [i \in DOMAIN s |-> f[i]]
    PROVE  IsSeq(f) /\ Len(f) = Len(s) /\ DOMAIN f = DOMAIN s
<1>1. Len(s) \in Nat /\ DOMAIN s = 1 .. Len(s)
    BY SeqFacts
<1>2. DOMAIN f = 1 .. Len(s) /\ f = [i \in 1 .. Len(s) |-> f[i]]
    BY <1>1
<1> QED BY <1>1, <1>2, ListIsSeq

LEMMA RegisterKeeps == ASSUME IInv, Register PROVE IInv'
<1>1. Running /\ Top.pc = 0 /\ TypeInv
    BY DEF Register, IInv
<1> DEFINE text == Top.body
           structs == [n \in NamesOf(text, "struct") |-> Identity(Self.file, n)]
           messages == StatementsOf(text, "message")
           hoisted == IF Hoists(Current) THEN StatementsOf(text, "fn") ELSE <<>>
           Key(i) == <<structs[messages[i].n], messages[i].m>>
           sent == [i \in DOMAIN messages |->
                       NewFunction(Anonymous, messages[i].body, <<>>, Current, <<>>)]
           called == [i \in DOMAIN hoisted |->
                       NewFunction(hoisted[i].n, hoisted[i].body, <<>>, Current, <<>>)]
           names == {hoisted[i].n : i \in DOMAIN hoisted}
           locals == [n \in names |-> Function(Handle(Len(messages)
                                 + CHOOSE i \in DOMAIN hoisted : hoisted[i].n = n))]
           behaviors == [k \in {Key(i) : i \in DOMAIN messages} |->
                                         Handle(CHOOSE i \in DOMAIN messages : Key(i) = k)]
<1>2. CASE Fail("duplicate") \/ Fail("message")
    BY <1>1, <1>2, FailKeeps DEF ErrorKinds
<1>3. CASE /\ ~\E i \in DOMAIN messages : messages[i].n \notin DOMAIN structs
           /\ functions' = functions \o (sent \o called)
           /\ evaluators' = [evaluators EXCEPT ![Current] =
                [Binding(locals) EXCEPT !.structs = structs, !.behaviors = behaviors,
                                        !.hoisted = names]]
           /\ control' = Advanced
           /\ UNCHANGED <<disk, result, status, lastRead>>
  <2>1. text \in Seq(Statements)
    BY <1>1, TopFacts DEF Frames
  <2>2. /\ IsSeq(messages)
        /\ \A i \in DOMAIN messages : messages[i] \in Statements /\ messages[i].op = "message"
    BY <2>1, StatementsAre
  <2>3. /\ IsSeq(hoisted)
        /\ \A i \in DOMAIN hoisted : hoisted[i] \in Statements /\ hoisted[i].op = "fn"
    <3>1. CASE Hoists(Current)
        BY <2>1, <3>1, StatementsAre
    <3>2. CASE ~Hoists(Current)
      <4>1. hoisted = <<>> /\ DOMAIN <<>> = {}
        BY <3>2
      <4> QED BY <4>1, EmptyIsSeq
    <3> QED BY <3>1, <3>2
  <2> HIDE DEF text, messages, hoisted
  <2>4. IsSeq(sent) /\ Len(sent) = Len(messages) /\ DOMAIN sent = DOMAIN messages
    BY <2>2, MadeFrom
  <2>5. IsSeq(called) /\ Len(called) = Len(hoisted) /\ DOMAIN called = DOMAIN hoisted
    BY <2>3, MadeFrom
  <2>6. \A i \in DOMAIN sent : Declared(sent[i], Anonymous)
    BY <2>2, <2>4, ProgramsAreTexts DEF Declared
  <2>7. \A i \in DOMAIN called : \E n : n # Anonymous /\ Declared(called[i], n)
    BY <2>3, <2>5, ProgramsAreTexts DEF Declared
  <2>8. \A n \in DOMAIN locals : \E i \in DOMAIN called :
                locals[n] = Function(Handle(Len(sent) + i))
    <3> SUFFICES ASSUME NEW n \in names
                 PROVE  \E i \in DOMAIN hoisted : locals[n] = Function(Handle(Len(messages) + i))
        BY <2>4, <2>5
    <3>1. \E i \in DOMAIN hoisted : hoisted[i].n = n
        OBVIOUS
    <3> DEFINE i == CHOOSE i \in DOMAIN hoisted : hoisted[i].n = n
    <3>2. i \in DOMAIN hoisted
        BY <3>1
    <3>3. locals[n] = Function(Handle(Len(messages) + i))
        OBVIOUS
    <3> HIDE DEF i
    <3> QED BY <3>2, <3>3
  <2>9. \A k \in DOMAIN behaviors :
            k[1][1] = Self.file /\ \E i \in DOMAIN sent : behaviors[k] = Handle(i)
    <3> SUFFICES ASSUME NEW k \in DOMAIN behaviors
                 PROVE  k[1][1] = Self.file /\ \E i \in DOMAIN messages : behaviors[k] = Handle(i)
        BY <2>4
    <3>1. \E i \in DOMAIN messages : Key(i) = k
        OBVIOUS
    <3> DEFINE i == CHOOSE i \in DOMAIN messages : Key(i) = k
    <3>2. i \in DOMAIN messages /\ Key(i) = k
        BY <3>1
    <3>3. behaviors[k] = Handle(i)
        OBVIOUS
    <3>4. messages[i].n \in DOMAIN structs
        BY <1>3, <3>2
    <3>5. structs[messages[i].n] = <<Self.file, messages[i].n>>
        BY <3>4 DEF Identity
    <3> HIDE DEF i, structs
    <3>6. k[1] = structs[messages[i].n]
        BY <3>2
    <3>7. k[1][1] = Self.file
        BY <3>5, <3>6
    <3> QED BY <3>2, <3>3, <3>7
  <2> HIDE DEF structs, sent, called, names, locals, behaviors, Key
  <2>10. Registers(sent, called, locals, structs, behaviors, names)
    BY <1>3, <2>4, <2>5, <2>6, <2>7, <2>8, <2>9 DEF Registers
  <2> QED BY <1>1, <1>3, <2>10, RegistersKeep
<1> QED
  <2>1. \/ Fail("duplicate") \/ Fail("message")
        \/ /\ ~\E i \in DOMAIN messages : messages[i].n \notin DOMAIN structs
           /\ functions' = functions \o (sent \o called)
           /\ evaluators' = [evaluators EXCEPT ![Current] =
                [Binding(locals) EXCEPT !.structs = structs, !.behaviors = behaviors,
                                        !.hoisted = names]]
           /\ control' = Advanced
           /\ UNCHANGED <<disk, result, status, lastRead>>
    BY DEF Register
  <2> QED BY <1>2, <1>3, <2>1

-----------------------------------------------------------------------------
(* Binding what a module handed over, name by name.                        *)
LEMMA ExposedIs ==
    ASSUME NEW b, DOMAIN b = EvaluatorFields, NEW s, NEW k
    PROVE  LET r == [b EXCEPT !.structs = s, !.behaviors = k]
           IN  /\ DOMAIN r = EvaluatorFields /\ r.file = b.file /\ r.stack = b.stack
               /\ r.scopes = b.scopes /\ r.structs = s /\ r.behaviors = k
BY DEF EvaluatorFields

LEMMA OverFollows ==
    ASSUME NEW f, NEW g
    PROVE  \A x \in DOMAIN Over(f, g) :
                \/ x \in DOMAIN f /\ Over(f, g)[x] = f[x]
                \/ x \in DOMAIN g /\ Over(f, g)[x] = g[x]
<1> DEFINE h == Over(f, g)
<1>1. /\ DOMAIN h = (DOMAIN f) \cup (DOMAIN g)
      /\ \A x \in DOMAIN f : h[x] = f[x]
      /\ \A x \in (DOMAIN g) \ (DOMAIN f) : h[x] = g[x]
    BY OverIs
<1> HIDE DEF h
<1>2. \A x \in DOMAIN h :
        \/ x \in DOMAIN f /\ h[x] = f[x]
        \/ x \in DOMAIN g /\ h[x] = g[x]
    BY <1>1
<1> QED BY <1>2 DEF h

LEMMA OverExtends ==
    ASSUME NEW f, NEW g, (DOMAIN f) \cap (DOMAIN g) = {}
    PROVE  Extends(g, Over(f, g))
<1> DEFINE h == Over(f, g)
<1>1. /\ DOMAIN h = (DOMAIN f) \cup (DOMAIN g)
      /\ \A x \in (DOMAIN g) \ (DOMAIN f) : h[x] = g[x]
    BY OverIs
<1> HIDE DEF h
<1>2. Extends(g, h)
    BY <1>1 DEF Extends
<1> QED BY <1>2 DEF h

LEMMA OverSafe ==
    ASSUME NEW f, NEW g, NEW fs, SafeMessages(fs, f), SafeMessages(fs, g)
    PROVE  SafeMessages(fs, Over(f, g))
<1> DEFINE h == Over(f, g)
<1>1. \A x \in DOMAIN h :
        \/ x \in DOMAIN f /\ h[x] = f[x]
        \/ x \in DOMAIN g /\ h[x] = g[x]
    BY OverFollows
<1> HIDE DEF h
<1>2. SafeMessages(fs, h)
    BY <1>1 DEF SafeMessages
<1> QED BY <1>2 DEF h

Exposes(values, structs, behaviors) ==
    /\ \A l \in DOMAIN values : \E x \in DOMAIN result.values : values[l] = result.values[x]
    /\ (DOMAIN structs) \cap (DOMAIN Self.structs) = {}
    /\ \A k \in DOMAIN behaviors : \E x \in DOMAIN result.types :
            /\ k \in DOMAIN result.types[x].behaviors
            /\ behaviors[k] = result.types[x].behaviors[k]
    /\ evaluators' = [evaluators EXCEPT ![Current] =
            [Binding(values) EXCEPT !.structs = Over(structs, @), !.behaviors = Over(behaviors, @)]]

LEMMA ExposesKeep ==
    ASSUME IInv, Running, Top.pc \in DOMAIN Top.body, control' = Advanced, result' = Nothing,
           UNCHANGED <<disk, functions, status, lastRead>>, result.kind = "module",
           NEW values, NEW structs, NEW behaviors, Exposes(values, structs, behaviors)
    PROVE  IInv'
<1> USE DEF Exposes
<1>1. TypeInv /\ Len(Self.scopes) # 0 /\ EvaluatorOK(functions, Self)
    BY RunningParts, SelfFacts
<1>2. SafeMap(functions, result.values)
      /\ \A x \in DOMAIN result.types : SafeMessages(functions, result.types[x].behaviors)
    BY <1>1 DEF TypeInv, ResultOK
<1>3. SafeMap(functions, values)
    BY <1>2 DEF SafeMap
<1>4. SafeMessages(functions, behaviors)
    BY <1>2 DEF SafeMessages
<1> DEFINE s == Over(structs, Self.structs)
           k == Over(behaviors, Self.behaviors)
           r == [Binding(values) EXCEPT !.structs = s, !.behaviors = k]
<1>5. /\ DOMAIN Binding(values) = EvaluatorFields
      /\ Binding(values).file = Self.file /\ Binding(values).stack = Self.stack
      /\ Binding(values).structs = Self.structs /\ Binding(values).behaviors = Self.behaviors
    BY <1>1, BindingIs
<1>6. evaluators' = [evaluators EXCEPT ![Current] = r]
    BY <1>5
<1>7. Extends(Self.structs, s)
    BY OverExtends
<1>8. SafeMessages(functions, k)
  <2>1. SafeMessages(functions, Self.behaviors)
    BY <1>1 DEF EvaluatorOK
  <2> QED BY <1>4, <2>1, OverSafe
<1>9. \A y \in DOMAIN k : \/ y \in DOMAIN behaviors /\ k[y] = behaviors[y]
                          \/ y \in DOMAIN Self.behaviors /\ k[y] = Self.behaviors[y]
    BY OverFollows
<1>10. /\ DOMAIN r = EvaluatorFields /\ r.file = Self.file /\ r.stack = Self.stack
       /\ r.scopes = Binding(values).scopes /\ r.structs = s /\ r.behaviors = k
  <2> DEFINE b == Binding(values)
  <2> HIDE DEF b, s, k
  <2>1. DOMAIN b = EvaluatorFields
    BY <1>5 DEF b
  <2> DEFINE q == [b EXCEPT !.structs = s, !.behaviors = k]
  <2>2. /\ DOMAIN q = EvaluatorFields /\ q.file = b.file /\ q.stack = b.stack
        /\ q.scopes = b.scopes /\ q.structs = s /\ q.behaviors = k
    BY <2>1, ExposedIs
  <2> QED BY <1>5, <2>2 DEF b
<1> HIDE DEF r, s, k
<1>11. FunctionsOK' /\ Grows(functions, functions') /\ CapturesGo /\ CapturesStay
    BY <1>1, KeepFunctions, FunctionsKept
<1>12. evaluators'[Current] = r => MessagesGo
  <2> SUFFICES ASSUME evaluators'[Current] = r PROVE MessagesGo
    OBVIOUS
  <2>1. evaluators'[Current].behaviors = k
    BY <1>10
  <2> SUFFICES ASSUME NEW y \in DOMAIN k
               PROVE  \/ y \in DOMAIN Self.behaviors /\ k[y] = Self.behaviors[y]
                      \/ \E x \in DOMAIN result.types :
                            y \in DOMAIN result.types[x].behaviors /\ k[y] = result.types[x].behaviors[y]
    BY <2>1 DEF MessagesGo
  <2> QED BY <1>9
<1>13. Reads
    BY DEF Reads
<1> QED BY <1>3, <1>6, <1>7, <1>8, <1>10, <1>11, <1>12, <1>13, BindsKeep

LEMMA BindExposedKeeps == ASSUME IInv, BindExposed PROVE IInv'
<1>1. Running /\ Top.pc \in DOMAIN Top.body /\ result.kind = "module"
    BY DEF BindExposed, At
<1> DEFINE names == Statement.names
           depth == Len(Self.scopes)
           values == {i \in DOMAIN names : names[i][1] \in DOMAIN result.values}
           types == {i \in DOMAIN names \ values : names[i][1] \in DOMAIN result.types}
           bound == {names[i][2] : i \in values}
           typed == {names[i][2] : i \in types}
           ValueOf(l) == result.values[names[CHOOSE i \in values : names[i][2] = l][1]]
           TypeOf(l) == result.types[names[CHOOSE i \in types : names[i][2] = l][1]]
           messages == UNION {DOMAIN TypeOf(l).behaviors : l \in typed}
           Carrier(k) == CHOOSE l \in typed : k \in DOMAIN TypeOf(l).behaviors
           locals == [l \in bound |-> ValueOf(l)]
           structs == [l \in typed |-> TypeOf(l).id]
           behaviors == [k \in messages |-> TypeOf(Carrier(k)).behaviors[k]]
<1>2. CASE Fail("duplicate") \/ Fail("import")
    BY <1>1, <1>2, FailKeeps DEF ErrorKinds
<1>3. CASE /\ typed \cap DOMAIN Self.structs = {}
           /\ evaluators' = [evaluators EXCEPT ![Current] =
                [Binding(locals) EXCEPT !.structs = Over(structs, @),
                                        !.behaviors = Over(behaviors, @)]]
           /\ control' = Advanced
           /\ result' = Nothing
           /\ UNCHANGED <<disk, functions, status, lastRead>>
  <2>1. \A l \in DOMAIN locals : \E x \in DOMAIN result.values : locals[l] = result.values[x]
    <3> SUFFICES ASSUME NEW l \in bound
                 PROVE  \E x \in DOMAIN result.values : locals[l] = result.values[x]
        OBVIOUS
    <3>1. \E i \in values : names[i][2] = l
        OBVIOUS
    <3> DEFINE i == CHOOSE i \in values : names[i][2] = l
    <3>2. i \in values
        BY <3>1
    <3>3. names[i][1] \in DOMAIN result.values
        BY <3>2
    <3> QED BY <3>3
  <2>2. \A l \in typed : \E x \in DOMAIN result.types : TypeOf(l) = result.types[x]
    <3> SUFFICES ASSUME NEW l \in typed
                 PROVE  \E x \in DOMAIN result.types : TypeOf(l) = result.types[x]
        OBVIOUS
    <3>1. \E i \in types : names[i][2] = l
        OBVIOUS
    <3> DEFINE i == CHOOSE i \in types : names[i][2] = l
    <3>2. i \in types
        BY <3>1
    <3>3. names[i][1] \in DOMAIN result.types
        BY <3>2
    <3> QED BY <3>3
  <2> HIDE DEF TypeOf, typed, types, values, bound
  <2>3. \A k \in DOMAIN behaviors : \E x \in DOMAIN result.types :
            /\ k \in DOMAIN result.types[x].behaviors
            /\ behaviors[k] = result.types[x].behaviors[k]
    <3> SUFFICES ASSUME NEW k \in messages
                 PROVE  \E x \in DOMAIN result.types :
                            /\ k \in DOMAIN result.types[x].behaviors
                            /\ behaviors[k] = result.types[x].behaviors[k]
        OBVIOUS
    <3>1. \E l \in typed : k \in DOMAIN TypeOf(l).behaviors
        OBVIOUS
    <3>2. Carrier(k) \in typed /\ k \in DOMAIN TypeOf(Carrier(k)).behaviors
        BY <3>1
    <3>3. behaviors[k] = TypeOf(Carrier(k)).behaviors[k]
        OBVIOUS
    <3> HIDE DEF Carrier, behaviors
    <3>4. PICK x \in DOMAIN result.types : TypeOf(Carrier(k)) = result.types[x]
        BY <2>2, <3>2
    <3> DEFINE type == TypeOf(Carrier(k))
    <3>5. k \in DOMAIN type.behaviors /\ behaviors[k] = type.behaviors[k] /\ type = result.types[x]
        BY <3>2, <3>3, <3>4
    <3> HIDE DEF type
    <3> QED BY <3>5
  <2>4. (DOMAIN structs) \cap (DOMAIN Self.structs) = {}
    BY <1>3
  <2> HIDE DEF locals, structs, behaviors
  <2>5. Exposes(locals, structs, behaviors)
    BY <1>3, <2>1, <2>3, <2>4 DEF Exposes
  <2> QED BY <1>1, <1>3, <2>5, ExposesKeep
<1> QED
  <2>1. \/ Fail("duplicate") \/ Fail("import")
        \/ /\ typed \cap DOMAIN Self.structs = {}
           /\ evaluators' = [evaluators EXCEPT ![Current] =
                [Binding(locals) EXCEPT !.structs = Over(structs, @),
                                        !.behaviors = Over(behaviors, @)]]
           /\ control' = Advanced
           /\ result' = Nothing
           /\ UNCHANGED <<disk, functions, status, lastRead>>
    BY DEF BindExposed
  <2> QED BY <1>2, <1>3, <2>1

-----------------------------------------------------------------------------
(* The first state.                                                        *)
LEMMA NoneIs == DOMAIN <<>> = {}
OBVIOUS

LEMMA FirstIs ==
    ASSUME Init
    PROVE  /\ Len(evaluators) = 1 /\ DOMAIN evaluators = 1 .. 1
           /\ evaluators[1].file = Root /\ evaluators[1].stack = <<Root>>
           /\ evaluators[1].scopes = << <<>> >> /\ evaluators[1].structs = <<>>
           /\ evaluators[1].behaviors = <<>> /\ DOMAIN evaluators[1] = EvaluatorFields
           /\ control = <<control[1]>> /\ Len(control) = 1 /\ DOMAIN control = 1 .. 1
           /\ control[1].ev = 1 /\ control[1].role = "file" /\ control[1].f = 0
           /\ control[1].pc = 0 /\ control[1].scopes = 0
           /\ control[1].body \in Seq(Statements) /\ control[1] \in Frames
<1> DEFINE e == Evaluator(Root, <<Root>>)
           t == FileFrame(1, Root)
<1>1. evaluators = <<e>> /\ control = <<t>>
    BY DEF Init
<1>2. /\ e.file = Root /\ e.stack = <<Root>> /\ e.scopes = << <<>> >> /\ e.structs = <<>>
      /\ e.behaviors = <<>> /\ DOMAIN e = EvaluatorFields
    BY DEF Evaluator, EvaluatorFields
<1>3. disk[Root] \in Seq(Statements)
    BY ProgramsAreTexts DEF Init
<1>4. /\ t.ev = 1 /\ t.role = "file" /\ t.f = 0 /\ t.pc = 0 /\ t.scopes = 0 /\ t.body = disk[Root]
      /\ t \in Frames
    BY <1>3 DEF FileFrame, Frames
<1> HIDE DEF e, t
<1>5. Len(<<e>>) = 1 /\ DOMAIN <<e>> = 1 .. 1 /\ <<e>>[1] = e
    BY SingleIs
<1>6. Len(<<t>>) = 1 /\ DOMAIN <<t>> = 1 .. 1 /\ <<t>>[1] = t
    BY SingleIs
<1> QED BY <1>1, <1>2, <1>3, <1>4, <1>5, <1>6

LEMMA InitType == ASSUME Init PROVE TypeInv
<1>1. /\ disk \in Programs /\ status = "running" /\ functions = <<>> /\ result = Nothing
    BY DEF Init
<1>2. EvaluatorsOK
  <2>1. IsSeq(evaluators)
    BY SingleIs DEF Init
  <2>2. IsSeq(<< <<>> >>) /\ \A i \in DOMAIN << <<>> >> : SafeMap(functions, << <<>> >>[i])
    <3>1. IsSeq(<< <<>> >>) /\ DOMAIN << <<>> >> = 1 .. 1 /\ << <<>> >>[1] = <<>>
        BY SingleIs
    <3>2. \A i \in 1 .. 1 : i = 1
        OBVIOUS
    <3> QED BY <3>1, <3>2, SafeNone
  <2>3. <<Root>> \in Seq(Files) /\ Root \in Files
    BY ProgramsAreTexts
  <2>4. SafeMessages(functions, <<>>)
    BY NoneIs DEF SafeMessages
  <2>5. EvaluatorOK(functions, evaluators[1])
    BY <2>2, <2>3, <2>4, FirstIs DEF EvaluatorOK
  <2>6. \A e \in DOMAIN evaluators : e = 1
    BY FirstIs
  <2> QED BY <2>1, <2>5, <2>6 DEF EvaluatorsOK
<1>3. FunctionsOK
    BY <1>1, EmptyIsSeq, NoneIs DEF FunctionsOK
<1>4. ControlOK
  <2> DEFINE t == control[1]
  <2>1. control = <<t>> /\ t \in Frames /\ DOMAIN control = 1 .. 1
    BY FirstIs
  <2>2. FrameOK(functions, DOMAIN evaluators, t)
    <3>1. t.ev \in DOMAIN evaluators /\ t.role = "file" /\ t.f = 0 /\ t.scopes = 0 /\ t.pc = 0
        BY FirstIs
    <3>2. Len(t.body) \in Nat
        BY FirstIs
    <3> HIDE DEF t
    <3> QED BY <3>1, <3>2 DEF FrameOK
  <2>3. control \in Seq(Frames)
    <3> HIDE DEF t
    <3>1. <<t>> \in Seq(Frames)
        BY <2>1
    <3> QED BY <2>1, <3>1
  <2>4. \A i \in DOMAIN control : i = 1
    BY <2>1
  <2> QED BY <2>2, <2>3, <2>4 DEF ControlOK
<1> QED BY <1>1, <1>2, <1>3, <1>4 DEF TypeInv, ResultOK, Nothing

LEMMA InitStructure == ASSUME Init PROVE Structure
<1>1. \A i \in DOMAIN control : i = 1
    BY FirstIs
<1>2. FramesFollow
    BY <1>1, FirstIs DEF FramesFollow
<1>3. StacksFollow
  <2>1. FilesIn(control, 1) = 1
    <3>1. {j \in 1 .. 1 : control[j].role = "file"} = {1}
        BY FirstIs
    <3>2. Cardinality({1}) = 1
        BY FS_Singleton
    <3> QED BY <3>1, <3>2 DEF FilesIn
  <2>2. StackOf(1) = <<Root>>
    BY FirstIs DEF StackOf
  <2>3. Len(<<Root>>) = 1 /\ <<Root>>[1] = Root /\ DOMAIN <<Root>> = 1 .. 1
    BY SingleIs
  <2>4. \A j, k \in DOMAIN StackOf(1) : j = k
    BY <2>2, <2>3
  <2> QED BY <1>1, <2>1, <2>2, <2>3, <2>4, FirstIs DEF StacksFollow
<1>4. ScopesFollowCalls
  <2> SUFFICES ASSUME NEW e \in DOMAIN evaluators
               PROVE  Len(evaluators[e].scopes) = 1 + Cardinality(Pushed(e))
    BY DEF ScopesFollowCalls
  <2>1. e = 1
    BY FirstIs
  <2>2. Pushed(e) = {}
    <3>1. ASSUME NEW p \in (DOMAIN control) \X (1 .. 2), p[2] <= control[p[1]].scopes PROVE FALSE
      <4>1. p[1] = 1 /\ p[2] \in 1 .. 2
        BY <1>1
      <4>2. p[2] <= 0
        BY <3>1, <4>1, FirstIs
      <4> QED BY <4>1, <4>2
    <3> QED BY <3>1 DEF Pushed
  <2>3. Cardinality(Pushed(e)) = 0
    BY <2>2, FS_EmptySet
  <2>4. Len(evaluators[e].scopes) = 1
    BY <2>1, FirstIs, SingleIs
  <2> QED BY <2>3, <2>4
<1>5. EnteredIsFresh
    BY <1>1, FirstIs DEF EnteredIsFresh
<1> QED BY <1>2, <1>3, <1>4, <1>5 DEF Structure

LEMMA InitIInv == Init => IInv
<1> SUFFICES ASSUME Init PROVE IInv
    OBVIOUS
<1>1. functions = <<>> /\ result = Nothing /\ lastRead.f = 0
    BY DEF Init, NoRead
<1>2. \A i \in DOMAIN control : control[i].role # "call"
    BY FirstIs
<1>3. \A e \in DOMAIN evaluators : DOMAIN evaluators[e].behaviors = {}
    BY FirstIs, NoneIs
<1>4. CallsSee /\ Knowledge
    BY <1>1, <1>2, <1>3
    DEF CallsSee, CallSees, Knowledge, MessagesKnown, MessagesHandedOver, Nothing, CallsKnow, CallKnows
<1>5. CapturesSeen
    BY <1>1, NoneIs DEF CapturesSeen
<1>6. ReadsSeen /\ MessagesReadTheirModule
    BY <1>1 DEF ReadsSeen, FunctionsReadTheirModule, MessagesReadTheirModule
<1> QED BY <1>4, <1>5, <1>6, InitType, InitStructure DEF IInv

-----------------------------------------------------------------------------
(* A step that changes nothing.                                            *)
LEMMA StutterKeeps ==
    ASSUME IInv, UNCHANGED vars
    PROVE  IInv'
<1>1. /\ disk' = disk /\ evaluators' = evaluators /\ functions' = functions
      /\ control' = control /\ result' = result /\ status' = status /\ lastRead' = lastRead
    BY DEF vars
<1>2. TypeInv'
    BY <1>1 DEF IInv, TypeInv, EvaluatorsOK, FunctionsOK, ControlOK
<1>3. /\ Running' <=> Running
      /\ Self' = Self
      /\ \A e : Left(e)' <=> Left(e)
    BY <1>1 DEF Running, Self, Current, Top, Left
<1>4. Structure => Structure'
    BY <1>1, <1>3 DEF Structure, FramesFollow, StacksFollow, StackOf, ScopesFollowCalls, Pushed,
                      EnteredIsFresh
<1>5. CallsSee => CallsSee'
    BY <1>1 DEF CallsSee, CallSees, Own, Named
<1>6. Knowledge => Knowledge'
  <2>1. NothingExportedAgain' <=> NothingExportedAgain
    BY <1>1 DEF NothingExportedAgain, ExportsAgain, ExportsOf
  <2>2. MessagesKnown => MessagesKnown'
    BY <1>1, <1>3 DEF MessagesKnown, MessageKnown, Foreign, CapturesOf
  <2>3. MessagesHandedOver => MessagesHandedOver'
    BY <1>1, <1>3 DEF MessagesHandedOver, HandedOver, CapturesOf
  <2>4. CallsKnow => CallsKnow'
    BY <1>1, <1>3 DEF CallsKnow, CallKnows, Own, Named, Globals
  <2> QED BY <2>1, <2>2, <2>3, <2>4 DEF Knowledge
<1>7. CapturesSeen' /\ ReadsSeen' /\ MessagesReadTheirModule'
  <2>1. NothingExportedAgain' <=> NothingExportedAgain
    BY <1>1 DEF NothingExportedAgain, ExportsAgain, ExportsOf
  <2> QED BY <1>1, <1>3, <2>1 DEF IInv, CapturesSeen, ReadsSeen, FunctionsReadTheirModule,
                                  MessagesReadTheirModule, Named, Globals
<1> QED BY <1>2, <1>3, <1>4, <1>5, <1>6, <1>7 DEF IInv

LEMMA NextIInv == IInv /\ [Next]_vars => IInv'
<1> SUFFICES ASSUME IInv, [Next]_vars PROVE IInv'
    OBVIOUS
<1>1. CASE UNCHANGED vars \/ Stopped
    BY <1>1, StutterKeeps DEF Stopped
<1>2. CASE Register \/ SkipDeclaration \/ ExportStatement \/ DeclareFunction
    BY <1>2, RegisterKeeps, SkipDeclarationKeeps, ExportStatementKeeps, DeclareFunctionKeeps
<1>3. CASE EvaluateLiteral \/ EvaluateName \/ Construct
    BY <1>3, EvaluateLiteralKeeps, EvaluateNameKeeps, ConstructKeeps
<1>4. CASE CallFunction \/ SendMessage \/ Resume \/ EndOfBody
    BY <1>4, CallFunctionKeeps, SendMessageKeeps, ResumeKeeps, EndOfBodyKeeps
<1>5. CASE OpenModule \/ BindAlias \/ BindExposed
    BY <1>5, OpenModuleKeeps, BindAliasKeeps, BindExposedKeeps
<1> QED BY <1>1, <1>2, <1>3, <1>4, <1>5 DEF Next

-----------------------------------------------------------------------------
(* The inductive invariant holds of every program, whatever its files are  *)
(* and however they open each other.                                       *)
THEOREM ImportsInvariant == Spec => []IInv
<1>1. Init => IInv
    BY InitIInv
<1>2. IInv /\ [Next]_vars => IInv'
    BY NextIInv
<1> QED BY <1>1, <1>2, PTL DEF Spec

(* Every handle that is bound, captured or kept as a behavior names a      *)
(* function of the heap, and every frame an evaluator and a place of its   *)
(* text: no execution of imports.rs leaves one dangling.                   *)
THEOREM ImportsTyped == Spec => []TypeOK
<1>1. IInv => TypeOK
  <2> SUFFICES ASSUME TypeInv PROVE TypeOK
    BY DEF IInv
  <2>1. \A m : SafeMap(functions, m) => Handles(m) \subseteq DOMAIN functions
    BY DEF SafeMap, Safe, Handles
  <2>2. ASSUME NEW e \in DOMAIN evaluators
        PROVE  /\ evaluators[e].file \in Files
               /\ \A i \in DOMAIN evaluators[e].scopes :
                    Handles(evaluators[e].scopes[i]) \subseteq DOMAIN functions
               /\ \A k \in DOMAIN evaluators[e].behaviors :
                    evaluators[e].behaviors[k] \in DOMAIN functions
    BY <2>1 DEF TypeInv, EvaluatorsOK, EvaluatorOK, SafeMessages
  <2>3. ASSUME NEW f \in DOMAIN functions
        PROVE  /\ functions[f].home \in DOMAIN evaluators
               /\ Handles(functions[f].captures) \subseteq DOMAIN functions
    BY <2>1 DEF TypeInv, FunctionsOK, FunctionOK
  <2>4. ASSUME NEW i \in DOMAIN control
        PROVE  /\ control[i].ev \in DOMAIN evaluators
               /\ control[i].pc \in 0 .. Len(control[i].body) + 1
    BY DEF TypeInv, ControlOK, FrameOK
  <2> QED BY <2>2, <2>3, <2>4 DEF TypeOK, TypeInv
<1> QED BY <1>1, ImportsInvariant, PTL

LEMMA NoneTwice ==
    ASSUME NEW S, NEW s \in Seq(S), \A i, j \in DOMAIN s : s[i] = s[j] => i = j
    PROVE  Distinct(s)
<1>1. Len(s) \in Nat /\ DOMAIN s = 1 .. Len(s) /\ s \in [1 .. Len(s) -> S]
    OBVIOUS
<1>2. ToSet(s) = {s[i] : i \in 1 .. Len(s)}
    BY <1>1 DEF ToSet
<1>3. s \in [1 .. Len(s) -> ToSet(s)] /\ \A y \in ToSet(s) : \E i \in 1 .. Len(s) : s[i] = y
    BY <1>1, <1>2
<1>4. s \in Bijection(1 .. Len(s), ToSet(s))
    BY <1>1, <1>3 DEF Bijection, Injection, Surjection, IsInjective
<1>5. ExistsBijection(1 .. Len(s), ToSet(s))
    BY <1>4 DEF ExistsBijection
<1> QED BY <1>1, <1>5, FS_CountingElements DEF Distinct

(* However files open each other, none is executed while it waits for a    *)
(* module to return, and the import stack is that of the waiting files.    *)
THEOREM NoFileWaits == Spec => []NoFileWaitsForItself
<1>1. IInv => NoFileWaitsForItself
  <2> SUFFICES ASSUME IInv, Running
               PROVE  /\ Len(Self.stack) = OpenFiles(Len(control))
                      /\ \A i \in DOMAIN control : control[i].role = "file" =>
                            Self.stack[OpenFiles(i)] = evaluators[control[i].ev].file
                      /\ Distinct(Self.stack)
    BY DEF NoFileWaitsForItself
  <2>1. TypeInv /\ StacksFollow
    BY DEF IInv, Structure
  <2>2. PICK n \in DOMAIN control : n = Len(control) /\ DOMAIN control = 1 .. n /\ n \in Nat
    BY <2>1, TopFacts
  <2>3. Self.stack = StackOf(n) /\ Self.stack \in Seq(Files)
    BY <2>1, <2>2, TopFacts, SelfFacts DEF StackOf, Self, EvaluatorOK
  <2>4. \A i : OpenFiles(i) = FilesIn(control, i)
    BY DEF OpenFiles, FilesIn
  <2>5. Len(Self.stack) = OpenFiles(Len(control))
    BY <2>1, <2>2, <2>3, <2>4 DEF StacksFollow
  <2>6. ASSUME NEW i \in DOMAIN control
        PROVE  Self.stack[OpenFiles(i)] = evaluators[control[i].ev].file
    <3>1. /\ Len(StackOf(i)) = OpenFiles(i)
          /\ StackOf(i)[OpenFiles(i)] = evaluators[control[i].ev].file
        BY <2>1, <2>4 DEF StacksFollow
    <3>2. CASE i = n
        BY <2>3, <3>1, <3>2
    <3>3. CASE i # n
      <4>1. i < n
        BY <2>2, <3>3
      <4>2. OpenFiles(i) \in DOMAIN StackOf(i)
        <5>1. StackOf(i) \in Seq(Files)
            BY <2>1, FrameFacts, EvaluatorFacts DEF StackOf, EvaluatorOK
        <5>2. FilesIn(control, 1) >= 1 /\ FilesIn(control, 1) <= FilesIn(control, i)
            <6>1. control[1].role = "file" /\ FilesIn(control, 0) \in Nat /\ i \in Nat /\ 1 <= i
                BY <2>2, FilesFinite DEF IInv, Structure, FramesFollow
            <6>2. FilesIn(control, 0 + 1) = FilesIn(control, 0) + 1
                BY <6>1, FilesFollow
            <6> QED BY <6>1, <6>2, FilesGrow
        <5>3. FilesIn(control, i) \in Nat /\ FilesIn(control, 1) \in Nat
            BY <2>2, FilesFinite
        <5>4. FilesIn(control, i) \in 1 .. Len(StackOf(i))
            BY <5>2, <5>3, <2>4, <3>1
        <5> QED BY <2>4, <5>1, <5>4
      <4>3. StackOf(n)[OpenFiles(i)] = StackOf(i)[OpenFiles(i)]
        BY <2>1, <4>1, <4>2 DEF StacksFollow
      <4> QED BY <2>3, <3>1, <4>3
    <3> QED BY <3>2, <3>3
  <2>7. Distinct(Self.stack)
    <3>1. \A j, k \in DOMAIN Self.stack : Self.stack[j] = Self.stack[k] => j = k
        BY <2>1, <2>3 DEF StacksFollow
    <3> QED BY <2>3, <3>1, NoneTwice
  <2> QED BY <2>5, <2>6, <2>7
<1> QED BY <1>1, ImportsInvariant, PTL

(* Calls, within an evaluator and across modules, pop the scopes they      *)
(* pushed, where they pushed them.                                         *)
THEOREM ScopesFollow == Spec => []ScopesFollowCalls
<1>1. IInv => ScopesFollowCalls
    BY DEF IInv, Structure, ScopesFollowCalls
<1> QED BY <1>1, ImportsInvariant, PTL

(* A nested function, and a function of a module, reads under the names    *)
(* visible where it was declared the values they had there, in whichever   *)
(* evaluator it runs.                                                      *)
THEOREM FunctionsRead == Spec => []FunctionsReadTheirModule
<1>1. IInv => FunctionsReadTheirModule
    BY DEF IInv, ReadsSeen
<1> QED BY <1>1, ImportsInvariant, PTL

(* A message run by another evaluator than its module's reads the bindings *)
(* of its module.                                                          *)
THEOREM MessagesRead == Spec => []MessagesReadTheirModule
<1>1. IInv => MessagesReadTheirModule
    BY DEF IInv
<1> QED BY <1>1, ImportsInvariant, PTL
=============================================================================
