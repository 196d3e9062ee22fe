------------------------- MODULE ControlFlowProofs -------------------------
(* For every set of programs: the scopes of the evaluator stay nested, every  *)
(* finally block is begun once, and no error is lost.                         *)
EXTENDS ControlFlow, FiniteSetTheorems, SequenceTheorems, TLAPS

-----------------------------------------------------------------------------
(* The stack of constructs.                                                  *)

\* A construct that goes on with other statements is still that construct.
LEMMA FrameGoesOn ==
  ASSUME NEW f \in Frame, NEW block \in Block
  PROVE  /\ [f EXCEPT !.rest = block] \in Frame
         /\ [f EXCEPT !.rest = block].rest = block
         /\ \A field \in DOMAIN f \ {"rest"} : [f EXCEPT !.rest = block][field] = f[field]
BY DEF Frame

LEMMA FrameFields ==
  ASSUME NEW f \in Frame
  PROVE  /\ f.rest \in Block /\ f.outer \in Stack
         /\ f.construct = "for" => f.body \in Block /\ f.name \in Name /\ f.byRef \in BOOLEAN /\ f.left \in Nat
         /\ f.construct = "while" => f.body \in Block /\ f.left \in Nat
         /\ f.construct = "try" => f.body \in Block /\ f.catches \in Seq(CatchClause) /\ f.finally \in Block
         /\ f.construct = "catch" => f.finally \in Block
         /\ f.construct = "finally" => f.body \in Block /\ f.pending \in Outcome \ {Running}
         /\ f.construct = "match" => f.result \in Type /\ f.returns \in BOOLEAN
         /\ f.construct = "call" => f.gives \in Type \cup {None} /\ f.returns \in BOOLEAN
BY DEF Frame

LEMMA TopGoesOn ==
  ASSUME NEW s \in Seq(Frame), s # <<>>, NEW block \in Block
  PROVE  LET t == [s EXCEPT ![Len(s)].rest = block]
         IN  /\ t \in Seq(Frame) /\ Len(t) = Len(s) /\ t # <<>>
             /\ \A i \in 1..(Len(s) - 1) : t[i] = s[i]
             /\ t[Len(s)] = [s[Len(s)] EXCEPT !.rest = block]
<1> DEFINE n == Len(s)
           g == [s[n] EXCEPT !.rest = block]
<1>1. n \in 1..Len(s) /\ s[n] \in Frame
  OBVIOUS
<1>2. g \in Frame
  BY <1>1, FrameGoesOn
<1>3. [s EXCEPT ![Len(s)].rest = block] = [s EXCEPT ![n] = g]
  BY <1>1
<1> HIDE DEF g
<1> QED
  BY <1>1, <1>2, <1>3 DEF g

-----------------------------------------------------------------------------
(* Scopes and constructs nest.                                               *)

\* The scopes a construct has opened for the block that runs.
Opened(f) ==
  CASE f.construct \in {"program", "while"} -> 0
    [] f.construct = "for" -> IF f.byRef THEN 2 ELSE 1
    [] f.construct \in {"try", "finally"} -> Scoped(f.body)
    [] OTHER -> 1

\* What is open inside a construct: its own scopes over those it began with.
\* The last of these may have got new names from a block without a scope.
Keeps(f, inner) ==
  /\ Len(f.outer) > 0
  /\ Len(inner) = Len(f.outer) + Opened(f)
  /\ \A k \in 1..(Len(f.outer) - 1) : inner[k] = f.outer[k]
  /\ f.outer[Len(f.outer)] \subseteq inner[Len(f.outer)]
  /\ f.construct \notin {"while", "program"} =>
       inner[Len(f.outer)] = f.outer[Len(f.outer)]

\* execute_scoped has no scope for an empty block, in which nothing happens.
Empty(f) == f.construct \in {"try", "finally"} /\ f.body = <<>>

Inside(s, innermost, i) == IF i = Len(s) THEN innermost ELSE s[i + 1].outer

Nests(s, innermost) ==
  \A i \in 1..Len(s) :
    /\ Keeps(s[i], Inside(s, innermost, i))
    /\ Empty(s[i]) => i = Len(s) /\ s[i].rest = <<>>

\* The part of the invariant that is about the two stacks.
Shape ==
  /\ frames \in Seq(Frame)
  /\ \A i \in DOMAIN frames : frames[i].construct = "program" <=> i = 1
  /\ scopes \in Stack /\ scopes # <<>>
  /\ Nests(frames, scopes)

LEMMA OpenedNat == ASSUME NEW f \in Frame PROVE Opened(f) \in 0..2
BY FrameFields DEF Opened, Scoped, ScopeFor

\* A construct that is left leaves the scopes it began with.
LEMMA PoppedKeeps ==
  ASSUME NEW f \in Frame, NEW inner \in Stack, Keeps(f, inner)
  PROVE  LET popped == SubSeq(inner, 1, Len(inner) - Opened(f))
         IN  /\ popped \in Stack /\ popped # <<>> /\ Len(popped) = Len(f.outer)
             /\ \A k \in 1..(Len(f.outer) - 1) : popped[k] = f.outer[k]
             /\ f.outer[Len(f.outer)] \subseteq popped[Len(f.outer)]
             /\ f.construct \notin {"while", "program"} => popped = f.outer
<1>1. Opened(f) \in Nat /\ f.outer \in Stack
  BY OpenedNat, FrameFields
<1>2. Len(inner) - Opened(f) = Len(f.outer) /\ Len(f.outer) \in Nat \ {0} /\ Len(f.outer) <= Len(inner)
  BY <1>1 DEF Keeps, Stack
<1> DEFINE popped == SubSeq(inner, 1, Len(f.outer))
<1>3. popped \in Stack /\ Len(popped) = Len(f.outer) /\ \A k \in 1..Len(f.outer) : popped[k] = inner[k]
  BY <1>2 DEF Stack
<1>4. ASSUME f.construct \notin {"while", "program"} PROVE popped = f.outer
  <2>1. \A k \in 1..Len(f.outer) : popped[k] = f.outer[k]
    BY <1>2, <1>3, <1>4 DEF Keeps
  <2> HIDE DEF popped
  <2> QED
    BY <1>1, <1>2, <1>3, <2>1 DEF Stack
<1>5. popped # <<>>
  BY <1>2, <1>3
<1> QED
  BY <1>2, <1>3, <1>4, <1>5 DEF Keeps

\* The top construct goes on.
LEMMA NestsInPlace ==
  ASSUME NEW s \in Seq(Frame), NEW t \in Seq(Frame), s # <<>>, Len(t) = Len(s),
         \A i \in 1..(Len(s) - 1) : t[i] = s[i],
         t[Len(s)].outer = s[Len(s)].outer,
         NEW a, NEW b, Nests(s, a), Keeps(t[Len(s)], b),
         Empty(t[Len(s)]) => t[Len(s)].rest = <<>>
  PROVE  Nests(t, b)
<1> SUFFICES ASSUME NEW i \in 1..Len(t)
             PROVE  /\ Keeps(t[i], Inside(t, b, i))
                    /\ Empty(t[i]) => i = Len(t) /\ t[i].rest = <<>>
  BY DEF Nests
<1>1. CASE i = Len(t)
  BY <1>1 DEF Inside
<1>2. CASE i < Len(t)
  <2>1. t[i] = s[i] /\ Inside(t, b, i) = Inside(s, a, i)
    BY <1>2 DEF Inside
  <2> QED
    BY <1>2, <2>1 DEF Nests
<1> QED
  BY <1>1, <1>2

\* A construct is entered from a statement of the one around it.
LEMMA NestsEnter ==
  ASSUME NEW s \in Seq(Frame), NEW f \in Frame, s # <<>>, ~Empty(s[Len(s)]),
         NEW a, NEW b, Nests(s, a), f.outer = a, Keeps(f, b), Empty(f) => f.rest = <<>>
  PROVE  Nests(Append(s, f), b)
<1> DEFINE t == Append(s, f)
<1>0. t \in Seq(Frame) /\ Len(t) = Len(s) + 1 /\ t[Len(t)] = f /\ \A i \in 1..Len(s) : t[i] = s[i]
  OBVIOUS
<1> HIDE DEF t
<1> SUFFICES ASSUME NEW i \in 1..Len(t)
             PROVE  /\ Keeps(t[i], Inside(t, b, i))
                    /\ Empty(t[i]) => i = Len(t) /\ t[i].rest = <<>>
  BY DEF Nests, t
<1>1. CASE i = Len(t)
  BY <1>0, <1>1 DEF Inside
<1>2. CASE i < Len(t)
  <2>1. i \in 1..Len(s) /\ t[i] = s[i] /\ Inside(t, b, i) = Inside(s, a, i)
    BY <1>0, <1>2 DEF Inside
  <2> QED
    BY <1>2, <2>1 DEF Nests
<1> QED
  BY <1>0, <1>1, <1>2

\* The constructs below the top one.
LEMMA FrontOfStack ==
  ASSUME NEW S, NEW s \in Seq(S), s # <<>>
  PROVE  /\ Front(s) \in Seq(S) /\ Len(Front(s)) = Len(s) - 1
         /\ \A i \in 1..(Len(s) - 1) : Front(s)[i] = s[i]
         /\ Last(s) = s[Len(s)] /\ Last(s) \in S
<1>1. Len(s) \in Nat \ {0} /\ s[Len(s)] \in S
  OBVIOUS
<1>2. Front(s) = SubSeq(s, 1, Len(s) - 1) /\ Last(s) = s[Len(s)]
  BY DEF Front, Last
<1>3. /\ SubSeq(s, 1, Len(s) - 1) \in Seq(S) /\ Len(SubSeq(s, 1, Len(s) - 1)) = Len(s) - 1
      /\ \A i \in 1..(Len(s) - 1) : SubSeq(s, 1, Len(s) - 1)[i] = s[i]
  BY <1>1, SubSeqProperties
<1> QED
  BY <1>1, <1>2, <1>3

LEMMA FrontOfScopes ==
  ASSUME NEW s \in Stack, s # <<>>
  PROVE  /\ Front(s) \in Stack /\ Len(Front(s)) = Len(s) - 1
         /\ \A i \in 1..(Len(s) - 1) : Front(s)[i] = s[i]
         /\ Last(s) = s[Len(s)]
BY FrontOfStack DEF Stack

\* A construct is replaced by one that began with the same scopes.
LEMMA NestsReplace ==
  ASSUME NEW s \in Seq(Frame), NEW f \in Frame, s # <<>>,
         NEW a, NEW b, Nests(s, a), f.outer = s[Len(s)].outer, Keeps(f, b),
         Empty(f) => f.rest = <<>>
  PROVE  Nests(Append(Front(s), f), b)
<1> DEFINE t == Append(Front(s), f)
<1>1. t \in Seq(Frame) /\ Len(t) = Len(s) /\ t[Len(s)] = f /\ \A i \in 1..(Len(s) - 1) : t[i] = s[i]
  BY FrontOfStack
<1> HIDE DEF t
<1> QED
  BY <1>1, NestsInPlace DEF t

\* The top construct is left.
LEMMA NestsLeave ==
  ASSUME NEW s \in Seq(Frame), NEW a \in Stack, Nests(s, a), s # <<>>,
         s[Len(s)].construct # "program"
  PROVE  Nests(Front(s), SubSeq(a, 1, Len(a) - Opened(s[Len(s)])))
<1> DEFINE t == Front(s)
           f == s[Len(s)]
           b == SubSeq(a, 1, Len(a) - Opened(f))
<1>0. t \in Seq(Frame) /\ Len(t) = Len(s) - 1 /\ \A i \in 1..Len(t) : t[i] = s[i]
  BY FrontOfStack
<1>1. f \in Frame /\ Keeps(f, a) /\ f.construct # "program" /\ f.outer \in Stack
  <2>1. Len(s) \in 1..Len(s) /\ Inside(s, a, Len(s)) = a
    BY DEF Inside
  <2> QED
    BY <2>1, FrameFields DEF Nests
<1>2. /\ b \in Stack /\ Len(b) = Len(f.outer) /\ Len(f.outer) > 0
      /\ \A k \in 1..(Len(f.outer) - 1) : b[k] = f.outer[k]
      /\ f.outer[Len(f.outer)] \subseteq b[Len(f.outer)]
  BY <1>1, PoppedKeeps DEF Keeps
<1> HIDE DEF t, b
<1> SUFFICES ASSUME NEW i \in 1..Len(t)
             PROVE  /\ Keeps(t[i], Inside(t, b, i))
                    /\ Empty(t[i]) => i = Len(t) /\ t[i].rest = <<>>
  BY DEF Nests, t, b
<1>3. /\ i \in 1..Len(s) /\ i # Len(s) /\ t[i] = s[i] /\ ~Empty(s[i])
      /\ Inside(s, a, i) = s[i + 1].outer /\ Keeps(s[i], s[i + 1].outer)
  BY <1>0 DEF Nests, Inside
<1>4. CASE i < Len(t)
  <2>1. Inside(t, b, i) = s[i + 1].outer
    BY <1>0, <1>4 DEF Inside
  <2> QED
    BY <1>3, <2>1
<1>5. CASE i = Len(t)
  <2>1. Inside(t, b, i) = b /\ s[i + 1] = f
    BY <1>0, <1>5 DEF Inside
  <2>2. s[i] \in Frame /\ s[i].outer \in Stack /\ Opened(s[i]) \in 0..2
    BY <1>3, FrameFields, OpenedNat
  <2>3. CASE Opened(s[i]) > 0
    <3> DEFINE m == Len(s[i].outer)
    <3>1. m \in Nat \ {0} /\ m < Len(f.outer) /\ Len(f.outer) = Len(b)
      BY <1>2, <1>3, <1>5, <2>1, <2>2, <2>3 DEF Keeps, Stack
    <3>2. \A k \in 1..m : b[k] = s[i + 1].outer[k]
      BY <1>2, <2>1, <3>1
    <3>3. s[i + 1].outer = f.outer
      BY <2>1
    <3>4. m \in 1..m /\ 1..(m - 1) \subseteq 1..m
      BY <3>1
    <3>5. Keeps(s[i], b)
      BY <1>3, <3>1, <3>2, <3>3, <3>4 DEF Keeps
    <3> QED
      BY <1>3, <2>1, <3>5
  <2>4. CASE Opened(s[i]) = 0
    <3>1. s[i].construct \in {"program", "while"}
      BY <1>3, <2>2, <2>4 DEF Opened, Scoped, ScopeFor, Empty, Frame
    <3> QED
      BY <1>2, <1>3, <2>1, <2>2, <2>4, <3>1 DEF Keeps, Stack
  <2> QED
    BY <2>2, <2>3, <2>4, <1>3
<1> QED
  BY <1>4, <1>5, <1>0

-----------------------------------------------------------------------------
(* How many constructs of a kind are open.                                   *)

Marked(s, K) == {i \in DOMAIN s : s[i] \in K}
Count(s, K) == Cardinality(Marked(s, K))
One(condition) == IF condition THEN 1 ELSE 0

\* Statements whose finally block is still due; finally blocks that hold an error.
Due == {f \in Frame : f.construct \in {"try", "catch"}}
Holding == {f \in Frame : f.construct = "finally" /\ Failed(f.pending)}

\* What the ledger says of them.
Balanced ==
  /\ ledger.due - ledger.begun = Count(frames, Due)
  /\ ledger.raised - ledger.settled = Count(frames, Holding) + One(Failed(outcome))

Ledger == [due : Nat, begun : Nat, raised : Nat, settled : Nat]

IInv == Shape /\ program \in Block /\ outcome \in Outcome /\ ledger \in Ledger /\ Balanced

LEMMA MarkedFinite ==
  ASSUME NEW S, NEW s \in Seq(S), NEW K
  PROVE  /\ Marked(s, K) \subseteq 1..Len(s)
         /\ IsFiniteSet(Marked(s, K)) /\ Count(s, K) \in Nat
<1>1. Marked(s, K) \subseteq 1..Len(s) /\ Len(s) \in Nat
  BY DEF Marked
<1>2. IsFiniteSet(1..Len(s))
  BY <1>1, FS_Interval
<1> QED
  BY <1>1, <1>2, FS_Subset, FS_CardinalityType DEF Count

LEMMA CountAppend ==
  ASSUME NEW S, NEW s \in Seq(S), NEW f \in S, NEW K
  PROVE  Count(Append(s, f), K) = Count(s, K) + One(f \in K)
<1> DEFINE n == Len(s) + 1
           t == Append(s, f)
<1>1. t \in Seq(S) /\ DOMAIN t = 1..n /\ DOMAIN s = 1..Len(s) /\ t[n] = f /\ n \in 1..n
        /\ n \notin 1..Len(s) /\ \A i \in 1..Len(s) : t[i] = s[i] /\ i \in 1..n
  OBVIOUS
<1>2. \A i \in 1..n : i = n \/ i \in 1..Len(s)
  OBVIOUS
<1> HIDE DEF t, n
<1>3. n \notin Marked(s, K) /\ IsFiniteSet(Marked(s, K)) /\ Count(s, K) \in Nat
  BY <1>1, MarkedFinite
<1>4. CASE f \in K
  <2>1. Marked(t, K) = Marked(s, K) \cup {n}
    BY <1>1, <1>2, <1>4 DEF Marked
  <2> QED
    BY <1>3, <1>4, <2>1, FS_AddElement DEF Count, One, t
<1>5. CASE f \notin K
  <2>1. Marked(t, K) = Marked(s, K)
    BY <1>1, <1>2, <1>5 DEF Marked
  <2> QED
    BY <1>3, <1>5, <2>1 DEF Count, One, t
<1> QED
  BY <1>4, <1>5

LEMMA CountFront ==
  ASSUME NEW S, NEW s \in Seq(S), NEW K, s # <<>>
  PROVE  Count(s, K) = Count(Front(s), K) + One(s[Len(s)] \in K)
<1>1. Front(s) \in Seq(S) /\ s[Len(s)] \in S
  BY FrontOfStack
<1>2. s = Append(Front(s), s[Len(s)])
  BY FrontOfStack, <1>1
<1> QED
  BY <1>1, <1>2, CountAppend

LEMMA CountSame ==
  ASSUME NEW S, NEW s \in Seq(S), NEW t \in Seq(S), NEW K, Len(t) = Len(s),
         \A i \in 1..Len(s) : t[i] \in K <=> s[i] \in K
  PROVE  Count(t, K) = Count(s, K)
<1>1. DOMAIN t = 1..Len(s) /\ DOMAIN s = 1..Len(s)
  OBVIOUS
<1>2. Marked(t, K) = Marked(s, K)
  BY <1>1 DEF Marked
<1> QED
  BY <1>2 DEF Count

-----------------------------------------------------------------------------
(* The steps the actions are made of.                                        *)

LEMMA TopFacts ==
  ASSUME Shape, frames # <<>>
  PROVE  /\ Len(frames) \in Nat \ {0} /\ Top = frames[Len(frames)] /\ Top \in Frame
         /\ Keeps(Top, scopes)
         /\ Empty(Top) => Top.rest = <<>>
         /\ Top.construct = "program" <=> Len(frames) = 1
<1>1. Len(frames) \in 1..Len(frames) /\ DOMAIN frames = 1..Len(frames)
  BY DEF Shape
<1>2. Top = frames[Len(frames)] /\ Top \in Frame
  BY FrontOfStack DEF Shape, Top
<1>3. Inside(frames, scopes, Len(frames)) = scopes
  BY DEF Inside
<1>4. Keeps(Top, scopes) /\ (Empty(Top) => Top.rest = <<>>)
  BY <1>1, <1>2, <1>3 DEF Shape, Nests
<1>5. Top.construct = "program" <=> Len(frames) = 1
  BY <1>1, <1>2 DEF Shape
<1> QED
  BY <1>1, <1>2, <1>4, <1>5

\* A stack whose top construct has other statements left.
WithRest(s, block) == [s EXCEPT ![Len(s)].rest = block]

LEMMA AdvancedIsWithRest ==
  ASSUME Shape, frames # <<>>
  PROVE  Advanced = WithRest(frames, Tail(Top.rest))
BY TopFacts DEF Advanced, WithRest, Shape

LEMMA StoppedIsWithRest ==
  ASSUME NEW s \in Seq(Frame), s # <<>>
  PROVE  Stopped(s) = WithRest(s, <<>>)
BY DEF Stopped, WithRest

LEMMA RestKeepsKind ==
  ASSUME NEW f \in Frame, NEW block \in Block
  PROVE  LET g == [f EXCEPT !.rest = block]
         IN  /\ g \in Frame /\ g.rest = block /\ g.construct = f.construct /\ g.outer = f.outer
             /\ Opened(g) = Opened(f) /\ (Empty(g) <=> Empty(f))
             /\ \A inner : Keeps(g, inner) <=> Keeps(f, inner)
             /\ \A K \in {Due, Holding} : g \in K <=> f \in K
<1> DEFINE g == [f EXCEPT !.rest = block]
<1>1. /\ g \in Frame /\ g.rest = block
      /\ \A field \in DOMAIN f \ {"rest"} : g[field] = f[field]
  BY FrameGoesOn
<1>2. g.construct = f.construct /\ g.outer = f.outer
  BY <1>1 DEF Frame
<1>3. f.construct \in {"try", "finally"} => g.body = f.body
  BY <1>1 DEF Frame
<1>4. f.construct = "for" => g.byRef = f.byRef
  BY <1>1 DEF Frame
<1>5. f.construct = "finally" => g.pending = f.pending
  BY <1>1 DEF Frame
<1> HIDE DEF g
<1>6. Opened(g) = Opened(f)
  BY <1>2, <1>3, <1>4 DEF Opened
<1>7. Empty(g) <=> Empty(f)
  BY <1>2, <1>3 DEF Empty
<1>8. \A inner : Keeps(g, inner) <=> Keeps(f, inner)
  BY <1>2, <1>6 DEF Keeps
<1>9. \A K \in {Due, Holding} : g \in K <=> f \in K
  BY <1>1, <1>2, <1>5 DEF Due, Holding
<1> QED
  BY <1>1, <1>2, <1>6, <1>7, <1>8, <1>9 DEF g

LEMMA WithRestFacts ==
  ASSUME NEW s \in Seq(Frame), s # <<>>, NEW block \in Block
  PROVE  LET t == WithRest(s, block)
         IN  /\ t \in Seq(Frame) /\ Len(t) = Len(s) /\ t # <<>>
             /\ \A i \in 1..(Len(s) - 1) : t[i] = s[i]
             /\ t[Len(s)] = [s[Len(s)] EXCEPT !.rest = block]
             /\ \A i \in 1..Len(s) : t[i].construct = s[i].construct
             /\ \A K \in {Due, Holding} : Count(t, K) = Count(s, K)
<1> DEFINE t == WithRest(s, block)
<1>1. /\ t \in Seq(Frame) /\ Len(t) = Len(s) /\ t # <<>>
      /\ \A i \in 1..(Len(s) - 1) : t[i] = s[i]
      /\ t[Len(s)] = [s[Len(s)] EXCEPT !.rest = block]
  BY TopGoesOn DEF WithRest
<1> HIDE DEF t
<1>2. Len(s) \in Nat \ {0} /\ s[Len(s)] \in Frame /\ \A i \in 1..Len(s) : i = Len(s) \/ i \in 1..(Len(s) - 1)
  OBVIOUS
<1>3. \A i \in 1..Len(s) : t[i].construct = s[i].construct
  <2>1. t[Len(s)].construct = s[Len(s)].construct
    BY <1>1, <1>2, RestKeepsKind
  <2> QED
    BY <1>1, <1>2, <2>1
<1>4. ASSUME NEW K \in {Due, Holding} PROVE Count(t, K) = Count(s, K)
  <2>1. \A i \in 1..Len(s) : t[i] \in K <=> s[i] \in K
    BY <1>1, <1>2, RestKeepsKind
  <2> QED
    BY <1>1, <2>1, CountSame
<1> QED
  BY <1>1, <1>3, <1>4 DEF t

LEMMA NestsWithRest ==
  ASSUME NEW s \in Seq(Frame), s # <<>>, NEW block \in Block, NEW a, NEW b,
         Nests(s, a), Keeps(s[Len(s)], b), Empty(s[Len(s)]) => block = <<>>
  PROVE  Nests(WithRest(s, block), b)
<1> DEFINE t == WithRest(s, block)
<1>1. /\ t \in Seq(Frame) /\ Len(t) = Len(s) /\ t # <<>>
      /\ \A i \in 1..(Len(s) - 1) : t[i] = s[i]
      /\ t[Len(s)] = [s[Len(s)] EXCEPT !.rest = block]
  BY WithRestFacts
<1>2. s[Len(s)] \in Frame
  OBVIOUS
<1> HIDE DEF t
<1>3. /\ t[Len(s)].outer = s[Len(s)].outer /\ Keeps(t[Len(s)], b)
      /\ Empty(t[Len(s)]) => t[Len(s)].rest = <<>>
  BY <1>1, <1>2, RestKeepsKind
<1> QED
  BY <1>1, <1>3, NestsInPlace DEF t

\* The top construct goes on, with the same scopes or with changes in its own.
LEMMA GoesOn ==
  ASSUME Shape, frames # <<>>, NEW block \in Block, Empty(Top) => block = <<>>,
         frames' = WithRest(frames, block),
         scopes' \in Stack, scopes' # <<>>, Keeps(Top, scopes')
  PROVE  /\ Shape' /\ Len(frames') = Len(frames)
         /\ \A K \in {Due, Holding} : Count(frames', K) = Count(frames, K)
<1>1. frames \in Seq(Frame) /\ Top = frames[Len(frames)] /\ Nests(frames, scopes)
  BY TopFacts DEF Shape
<1>2. /\ frames' \in Seq(Frame) /\ Len(frames') = Len(frames)
      /\ \A i \in 1..Len(frames) : frames'[i].construct = frames[i].construct
      /\ \A K \in {Due, Holding} : Count(frames', K) = Count(frames, K)
  BY <1>1, WithRestFacts
<1>3. Nests(frames', scopes')
  BY <1>1, NestsWithRest
<1>4. DOMAIN frames' = 1..Len(frames) /\ DOMAIN frames = 1..Len(frames)
  BY <1>1, <1>2
<1> QED
  BY <1>2, <1>3, <1>4 DEF Shape

\* The innermost scope gets more names.
LEMMA KeepsMoreNames ==
  ASSUME NEW f \in Frame, NEW a \in Stack, NEW b \in Stack, Keeps(f, a), Len(b) = Len(a),
         \A k \in 1..(Len(a) - 1) : b[k] = a[k], a[Len(a)] \subseteq b[Len(a)],
         Opened(f) = 0 => f.construct \in {"while", "program"}
  PROVE  Keeps(f, b)
<1> DEFINE m == Len(f.outer)
<1>1. m \in Nat \ {0} /\ Len(a) = m + Opened(f) /\ Len(a) \in Nat /\ Opened(f) \in Nat
  BY FrameFields, OpenedNat DEF Keeps, Stack
<1>2. CASE Opened(f) = 0
  BY <1>1, <1>2 DEF Keeps
<1>3. CASE Opened(f) > 0
  <2>1. m \in 1..(Len(a) - 1) /\ \A k \in 1..(m - 1) : k \in 1..(Len(a) - 1)
    BY <1>1, <1>3
  <2>2. b[m] = a[m] /\ \A k \in 1..(m - 1) : b[k] = a[k]
    BY <2>1
  <2> QED
    BY <1>1, <2>2 DEF Keeps
<1> QED
  BY <1>1, <1>2, <1>3

LEMMA Concatenated ==
  ASSUME NEW S, NEW s \in Seq(S), NEW t \in Seq(S)
  PROVE  /\ s \o t \in Seq(S) /\ Len(s \o t) = Len(s) + Len(t)
         /\ \A k \in 1..Len(s) : (s \o t)[k] = s[k]
BY ConcatProperties

\* A construct begins with the scopes of the one around it and some of its own.
LEMMA KeepsOpened ==
  ASSUME NEW f \in Frame, NEW opened \in Stack, f.outer # <<>>, Len(opened) = Opened(f)
  PROVE  /\ f.outer \o opened \in Stack /\ f.outer \o opened # <<>>
         /\ Keeps(f, f.outer \o opened)
<1>1. f.outer \in Stack /\ Opened(f) \in Nat /\ Len(f.outer) \in Nat \ {0}
  BY FrameFields, OpenedNat DEF Stack
<1> DEFINE inner == f.outer \o opened
<1>2. /\ inner \in Stack /\ Len(inner) = Len(f.outer) + Len(opened)
      /\ \A k \in 1..Len(f.outer) : inner[k] = f.outer[k]
  BY <1>1, Concatenated DEF Stack
<1> HIDE DEF inner
<1>3. inner # <<>>
  BY <1>1, <1>2 DEF Stack
<1>4. Len(f.outer) \in 1..Len(f.outer) /\ \A k \in 1..(Len(f.outer) - 1) : k \in 1..Len(f.outer)
  BY <1>1
<1>5. inner[Len(f.outer)] = f.outer[Len(f.outer)] /\ \A k \in 1..(Len(f.outer) - 1) : inner[k] = f.outer[k]
  BY <1>2, <1>4
<1>6. Keeps(f, inner)
  BY <1>1, <1>2, <1>5 DEF Keeps
<1> QED
  BY <1>2, <1>3, <1>6 DEF inner

\* A construct is entered.
LEMMA Enters ==
  ASSUME Shape, frames # <<>>, Top.rest # <<>>,
         NEW f \in Frame, NEW opened \in Stack, Enter(f, opened),
         f.outer = scopes, f.construct # "program", Len(opened) = Opened(f),
         Empty(f) => f.rest = <<>>
  PROVE  /\ Shape' /\ Len(frames') = Len(frames) + 1 /\ outcome' = Running
         /\ \A K \in {Due, Holding} : Count(frames', K) = Count(frames, K) + One(f \in K)
<1> DEFINE s == Advanced
<1>1. /\ frames \in Seq(Frame) /\ Top = frames[Len(frames)] /\ Top \in Frame /\ Nests(frames, scopes)
      /\ Keeps(Top, scopes) /\ ~Empty(Top) /\ Len(frames) \in Nat \ {0}
  BY TopFacts DEF Shape
<1>2. Tail(Top.rest) \in Block /\ s = WithRest(frames, Tail(Top.rest))
  BY <1>1, FrameFields, AdvancedIsWithRest DEF Block
<1>3. /\ s \in Seq(Frame) /\ Len(s) = Len(frames) /\ s # <<>>
      /\ s[Len(s)] = [Top EXCEPT !.rest = Tail(Top.rest)]
      /\ \A i \in 1..Len(frames) : s[i].construct = frames[i].construct
      /\ \A K \in {Due, Holding} : Count(s, K) = Count(frames, K)
  <2> DEFINE t == WithRest(frames, Tail(Top.rest))
  <2>1. /\ t \in Seq(Frame) /\ Len(t) = Len(frames) /\ t # <<>>
        /\ t[Len(frames)] = [frames[Len(frames)] EXCEPT !.rest = Tail(Top.rest)]
        /\ \A i \in 1..Len(frames) : t[i].construct = frames[i].construct
        /\ \A K \in {Due, Holding} : Count(t, K) = Count(frames, K)
    BY <1>1, <1>2, WithRestFacts
  <2> HIDE DEF t
  <2>2. s = t
    BY <1>2 DEF t
  <2> HIDE DEF s
  <2> QED
    BY <1>1, <2>1, <2>2
<1>4. ~Empty(s[Len(s)])
  <2>1. Empty([Top EXCEPT !.rest = Tail(Top.rest)]) <=> Empty(Top)
    BY <1>1, <1>2, RestKeepsKind
  <2> QED
    BY <1>1, <1>3, <2>1
<1>5. Nests(s, scopes)
  BY <1>1, <1>2, NestsWithRest
<1> HIDE DEF s
<1>6. frames' = Append(s, f) /\ scopes' = f.outer \o opened /\ outcome' = Running
  BY DEF Enter, s
<1>7. scopes' \in Stack /\ scopes' # <<>> /\ Keeps(f, scopes')
  BY <1>6, KeepsOpened DEF Shape
<1>8. Nests(frames', scopes')
  BY <1>3, <1>4, <1>5, <1>6, <1>7, NestsEnter
<1>9. \A K \in {Due, Holding} : Count(frames', K) = Count(frames, K) + One(f \in K)
  BY <1>3, <1>6, CountAppend
<1>10. /\ frames' \in Seq(Frame) /\ Len(frames') = Len(frames) + 1
       /\ DOMAIN frames' = 1..(Len(frames) + 1) /\ DOMAIN frames = 1..Len(frames)
       /\ frames'[Len(frames) + 1] = f /\ \A i \in 1..Len(frames) : frames'[i] = s[i]
  BY <1>1, <1>3, <1>6
<1>11. \A i \in DOMAIN frames' : frames'[i].construct = "program" <=> i = 1
  BY <1>1, <1>3, <1>10 DEF Shape
<1> QED
  BY <1>6, <1>7, <1>8, <1>9, <1>10, <1>11 DEF Shape

\* A construct is left for the one around it.
LEMMA Leaves ==
  ASSUME Shape, frames # <<>>, Top.construct # "program",
         NEW result \in Outcome \ {Running}, Leave(result), scopes' = Popped(Opened(Top))
  PROVE  /\ Shape' /\ RestoresScopes /\ Len(frames') = Len(frames) - 1
         /\ outcome' = IF result = Normal THEN Running ELSE result
         /\ outcome' \in Outcome
         /\ \A K \in {Due, Holding} : Count(frames, K) = Count(frames', K) + One(Top \in K)
<1> DEFINE s == Front(frames)
<1>1. /\ frames \in Seq(Frame) /\ Top = frames[Len(frames)] /\ Top \in Frame /\ Nests(frames, scopes)
      /\ Keeps(Top, scopes) /\ Len(frames) \in Nat \ {0} /\ Len(frames) # 1 /\ scopes \in Stack
      /\ Last(frames) = Top
  BY TopFacts DEF Shape, Top
<1>2. /\ s \in Seq(Frame) /\ Len(s) = Len(frames) - 1 /\ \A i \in 1..(Len(frames) - 1) : s[i] = frames[i]
  BY <1>1, FrontOfStack
<1>3. /\ scopes' \in Stack /\ scopes' # <<>> /\ Len(scopes') = Len(Top.outer)
      /\ \A k \in 1..(Len(Top.outer) - 1) : scopes'[k] = Top.outer[k]
      /\ Top.outer[Len(Top.outer)] \subseteq scopes'[Len(Top.outer)]
      /\ Top.construct \notin {"while", "program"} => scopes' = Top.outer
  BY <1>1, PoppedKeeps DEF Popped
<1>4. Nests(s, scopes')
  BY <1>1, NestsLeave DEF Popped
<1>5. s # <<>> /\ s[Len(s)] \in Frame
  BY <1>1, <1>2
<1>6. \A K \in {Due, Holding} : Count(frames, K) = Count(s, K) + One(Top \in K)
  BY <1>1, CountFront
<1>7. <<>> \in Block /\ Keeps(s[Len(s)], scopes')
  <2>1. Len(s) \in 1..Len(s) /\ Inside(s, scopes', Len(s)) = scopes'
    BY <1>2, <1>5 DEF Inside
  <2> QED
    BY <1>4, <2>1 DEF Nests, Block
<1>8. frames' = s \/ frames' = WithRest(s, <<>>)
  BY <1>2, <1>5, StoppedIsWithRest DEF Leave
<1>9. /\ frames' \in Seq(Frame) /\ Len(frames') = Len(frames) - 1
      /\ \A i \in 1..(Len(frames) - 1) : frames'[i].construct = frames[i].construct
      /\ \A K \in {Due, Holding} : Count(frames', K) = Count(s, K)
  <2>1. CASE frames' = s
    BY <1>2, <2>1
  <2>2. CASE frames' = WithRest(s, <<>>)
    <3> DEFINE t == WithRest(s, <<>>)
    <3>1. /\ t \in Seq(Frame) /\ Len(t) = Len(s)
          /\ \A i \in 1..Len(s) : t[i].construct = s[i].construct
          /\ \A K \in {Due, Holding} : Count(t, K) = Count(s, K)
      BY <1>2, <1>5, <1>7, WithRestFacts
    <3> HIDE DEF t
    <3>2. frames' = t
      BY <2>2 DEF t
    <3> QED
      BY <1>2, <3>1, <3>2
  <2> QED
    BY <1>8, <2>1, <2>2
<1>10. Nests(frames', scopes')
  BY <1>2, <1>4, <1>5, <1>7, <1>8, NestsWithRest
<1>11. DOMAIN frames' = 1..(Len(frames) - 1) /\ DOMAIN frames = 1..Len(frames)
  BY <1>1, <1>9
<1>12. Shape'
  <2>1. \A i \in 1..Len(frames) : frames[i].construct = "program" <=> i = 1
    BY <1>1, <1>11 DEF Shape
  <2>2. \A i \in DOMAIN frames' : i \in 1..(Len(frames) - 1) /\ i \in 1..Len(frames)
    BY <1>1, <1>11
  <2>3. \A i \in DOMAIN frames' : frames'[i].construct = "program" <=> i = 1
    BY <1>9, <2>1, <2>2
  <2> QED
    BY <1>3, <1>9, <1>10, <2>3 DEF Shape
<1>13. RestoresScopes
  <2>1. Top.outer \in Stack /\ Top.outer # <<>> /\ Len(Top.outer) \in Nat \ {0}
    BY <1>1, FrameFields DEF Keeps, Stack
  <2>2. /\ Last(scopes') = scopes'[Len(Top.outer)] /\ Last(Top.outer) = Top.outer[Len(Top.outer)]
    BY <1>3, <2>1, FrontOfScopes
  <2>3. Front(scopes') = Front(Top.outer)
    <3> DEFINE a == Front(scopes')
               b == Front(Top.outer)
    <3>1. /\ a \in Stack /\ b \in Stack /\ Len(a) = Len(Top.outer) - 1 /\ Len(b) = Len(Top.outer) - 1
          /\ \A k \in 1..(Len(Top.outer) - 1) : a[k] = scopes'[k] /\ b[k] = Top.outer[k]
      <4>1. /\ a \in Stack /\ Len(a) = Len(Top.outer) - 1
            /\ \A k \in 1..(Len(Top.outer) - 1) : a[k] = scopes'[k]
        BY <1>3, FrontOfScopes
      <4>2. /\ b \in Stack /\ Len(b) = Len(Top.outer) - 1
            /\ \A k \in 1..(Len(Top.outer) - 1) : b[k] = Top.outer[k]
        BY <2>1, FrontOfScopes
      <4> QED
        BY <4>1, <4>2
    <3> HIDE DEF a, b
    <3>2. \A k \in 1..Len(a) : a[k] = b[k]
      BY <1>3, <3>1
    <3> QED
      BY <3>1, <3>2, SeqEqual DEF Stack, a, b
  <2> QED
    BY <1>1, <1>3, <2>2, <2>3 DEF RestoresScopes
<1>14. outcome' = IF result = Normal THEN Running ELSE result
  BY DEF Leave
<1> QED
  BY <1>6, <1>9, <1>12, <1>13, <1>14 DEF Outcome

\* A construct is replaced by another that began with the same scopes.
LEMMA Replaces ==
  ASSUME Shape, frames # <<>>, Top.construct \notin {"program", "while"},
         NEW f \in Frame, NEW opened \in Stack, f.outer = Top.outer, f.construct # "program",
         Len(opened) = Opened(f), Empty(f) => f.rest = <<>>,
         frames' = Append(Front(frames), f), scopes' = Popped(Opened(Top)) \o opened
  PROVE  /\ Shape' /\ Len(frames') = Len(frames)
         /\ \A K \in {Due, Holding} :
              Count(frames, K) + One(f \in K) = Count(frames', K) + One(Top \in K)
<1> DEFINE s == Front(frames)
<1>1. /\ frames \in Seq(Frame) /\ Top = frames[Len(frames)] /\ Top \in Frame /\ Nests(frames, scopes)
      /\ Keeps(Top, scopes) /\ Len(frames) \in Nat \ {0} /\ Len(frames) # 1 /\ scopes \in Stack
  BY TopFacts DEF Shape
<1>2. /\ s \in Seq(Frame) /\ Len(s) = Len(frames) - 1 /\ \A i \in 1..(Len(frames) - 1) : s[i] = frames[i]
  BY <1>1, FrontOfStack
<1>3. Popped(Opened(Top)) = Top.outer /\ Top.outer # <<>>
  BY <1>1, PoppedKeeps DEF Popped
<1>4. scopes' \in Stack /\ scopes' # <<>> /\ Keeps(f, scopes')
  BY <1>3, KeepsOpened
<1>5. Nests(frames', scopes')
  BY <1>1, <1>4, NestsReplace
<1>6. /\ frames' \in Seq(Frame) /\ Len(frames') = Len(frames)
      /\ frames'[Len(frames)] = f /\ \A i \in 1..(Len(frames) - 1) : frames'[i] = frames[i]
      /\ DOMAIN frames' = 1..Len(frames) /\ DOMAIN frames = 1..Len(frames)
  BY <1>1, <1>2
<1>7. \A K \in {Due, Holding} :
        Count(frames, K) + One(f \in K) = Count(frames', K) + One(Top \in K)
  <2> SUFFICES ASSUME NEW K \in {Due, Holding}
               PROVE  Count(frames, K) + One(f \in K) = Count(frames', K) + One(Top \in K)
    OBVIOUS
  <2>1. Count(frames, K) = Count(s, K) + One(Top \in K)
    BY <1>1, CountFront
  <2>2. Count(frames', K) = Count(s, K) + One(f \in K)
    BY <1>2, CountAppend
  <2>3. Count(s, K) \in Nat /\ One(Top \in K) \in Nat /\ One(f \in K) \in Nat
    BY <1>2, MarkedFinite DEF One
  <2> QED
    BY <2>1, <2>2, <2>3
<1>8. \A i \in DOMAIN frames' : frames'[i].construct = "program" <=> i = 1
  BY <1>1, <1>6 DEF Shape
<1> QED
  BY <1>4, <1>5, <1>6, <1>7, <1>8 DEF Shape

-----------------------------------------------------------------------------
(* The actions.                                                              *)

LEMMA OutcomeKinds ==
  ASSUME NEW o \in Outcome
  PROVE  /\ Failed(o) <=> \E c \in Code : o = Error(c)
         /\ o.flow = "Return" <=> \E t \in Type : o = Return(t)
         /\ o.flow = "Return" => o.type \in Type
         /\ Failed(o) => o.code \in Code
         /\ o \in {Running, Normal, Break, Continue} \/ o.flow = "Return" \/ Failed(o)
BY DEF Outcome, Failed, Running, Normal, Break, Continue, Return, Error

LEMMA Flows ==
  /\ Running.flow = "Running" /\ Normal.flow = "None"
  /\ Break.flow = "Break" /\ Continue.flow = "Continue"
  /\ \A t : Return(t).flow = "Return"
  /\ \A c : Error(c).flow = "Error"
BY DEF Running, Normal, Break, Continue, Return, Error

LEMMA OutcomesAre ==
  /\ {Running, Normal, Break, Continue} \subseteq Outcome
  /\ \A t \in Type : Return(t) \in Outcome
  /\ \A c \in Code : Error(c) \in Outcome
BY DEF Outcome

\* The statement at hand.
LEMMA HereFacts ==
  ASSUME Shape, NEW op, At(op)
  PROVE  /\ frames # <<>> /\ Top \in Frame /\ Top.rest # <<>> /\ ~Empty(Top)
         /\ Here \in Syntax /\ Here.op = op /\ outcome = Running
         /\ Tail(Top.rest) \in Block
<1>1. frames # <<>> /\ Top.rest # <<>> /\ Here.op = op /\ outcome = Running
  BY DEF At
<1>2. Top \in Frame /\ ~Empty(Top)
  BY <1>1, TopFacts
<1>3. Top.rest \in Seq(Stmt)
  BY <1>2, FrameFields DEF Block
<1>4. Here \in Stmt /\ Tail(Top.rest) \in Seq(Stmt)
  BY <1>1, <1>3 DEF Here
<1> QED
  BY <1>1, <1>2, <1>4, ProgramAssumption DEF Block

\* The top construct proceeds to the next statement.
LEMMA Proceeds ==
  ASSUME Shape, NEW op, At(op), Proceed, scopes' \in Stack, scopes' # <<>>, Keeps(Top, scopes')
  PROVE  /\ Shape' /\ Len(frames') = Len(frames) /\ outcome' = Running
         /\ \A K \in {Due, Holding} : Count(frames', K) = Count(frames, K)
<1>1. frames # <<>> /\ ~Empty(Top) /\ Tail(Top.rest) \in Block
  BY HereFacts
<1>2. frames' = WithRest(frames, Tail(Top.rest))
  BY <1>1, AdvancedIsWithRest DEF Proceed
<1>3. outcome' = Running
  BY DEF Proceed
<1> QED
  BY <1>1, <1>2, <1>3, GoesOn

\* Its block ends.
LEMMA Stops ==
  ASSUME Shape, frames # <<>>, NEW result, Stop(result), UNCHANGED scopes
  PROVE  /\ Shape' /\ Len(frames') = Len(frames) /\ outcome' = result
         /\ \A K \in {Due, Holding} : Count(frames', K) = Count(frames, K)
<1>1. frames \in Seq(Frame) /\ scopes \in Stack /\ scopes # <<>> /\ Keeps(Top, scopes)
  BY TopFacts DEF Shape
<1>2. <<>> \in Block
  BY DEF Block
<1>3. frames' = WithRest(frames, <<>>) /\ outcome' = result
  BY <1>1, StoppedIsWithRest DEF Stop
<1>4. scopes' \in Stack /\ scopes' # <<>> /\ Keeps(Top, scopes')
  BY <1>1
<1> QED
  BY <1>2, <1>3, <1>4, GoesOn

\* An error is raised here.
LEMMA Raises ==
  ASSUME IInv, frames # <<>>, ~Failed(outcome), NEW code \in Code, Raise(code),
         UNCHANGED <<program, scopes>>
  PROVE  IInv' /\ RestoresScopes
<1>1. Stop(Error(code)) /\ Shape /\ UNCHANGED scopes /\ ledger' = RaisedHere
  BY DEF Raise, IInv
<1>2. /\ Shape' /\ Len(frames') = Len(frames) /\ outcome' = Error(code)
      /\ \A K \in {Due, Holding} : Count(frames', K) = Count(frames, K)
  BY <1>1, Stops
<1>3. outcome' \in Outcome /\ Failed(outcome')
  BY <1>2, OutcomesAre, Flows DEF Failed
<1>4. /\ ledger' \in Ledger /\ ledger'.due = ledger.due /\ ledger'.begun = ledger.begun
      /\ ledger'.raised = ledger.raised + 1 /\ ledger'.settled = ledger.settled
  BY <1>1 DEF IInv, Ledger, RaisedHere
<1>5. frames \in Seq(Frame)
  BY DEF IInv, Shape
<1>6. Balanced'
  <2>1. Count(frames, Holding) \in Nat
    BY <1>5, MarkedFinite
  <2> QED
    BY <1>2, <1>3, <1>4, <2>1 DEF IInv, Balanced, One, Ledger
<1>7. RestoresScopes
  BY <1>2, <1>5 DEF RestoresScopes
<1> QED
  BY <1>2, <1>3, <1>4, <1>6, <1>7 DEF IInv

\* The ledger is not touched, nor what it counts.
LEMMA Steady ==
  ASSUME IInv, Shape', Len(frames') >= Len(frames), UNCHANGED <<program, ledger>>,
         outcome' \in Outcome, Failed(outcome') <=> Failed(outcome),
         \A K \in {Due, Holding} : Count(frames', K) = Count(frames, K)
  PROVE  IInv' /\ RestoresScopes
<1>1. frames \in Seq(Frame) /\ frames' \in Seq(Frame)
  BY DEF IInv, Shape
<1>2. RestoresScopes
  BY <1>1 DEF RestoresScopes
<1>3. Balanced'
  BY DEF IInv, Balanced, One
<1> QED
  BY <1>2, <1>3 DEF IInv

LEMMA DeclareStep == ASSUME IInv, Declare PROVE IInv' /\ RestoresScopes
<1>1. At("declare") /\ Shape /\ UNCHANGED program
  BY DEF Declare, IInv
<1>2. /\ frames # <<>> /\ Top \in Frame /\ Here \in Syntax /\ Here.op = "declare" /\ outcome = Running
  BY <1>1, HereFacts
<1>3. Here.name \in Name
  BY <1>2 DEF Syntax
<1>4. ~Failed(outcome)
  BY <1>2, Flows DEF Failed
<1>5. CASE Here.name \in Last(scopes)
  BY <1>1, <1>2, <1>4, <1>5, Raises DEF Declare, Code
<1>6. CASE Here.name \notin Last(scopes)
  <2>1. /\ Proceed /\ UNCHANGED ledger
        /\ scopes' = [scopes EXCEPT ![Len(scopes)] = @ \cup {Here.name}]
    BY <1>6 DEF Declare
  <2>2. scopes \in Stack /\ scopes # <<>> /\ Keeps(Top, scopes) /\ Top.outer \in Stack /\ Opened(Top) \in Nat
    BY <1>1, <1>2, TopFacts, FrameFields, OpenedNat DEF Shape
  <2>3. /\ scopes' \in Stack /\ scopes' # <<>> /\ Len(scopes') = Len(scopes)
        /\ \A k \in 1..(Len(scopes) - 1) : scopes'[k] = scopes[k]
        /\ scopes[Len(scopes)] \subseteq scopes'[Len(scopes)]
    BY <1>3, <2>1, <2>2 DEF Stack
  <2>4. Opened(Top) = 0 => Top.construct \in {"while", "program"}
    <3>1. Empty(Top) \/ Top.construct \in {"while", "program"} \/ Opened(Top) > 0
      BY <1>2 DEF Opened, Empty, Scoped, ScopeFor, Frame
    <3> QED
      BY <1>1, <3>1, HereFacts
  <2>5. Keeps(Top, scopes')
    BY <1>2, <2>2, <2>3, <2>4, KeepsMoreNames
  <2>6. /\ Shape' /\ Len(frames') = Len(frames) /\ outcome' = Running
        /\ \A K \in {Due, Holding} : Count(frames', K) = Count(frames, K)
    BY <1>1, <2>1, <2>3, <2>5, Proceeds
  <2>7. frames \in Seq(Frame)
    BY <1>1 DEF Shape
  <2> QED
    BY <1>1, <1>2, <2>1, <2>6, <2>7, Steady, OutcomesAre
<1> QED
  BY <1>5, <1>6

LEMMA UseStep == ASSUME IInv, Use PROVE IInv' /\ RestoresScopes
<1>1. At("use") /\ Shape /\ UNCHANGED <<program, scopes>>
  BY DEF Use, IInv
<1>2. frames # <<>> /\ outcome = Running
  BY <1>1, HereFacts
<1>3. ~Failed(outcome) /\ "name" \in Code
  BY <1>2, Flows DEF Failed, Code
<1>4. CASE Raise("name")
  BY <1>1, <1>2, <1>3, <1>4, Raises
<1>5. CASE Proceed /\ UNCHANGED ledger
  <2>1. scopes' \in Stack /\ scopes' # <<>> /\ Keeps(Top, scopes') /\ frames \in Seq(Frame)
    BY <1>1, <1>2, TopFacts DEF Shape
  <2>2. /\ Shape' /\ Len(frames') = Len(frames) /\ outcome' = Running
        /\ \A K \in {Due, Holding} : Count(frames', K) = Count(frames, K)
    BY <1>1, <1>5, <2>1, Proceeds
  <2> QED
    BY <1>1, <1>2, <1>5, <2>1, <2>2, Steady, OutcomesAre
<1> QED
  BY <1>4, <1>5 DEF Use

LEMMA FailStep == ASSUME IInv, Fail PROVE IInv' /\ RestoresScopes
<1>1. At("fail") /\ Shape /\ UNCHANGED <<program, scopes>> /\ Raise(Here.code)
  BY DEF Fail, IInv
<1>2. frames # <<>> /\ outcome = Running /\ Here \in Syntax /\ Here.op = "fail"
  BY <1>1, HereFacts
<1>3. ~Failed(outcome) /\ Here.code \in Code
  BY <1>2, Flows DEF Failed, Syntax
<1> QED
  BY <1>1, <1>2, <1>3, Raises

\* A block ends with a result that is no error.
LEMMA StopsQuietly ==
  ASSUME IInv, frames # <<>>, outcome = Running, NEW result \in Outcome, ~Failed(result),
         Stop(result), UNCHANGED <<program, scopes, ledger>>
  PROVE  IInv' /\ RestoresScopes
<1>1. /\ Shape' /\ Len(frames') = Len(frames) /\ outcome' = result
      /\ \A K \in {Due, Holding} : Count(frames', K) = Count(frames, K)
  BY Stops DEF IInv
<1>2. ~Failed(outcome) /\ frames \in Seq(Frame)
  BY Flows DEF Failed, IInv, Shape
<1> QED
  BY <1>1, <1>2, Steady

LEMMA LoopControlStep == ASSUME IInv, LoopControl PROVE IInv' /\ RestoresScopes
<1>1. frames # <<>> /\ outcome = Running /\ UNCHANGED <<program, scopes, ledger>>
  BY DEF LoopControl, At
<1>2. PICK result \in {Break, Continue} : Stop(result)
  BY DEF LoopControl
<1>3. result \in Outcome /\ ~Failed(result)
  BY <1>2, OutcomesAre, Flows DEF Failed
<1> QED
  BY <1>1, <1>2, <1>3, StopsQuietly

LEMMA ReturnConstantStep == ASSUME IInv, ReturnConstant PROVE IInv' /\ RestoresScopes
<1>1. /\ At("return") /\ Here.value.op = "constant" /\ UNCHANGED <<program, scopes, ledger>>
      /\ Shape /\ Stop(Return(Here.value.type))
  BY DEF ReturnConstant, IInv
<1>2. frames # <<>> /\ outcome = Running /\ Here \in Syntax /\ Here.op = "return"
  BY <1>1, HereFacts
<1>3. Here.value \in Literal \cup Computed
  BY <1>2 DEF Syntax
<1>4. Here.value.type \in Type
  BY <1>1, <1>3 DEF Literal, Computed
<1>5. Return(Here.value.type) \in Outcome /\ ~Failed(Return(Here.value.type))
  BY <1>4, OutcomesAre, Flows DEF Failed
<1> QED
  BY <1>1, <1>2, <1>5, StopsQuietly

LEMMA EndOfBlockStep == ASSUME IInv, EndOfBlock PROVE IInv' /\ RestoresScopes
<1>1. /\ outcome = Running /\ outcome' = Normal /\ UNCHANGED <<program, frames, scopes, ledger>>
      /\ Shape /\ frames \in Seq(Frame)
  BY DEF EndOfBlock, IInv, Shape
<1>2. ~Failed(outcome) /\ ~Failed(outcome') /\ outcome' \in Outcome
  BY <1>1, Flows, OutcomesAre DEF Failed
<1>3. Shape'
  BY <1>1 DEF Shape
<1> QED
  BY <1>1, <1>2, <1>3, Steady

\* Constructs the ledger does not count.
Plain == {"if", "for", "while", "match", "call"}

LEMMA PlainNotCounted ==
  ASSUME NEW f \in Frame, f.construct \in Plain
  PROVE  /\ f \notin Due /\ f \notin Holding /\ ~Empty(f)
         /\ \A K \in {Due, Holding} : One(f \in K) = 0
BY DEF Plain, Due, Holding, Empty, One

LEMMA EntersPlain ==
  ASSUME IInv, NEW op, At(op), NEW f \in Frame, NEW opened \in Stack, Enter(f, opened),
         f.outer = scopes, f.construct \in Plain, Len(opened) = Opened(f),
         UNCHANGED <<program, ledger>>
  PROVE  IInv' /\ RestoresScopes
<1>1. frames # <<>> /\ Top.rest # <<>> /\ outcome = Running /\ Shape /\ frames \in Seq(Frame)
  BY HereFacts DEF IInv, Shape
<1>2. ~Empty(f) /\ \A K \in {Due, Holding} : One(f \in K) = 0
  BY PlainNotCounted
<1>3. /\ Shape' /\ Len(frames') = Len(frames) + 1 /\ outcome' = Running
      /\ \A K \in {Due, Holding} : Count(frames', K) = Count(frames, K) + One(f \in K)
  BY <1>1, <1>2, Enters DEF Plain
<1>4. \A K \in {Due, Holding} : Count(frames', K) = Count(frames, K)
  BY <1>1, <1>2, <1>3, MarkedFinite
<1> QED
  BY <1>1, <1>3, <1>4, Steady, OutcomesAre

LEMMA EndingFacts ==
  ASSUME IInv, NEW construct, Ending(construct)
  PROVE  /\ Shape /\ frames # <<>> /\ Top \in Frame /\ Top.construct = construct
         /\ outcome \in Outcome \ {Running}
         /\ frames \in Seq(Frame) /\ scopes \in Stack /\ Keeps(Top, scopes)
         /\ \A K : Count(frames, K) \in Nat
<1>1. Shape /\ frames # <<>> /\ Top.construct = construct /\ outcome \in Outcome \ {Running}
  BY DEF Ending, IInv
<1>2. frames \in Seq(Frame) /\ scopes \in Stack
  BY <1>1 DEF Shape
<1> QED
  BY <1>1, <1>2, TopFacts, MarkedFinite

\* A construct that is not counted is left; so an error leaves it if one came.
LEMMA LeavesPlain ==
  ASSUME IInv, NEW construct \in Plain, Ending(construct), NEW result \in Outcome \ {Running},
         Failed(result) <=> Failed(outcome), Leave(result), scopes' = Popped(Opened(Top)),
         UNCHANGED <<program, ledger>>
  PROVE  IInv' /\ RestoresScopes
<1>1. Shape /\ frames # <<>> /\ Top \in Frame /\ Top.construct = construct /\ frames \in Seq(Frame)
  BY EndingFacts
<1>2. \A K \in {Due, Holding} : One(Top \in K) = 0
  BY <1>1, PlainNotCounted
<1>3. /\ Shape' /\ RestoresScopes /\ outcome' \in Outcome
      /\ outcome' = IF result = Normal THEN Running ELSE result
      /\ \A K \in {Due, Holding} : Count(frames, K) = Count(frames', K) + One(Top \in K)
  BY <1>1, Leaves DEF Plain
<1>4. frames' \in Seq(Frame)
  BY <1>3 DEF Shape
<1>5. \A K \in {Due, Holding} : Count(frames', K) = Count(frames, K)
  BY <1>2, <1>3, <1>4, MarkedFinite
<1>6. Failed(outcome') <=> Failed(outcome)
  BY <1>3, Flows DEF Failed
<1>7. Balanced'
  BY <1>5, <1>6 DEF IInv, Balanced, One
<1> QED
  BY <1>3, <1>7 DEF IInv

\* A construct that is not counted is left with an error of its own.
LEMMA LeavesRaising ==
  ASSUME IInv, NEW construct \in Plain, Ending(construct), NEW code \in Code,
         ~Failed(outcome), Leave(Error(code)), scopes' = Popped(Opened(Top)),
         ledger' = RaisedHere, UNCHANGED program
  PROVE  IInv' /\ RestoresScopes
<1>1. Shape /\ frames # <<>> /\ Top \in Frame /\ Top.construct = construct
  BY EndingFacts
<1>2. \A K \in {Due, Holding} : One(Top \in K) = 0
  BY <1>1, PlainNotCounted
<1>3. Error(code) \in Outcome \ {Running} /\ Error(code) # Normal /\ Failed(Error(code))
  BY OutcomesAre, Flows DEF Failed
<1>4. /\ Shape' /\ RestoresScopes /\ outcome' \in Outcome /\ outcome' = Error(code)
      /\ \A K \in {Due, Holding} : Count(frames, K) = Count(frames', K) + One(Top \in K)
  BY <1>1, <1>3, Leaves DEF Plain
<1>5. frames' \in Seq(Frame)
  BY <1>4 DEF Shape
<1>6. \A K \in {Due, Holding} : Count(frames', K) = Count(frames, K) /\ Count(frames, K) \in Nat
  BY <1>2, <1>4, <1>5, MarkedFinite
<1>7. /\ ledger' \in Ledger /\ ledger'.due = ledger.due /\ ledger'.begun = ledger.begun
      /\ ledger'.raised = ledger.raised + 1 /\ ledger'.settled = ledger.settled
  BY DEF IInv, Ledger, RaisedHere
<1>8. Balanced'
  BY <1>3, <1>4, <1>6, <1>7 DEF IInv, Balanced, One, Ledger
<1> QED
  BY <1>4, <1>7, <1>8 DEF IInv

LEMMA OneScope ==
  ASSUME NEW names \in SUBSET Name
  PROVE  <<names>> \in Stack /\ Len(<<names>>) = 1 /\ <<>> \in Stack /\ Len(<<>>) = 0
BY DEF Stack

LEMMA TwoScopes ==
  ASSUME NEW names \in SUBSET Name, NEW more \in SUBSET Name
  PROVE  <<names, more>> \in Stack /\ Len(<<names, more>>) = 2
BY DEF Stack

LEMMA EnterIfStep == ASSUME IInv, EnterIf PROVE IInv' /\ RestoresScopes
<1>1. At("if") /\ Shape /\ UNCHANGED <<program, ledger>>
  BY DEF EnterIf, IInv
<1>2. PICK block \in {Here.then, Here.else} :
        Enter([construct |-> "if", outer |-> scopes, rest |-> block], <<{}>>)
  BY DEF EnterIf
<1>3. Here \in Syntax /\ Here.op = "if" /\ scopes \in Stack
  BY <1>1, HereFacts DEF Shape
<1>4. block \in Block
  BY <1>2, <1>3 DEF Syntax
<1> DEFINE f == [construct |-> "if", outer |-> scopes, rest |-> block]
<1>5. f \in Frame /\ f.outer = scopes /\ f.construct \in Plain /\ Opened(f) = 1
  BY <1>3, <1>4 DEF Frame, Plain, Opened
<1>6. Enter(f, <<{}>>)
  BY <1>2
<1> HIDE DEF f
<1> QED
  BY <1>1, <1>5, <1>6, EntersPlain, OneScope

LEMMA LeaveIfStep == ASSUME IInv, LeaveIf PROVE IInv' /\ RestoresScopes
<1>1. Ending("if") /\ scopes' = Popped(1) /\ Leave(outcome) /\ UNCHANGED <<program, ledger>>
  BY DEF LeaveIf
<1>2. Top.construct = "if" /\ outcome \in Outcome \ {Running}
  BY <1>1, EndingFacts
<1>3. Opened(Top) = 1 /\ "if" \in Plain
  BY <1>2 DEF Opened, Plain
<1> QED
  BY <1>1, <1>2, <1>3, LeavesPlain

\* A loop without a round.
LEMMA ProceedsQuietly ==
  ASSUME IInv, NEW op, At(op), Proceed, UNCHANGED <<program, scopes, ledger>>
  PROVE  IInv' /\ RestoresScopes
<1>1. Shape /\ frames # <<>> /\ outcome = Running /\ frames \in Seq(Frame)
  BY HereFacts DEF IInv, Shape
<1>2. scopes' \in Stack /\ scopes' # <<>> /\ Keeps(Top, scopes')
  BY <1>1, TopFacts DEF Shape
<1>3. /\ Shape' /\ Len(frames') = Len(frames) /\ outcome' = Running
      /\ \A K \in {Due, Holding} : Count(frames', K) = Count(frames, K)
  BY <1>1, <1>2, Proceeds
<1> QED
  BY <1>1, <1>3, Steady, OutcomesAre

LEMMA EnterForStep == ASSUME IInv, EnterFor PROVE IInv' /\ RestoresScopes
<1>1. At("for") /\ Shape /\ UNCHANGED program
  BY DEF EnterFor, IInv
<1>2. /\ Here \in Syntax /\ Here.op = "for" /\ scopes \in Stack /\ frames # <<>>
      /\ outcome = Running
  BY <1>1, HereFacts DEF Shape
<1>3. Here.byRef \in BOOLEAN /\ Here.name \in Name /\ Here.body \in Block
  BY <1>2 DEF Syntax
<1>4. CASE Proceed /\ UNCHANGED <<scopes, ledger>>
  BY <1>1, <1>4, ProceedsQuietly
<1>5. CASE Raise("reference") /\ UNCHANGED scopes
  <2>1. ~Failed(outcome) /\ "reference" \in Code
    BY <1>2, Flows DEF Failed, Code
  <2> QED
    BY <1>1, <1>2, <1>5, <2>1, Raises
<1>6. ASSUME NEW count \in 1..MaxRounds,
             Enter([construct |-> "for", outer |-> scopes, rest |-> Here.body,
                    body |-> Here.body, name |-> Here.name, byRef |-> Here.byRef,
                    left |-> count - 1],
                   IF Here.byRef THEN <<{}, {Here.name}>> ELSE <<{Here.name}>>),
             UNCHANGED ledger
      PROVE  IInv' /\ RestoresScopes
  <2> DEFINE f == [construct |-> "for", outer |-> scopes, rest |-> Here.body,
                   body |-> Here.body, name |-> Here.name, byRef |-> Here.byRef,
                   left |-> count - 1]
             opened == IF Here.byRef THEN <<{}, {Here.name}>> ELSE <<{Here.name}>>
  <2>1. count - 1 \in Nat
    BY ProgramAssumption
  <2>2. /\ f \in Frame /\ f.outer = scopes /\ f.construct \in Plain
        /\ Opened(f) = IF Here.byRef THEN 2 ELSE 1
    BY <1>2, <1>3, <2>1 DEF Frame, Plain, Opened
  <2>3. opened \in Stack /\ Len(opened) = IF Here.byRef THEN 2 ELSE 1
    <3>1. {} \in SUBSET Name /\ {Here.name} \in SUBSET Name
      BY <1>3
    <3>2. <<{}, {Here.name}>> \in Stack /\ Len(<<{}, {Here.name}>>) = 2
      BY <3>1, TwoScopes
    <3>3. <<{Here.name}>> \in Stack /\ Len(<<{Here.name}>>) = 1
      BY <3>1, OneScope
    <3> QED
      BY <3>2, <3>3
  <2>4. Enter(f, opened) /\ UNCHANGED <<program, ledger>>
    BY <1>1, <1>6
  <2> HIDE DEF f, opened
  <2> QED
    BY <1>1, <2>2, <2>3, <2>4, EntersPlain
<1> QED
  BY <1>4, <1>5, <1>6 DEF EnterFor

LEMMA EnterWhileStep == ASSUME IInv, EnterWhile PROVE IInv' /\ RestoresScopes
<1>1. At("while") /\ Shape /\ UNCHANGED <<program, ledger>>
  BY DEF EnterWhile, IInv
<1>2. Here \in Syntax /\ Here.op = "while" /\ scopes \in Stack
  BY <1>1, HereFacts DEF Shape
<1>3. Here.body \in Block /\ MaxRounds - 1 \in Nat
  BY <1>2, ProgramAssumption DEF Syntax
<1>4. CASE Proceed /\ UNCHANGED scopes
  BY <1>1, <1>4, ProceedsQuietly
<1> DEFINE f == [construct |-> "while", outer |-> scopes, rest |-> Here.body,
                 body |-> Here.body, left |-> MaxRounds - 1]
<1>5. f \in Frame /\ f.outer = scopes /\ f.construct \in Plain /\ Opened(f) = 0
  BY <1>2, <1>3 DEF Frame, Plain, Opened
<1>6. (Proceed /\ UNCHANGED scopes) \/ Enter(f, <<>>)
  BY DEF EnterWhile
<1>7. <<>> \in Stack /\ Len(<<>>) = 0
  BY DEF Stack
<1> HIDE DEF f
<1>8. CASE Enter(f, <<>>)
  BY <1>1, <1>5, <1>7, <1>8, EntersPlain
<1> QED
  BY <1>4, <1>6, <1>8

LEMMA UpToLast == \A n \in Nat : \A i \in 1..n : i = n \/ i \in 1..(n - 1)
OBVIOUS

\* A loop goes on with its next round.
LEMMA RoundFrame ==
  ASSUME NEW f \in Frame, f.construct \in {"for", "while"}, f.left > 0
  PROVE  LET g == [f EXCEPT !.rest = f.body, !.left = f.left - 1]
         IN  /\ g \in Frame /\ g.construct = f.construct /\ g.outer = f.outer
             /\ Opened(g) = Opened(f)
             /\ \A inner : Keeps(f, inner) => Keeps(g, inner)
<1> DEFINE g == [f EXCEPT !.rest = f.body, !.left = f.left - 1]
<1>1. f.left - 1 \in Nat /\ f.body \in Block
  BY FrameFields
<1>2. g \in Frame /\ g.construct = f.construct /\ g.outer = f.outer
  BY <1>1 DEF Frame
<1>3. f.construct = "for" => g.byRef = f.byRef
  BY DEF Frame
<1> HIDE DEF g
<1>4. Opened(g) = Opened(f)
  BY <1>2, <1>3 DEF Opened
<1>5. \A inner : Keeps(f, inner) => Keeps(g, inner)
  BY <1>2, <1>4 DEF Keeps
<1> QED
  BY <1>2, <1>4, <1>5 DEF g

LEMMA NextRoundStep ==
  ASSUME IInv, NEW construct \in {"for", "while"}, NextRound(construct),
         scopes' \in Stack, scopes' # <<>>, Keeps(Top, scopes'), UNCHANGED <<program, ledger>>
  PROVE  IInv' /\ RestoresScopes
<1>1. Ending(construct) /\ outcome \in {Normal, Continue} /\ Top.left > 0 /\ outcome' = Running
  BY DEF NextRound
<1>2. /\ Shape /\ frames # <<>> /\ Top \in Frame /\ Top.construct = construct /\ frames \in Seq(Frame)
      /\ Top = frames[Len(frames)] /\ Len(frames) \in Nat \ {0} /\ Nests(frames, scopes)
      /\ DOMAIN frames = 1..Len(frames)
  BY <1>1, EndingFacts, TopFacts DEF Shape
<1> DEFINE g == [Top EXCEPT !.rest = Top.body, !.left = Top.left - 1]
<1>3. /\ g \in Frame /\ g.construct = Top.construct /\ g.outer = Top.outer /\ Keeps(g, scopes')
  BY <1>1, <1>2, RoundFrame
<1>4. frames' = [frames EXCEPT ![Len(frames)] = g]
  BY <1>2 DEF NextRound
<1> HIDE DEF g
<1>5. /\ frames' \in Seq(Frame) /\ Len(frames') = Len(frames) /\ frames'[Len(frames)] = g
      /\ \A i \in 1..(Len(frames) - 1) : frames'[i] = frames[i]
      /\ DOMAIN frames' = 1..Len(frames)
  BY <1>2, <1>3, <1>4
<1>6. g \notin Due /\ g \notin Holding /\ ~Empty(g) /\ Top \notin Due /\ Top \notin Holding
  BY <1>2, <1>3, PlainNotCounted DEF Plain
<1>7. Nests(frames', scopes')
  BY <1>2, <1>3, <1>5, <1>6, NestsInPlace
<1>8. \A i \in 1..Len(frames) : i = Len(frames) \/ i \in 1..(Len(frames) - 1)
  BY <1>2, UpToLast
<1>9. Shape'
  <2>1. \A i \in 1..Len(frames) : frames'[i].construct = frames[i].construct
    BY <1>2, <1>3, <1>5, <1>8
  <2> QED
    BY <1>2, <1>5, <1>7, <2>1 DEF Shape
<1>10. ASSUME NEW K \in {Due, Holding} PROVE Count(frames', K) = Count(frames, K)
  <2>1. \A i \in 1..Len(frames) : frames'[i] \in K <=> frames[i] \in K
    BY <1>2, <1>5, <1>6, <1>8
  <2> QED
    BY <1>2, <1>5, <2>1, CountSame
<1>11. ~Failed(outcome) /\ ~Failed(outcome')
  BY <1>1, Flows DEF Failed
<1> QED
  BY <1>1, <1>2, <1>5, <1>9, <1>10, <1>11, Steady, OutcomesAre

LEMMA NextItemStep == ASSUME IInv, NextItem PROVE IInv' /\ RestoresScopes
<1>1. NextRound("for") /\ Ending("for") /\ UNCHANGED <<program, ledger>>
  BY DEF NextItem, NextRound
<1>2. /\ Top \in Frame /\ Top.construct = "for" /\ scopes \in Stack /\ Keeps(Top, scopes)
      /\ Top.name \in Name /\ Top.outer \in Stack
  BY <1>1, EndingFacts, FrameFields
<1>3. Opened(Top) = (IF Top.byRef THEN 2 ELSE 1) /\ Top.byRef \in BOOLEAN
  BY <1>2, FrameFields DEF Opened
<1> DEFINE m == Len(Top.outer)
<1>4. m \in Nat \ {0} /\ Len(scopes) \in Nat /\ Len(scopes) = m + Opened(Top) /\ scopes # <<>>
  <2>1. Top.outer \in Seq(SUBSET Name) /\ scopes \in Seq(SUBSET Name)
    BY <1>2 DEF Stack
  <2>2. m > 0 /\ Len(scopes) = m + Opened(Top)
    BY <1>2 DEF Keeps
  <2>3. m \in Nat /\ Len(scopes) \in Nat
    BY <2>1
  <2>4. Opened(Top) \in 0..2
    BY <1>2, OpenedNat
  <2> HIDE DEF m
  <2>5. Len(scopes) > 0
    BY <2>2, <2>3, <2>4
  <2> QED
    BY <2>2, <2>3, <2>5
<1>5. CASE ~Top.byRef
  <2>1. scopes' = [scopes EXCEPT ![Len(scopes)] = @ \cup {Top.name}]
    BY <1>5 DEF NextItem
  <2>2. /\ scopes' \in Stack /\ scopes' # <<>> /\ Len(scopes') = Len(scopes)
        /\ \A k \in 1..(Len(scopes) - 1) : scopes'[k] = scopes[k]
        /\ scopes[Len(scopes)] \subseteq scopes'[Len(scopes)]
    BY <1>2, <1>4, <2>1 DEF Stack
  <2>3. Keeps(Top, scopes')
    BY <1>2, <1>3, <1>5, <2>2, KeepsMoreNames
  <2> QED
    BY <1>1, <2>2, <2>3, NextRoundStep
<1>6. CASE Top.byRef
  <2> DEFINE base == Popped(1)
  <2>1. scopes' = Append(base, {Top.name})
    BY <1>6 DEF NextItem
  <2>2. /\ base \in Stack /\ Len(base) = Len(scopes) - 1 /\ \A k \in 1..(Len(scopes) - 1) : base[k] = scopes[k]
    BY <1>2, <1>4, FrontOfStack DEF Stack, Popped, Front
  <2> HIDE DEF base
  <2>3. {Top.name} \in SUBSET Name
    BY <1>2
  <2>4. /\ scopes' \in Stack /\ scopes' # <<>> /\ Len(scopes') = Len(scopes)
        /\ \A k \in 1..(Len(scopes) - 1) : scopes'[k] = scopes[k]
    BY <1>4, <2>1, <2>2, <2>3 DEF Stack
  <2>5. m \in 1..(Len(scopes) - 1) /\ \A k \in 1..(m - 1) : k \in 1..(Len(scopes) - 1)
    BY <1>3, <1>4, <1>6
  <2>6. scopes'[m] = scopes[m] /\ \A k \in 1..(m - 1) : scopes'[k] = scopes[k]
    BY <2>4, <2>5
  <2>7. Keeps(Top, scopes')
    BY <1>2, <2>4, <2>6 DEF Keeps
  <2> QED
    BY <1>1, <2>4, <2>7, NextRoundStep
<1> QED
  BY <1>3, <1>5, <1>6

LEMMA RepeatWhileStep == ASSUME IInv, RepeatWhile PROVE IInv' /\ RestoresScopes
<1>1. NextRound("while") /\ Ending("while") /\ UNCHANGED <<program, scopes, ledger>>
  BY DEF RepeatWhile, NextRound
<1>2. scopes' \in Stack /\ scopes' # <<>> /\ Keeps(Top, scopes')
  BY <1>1, EndingFacts DEF Shape
<1> QED
  BY <1>1, <1>2, NextRoundStep

LEMMA AfterLoopFacts ==
  ASSUME outcome \in Outcome \ {Running}
  PROVE  AfterLoop \in Outcome \ {Running} /\ (Failed(AfterLoop) <=> Failed(outcome))
BY OutcomesAre, Flows DEF AfterLoop, Failed

LEMMA LeaveForStep == ASSUME IInv, LeaveFor PROVE IInv' /\ RestoresScopes
<1>1. /\ Ending("for") /\ scopes' = Popped(IF Top.byRef THEN 2 ELSE 1) /\ Leave(AfterLoop)
      /\ UNCHANGED <<program, ledger>>
  BY DEF LeaveFor
<1>2. Top.construct = "for" /\ outcome \in Outcome \ {Running}
  BY <1>1, EndingFacts
<1>3. Opened(Top) = (IF Top.byRef THEN 2 ELSE 1) /\ "for" \in Plain
  BY <1>2 DEF Opened, Plain
<1> QED
  BY <1>1, <1>2, <1>3, LeavesPlain, AfterLoopFacts

\* A while has no scope to pop.
LEMMA PoppedNone ==
  ASSUME scopes \in Seq(SUBSET Name)
  PROVE  Popped(0) = scopes
<1>1. Len(scopes) - 0 = Len(scopes)
  OBVIOUS
<1>2. SubSeq(scopes, 1, Len(scopes)) = scopes
  BY SubSeqFull
<1> QED
  BY <1>1, <1>2 DEF Popped

LEMMA FailConditionStep == ASSUME IInv, FailCondition PROVE IInv' /\ RestoresScopes
<1>1. /\ Ending("while") /\ outcome \in {Normal, Continue} /\ Leave(Error("division"))
      /\ ledger' = RaisedHere /\ UNCHANGED <<program, scopes>>
  BY DEF FailCondition
<1>2. Top.construct = "while" /\ scopes \in Seq(SUBSET Name)
  BY <1>1, EndingFacts DEF Stack
<1>3. Opened(Top) = 0 /\ "while" \in Plain /\ "division" \in Code /\ ~Failed(outcome)
  BY <1>1, <1>2, Flows DEF Opened, Plain, Code, Failed
<1>4. scopes' = Popped(Opened(Top))
  BY <1>1, <1>2, <1>3, PoppedNone
<1> QED
  BY <1>1, <1>3, <1>4, LeavesRaising

LEMMA LeaveWhileStep == ASSUME IInv, LeaveWhile PROVE IInv' /\ RestoresScopes
<1>1. Ending("while") /\ Leave(AfterLoop) /\ UNCHANGED <<program, scopes, ledger>>
  BY DEF LeaveWhile
<1>2. Top.construct = "while" /\ outcome \in Outcome \ {Running} /\ scopes \in Seq(SUBSET Name)
  BY <1>1, EndingFacts DEF Stack
<1>3. Opened(Top) = 0 /\ "while" \in Plain
  BY <1>2 DEF Opened, Plain
<1>4. scopes' = Popped(Opened(Top))
  BY <1>1, <1>2, <1>3, PoppedNone
<1> QED
  BY <1>1, <1>2, <1>3, <1>4, LeavesPlain, AfterLoopFacts

-----------------------------------------------------------------------------
(* try, catch and finally.                                                   *)

LEMMA ScopeForFacts ==
  ASSUME NEW block
  PROVE  ScopeFor(block) \in Stack /\ Len(ScopeFor(block)) = Scoped(block)
BY OneScope DEF ScopeFor, Scoped

LEMMA EnterTryStep == ASSUME IInv, EnterTry PROVE IInv' /\ RestoresScopes
<1>1. At("try") /\ Shape /\ UNCHANGED program /\ ledger' = [ledger EXCEPT !.due = @ + 1]
  BY DEF EnterTry, IInv
<1>2. /\ Here \in Syntax /\ Here.op = "try" /\ scopes \in Stack /\ frames # <<>> /\ Top.rest # <<>>
      /\ outcome = Running /\ frames \in Seq(Frame)
  BY <1>1, HereFacts DEF Shape
<1>3. Here.body \in Block /\ Here.catches \in Seq(CatchClause) /\ Here.finally \in Block
  BY <1>2 DEF Syntax
<1> DEFINE f == [construct |-> "try", outer |-> scopes, rest |-> Here.body,
                 body |-> Here.body, catches |-> Here.catches, finally |-> Here.finally]
           opened == ScopeFor(Here.body)
<1>4. /\ f \in Frame /\ f.outer = scopes /\ f.construct = "try" /\ Opened(f) = Scoped(Here.body)
      /\ Empty(f) => f.rest = <<>>
  BY <1>2, <1>3 DEF Frame, Opened, Empty
<1>5. opened \in Stack /\ Len(opened) = Opened(f)
  BY <1>4, ScopeForFacts
<1>6. Enter(f, opened)
  BY DEF EnterTry
<1> HIDE DEF f, opened
<1>7. One(f \in Due) = 1 /\ One(f \in Holding) = 0
  BY <1>4 DEF Due, Holding, One
<1>8. /\ Shape' /\ Len(frames') = Len(frames) + 1 /\ outcome' = Running
      /\ \A K \in {Due, Holding} : Count(frames', K) = Count(frames, K) + One(f \in K)
  BY <1>1, <1>2, <1>4, <1>5, <1>6, Enters
<1>9. Count(frames, Due) \in Nat /\ Count(frames, Holding) \in Nat
  BY <1>2, MarkedFinite
<1>10. Count(frames', Due) = Count(frames, Due) + 1 /\ Count(frames', Holding) = Count(frames, Holding)
  BY <1>7, <1>8, <1>9
<1>11. /\ ledger' \in Ledger /\ ledger'.due = ledger.due + 1 /\ ledger'.begun = ledger.begun
       /\ ledger'.raised = ledger.raised /\ ledger'.settled = ledger.settled /\ ledger \in Ledger
  BY <1>1 DEF IInv, Ledger
<1>12. Balanced'
  BY <1>2, <1>8, <1>9, <1>10, <1>11 DEF IInv, Balanced, Ledger
<1>13. RestoresScopes
  BY <1>2, <1>8 DEF RestoresScopes
<1> QED
  BY <1>1, <1>8, <1>11, <1>12, <1>13, OutcomesAre DEF IInv

LEMMA CatchErrorStep == ASSUME IInv, CatchError PROVE IInv' /\ RestoresScopes
<1>1. Ending("try") /\ Caught /\ outcome' = Running /\ UNCHANGED program
  BY DEF CatchError
<1>2. /\ Shape /\ frames # <<>> /\ Top \in Frame /\ Top.construct = "try" /\ frames \in Seq(Frame)
      /\ Top.catches \in Seq(CatchClause) /\ Top.finally \in Block /\ Top.outer \in Stack
      /\ Count(frames, Due) \in Nat /\ Count(frames, Holding) \in Nat
  BY <1>1, EndingFacts, FrameFields
<1>3. PICK i \in Taking(Top.catches, outcome.code) :
        /\ frames' = Append(Front(frames),
                            [construct |-> "catch", rest |-> Top.catches[i].body,
                             finally |-> Top.finally, outer |-> Top.outer])
        /\ scopes' = Append(Popped(Scoped(Top.body)), {Top.catches[i].binding} \ {None})
  BY DEF CatchError
<1> DEFINE clause == Top.catches[i]
           f == [construct |-> "catch", rest |-> clause.body,
                 finally |-> Top.finally, outer |-> Top.outer]
           opened == <<{clause.binding} \ {None}>>
<1>4. clause \in CatchClause
  <2>1. i \in DOMAIN Top.catches
    BY DEF Taking
  <2> QED
    BY <1>2, <2>1
<1>5. /\ frames' = Append(Front(frames), f)
      /\ scopes' = Append(Popped(Scoped(Top.body)), {clause.binding} \ {None})
      /\ ledger' = [ledger EXCEPT !.settled = @ + 1]
  BY <1>3 DEF CatchError
<1> HIDE DEF clause
<1>6. clause.body \in Block /\ {clause.binding} \ {None} \in SUBSET Name
  BY <1>4 DEF CatchClause
<1>7. opened \in Stack /\ Len(opened) = 1
  BY <1>6, OneScope
<1>8. /\ f \in Frame /\ f.outer = Top.outer /\ f.construct = "catch" /\ Opened(f) = 1
      /\ ~Empty(f)
  BY <1>2, <1>6 DEF Frame, Opened, Empty
<1>9. Opened(Top) = Scoped(Top.body)
  BY <1>2 DEF Opened
<1>10. scopes' = Popped(Opened(Top)) \o opened
  <2>1. Popped(Opened(Top)) \in Seq(SUBSET Name)
    BY <1>2, EndingFacts, <1>1, PoppedKeeps DEF Popped, Stack
  <2> QED
    BY <1>5, <1>6, <1>9, <2>1, AppendIsConcat
<1> HIDE DEF f, opened
<1>11. One(f \in Due) = 1 /\ One(f \in Holding) = 0 /\ One(Top \in Due) = 1 /\ One(Top \in Holding) = 0
  BY <1>2, <1>8 DEF Due, Holding, One
<1>12. /\ Shape' /\ Len(frames') = Len(frames)
       /\ \A K \in {Due, Holding} :
            Count(frames, K) + One(f \in K) = Count(frames', K) + One(Top \in K)
  BY <1>2, <1>5, <1>7, <1>8, <1>10, Replaces
<1>13. Count(frames', Due) \in Nat /\ Count(frames', Holding) \in Nat
  BY <1>12, MarkedFinite DEF Shape
<1>14. Count(frames', Due) = Count(frames, Due) /\ Count(frames', Holding) = Count(frames, Holding)
  BY <1>2, <1>11, <1>12, <1>13
<1>15. /\ ledger' \in Ledger /\ ledger'.due = ledger.due /\ ledger'.begun = ledger.begun
       /\ ledger'.raised = ledger.raised /\ ledger'.settled = ledger.settled + 1 /\ ledger \in Ledger
  <2>1. ledger' = [ledger EXCEPT !.settled = @ + 1] /\ ledger \in Ledger
    BY <1>5 DEF IInv
  <2> QED
    BY <2>1 DEF Ledger
<1>16. Failed(outcome) /\ ~Failed(outcome')
  BY <1>1, Flows DEF Caught, Failed
<1>17. Balanced'
  BY <1>2, <1>14, <1>15, <1>16 DEF IInv, Balanced, Ledger, One
<1>18. RestoresScopes
  BY <1>2, <1>12 DEF RestoresScopes
<1> QED
  BY <1>1, <1>12, <1>15, <1>17, <1>18, OutcomesAre DEF IInv

\* A finally block begins, with what try or catch ended with.
LEMMA FinallyBegins ==
  ASSUME IInv, NEW construct \in {"try", "catch"}, Ending(construct), Finally(Opened(Top)),
         UNCHANGED program
  PROVE  IInv' /\ RestoresScopes
<1>1. /\ Shape /\ frames # <<>> /\ Top \in Frame /\ Top.construct = construct /\ frames \in Seq(Frame)
      /\ outcome \in Outcome \ {Running} /\ Top.finally \in Block /\ Top.outer \in Stack
      /\ Count(frames, Due) \in Nat /\ Count(frames, Holding) \in Nat
  BY EndingFacts, FrameFields
<1> DEFINE f == [construct |-> "finally", rest |-> Top.finally, body |-> Top.finally,
                 pending |-> outcome, outer |-> Top.outer]
           opened == ScopeFor(Top.finally)
<1>2. /\ frames' = Append(Front(frames), f) /\ scopes' = Popped(Opened(Top)) \o opened
      /\ outcome' = Running /\ ledger' = Begun
  BY DEF Finally
<1>3. /\ f \in Frame /\ f.outer = Top.outer /\ f.construct = "finally" /\ Opened(f) = Scoped(Top.finally)
      /\ Empty(f) => f.rest = <<>>
      /\ f.pending = outcome
  BY <1>1 DEF Frame, Opened, Empty
<1>4. opened \in Stack /\ Len(opened) = Opened(f)
  BY <1>3, ScopeForFacts
<1> HIDE DEF f, opened
<1>5. /\ One(f \in Due) = 0 /\ One(f \in Holding) = One(Failed(outcome))
      /\ One(Top \in Due) = 1 /\ One(Top \in Holding) = 0
  BY <1>1, <1>3 DEF Due, Holding, One
<1>6. /\ Shape' /\ Len(frames') = Len(frames)
      /\ \A K \in {Due, Holding} :
           Count(frames, K) + One(f \in K) = Count(frames', K) + One(Top \in K)
  BY <1>1, <1>2, <1>3, <1>4, Replaces
<1>7. Count(frames', Due) \in Nat /\ Count(frames', Holding) \in Nat /\ One(Failed(outcome)) \in Nat
  BY <1>6, MarkedFinite DEF Shape, One
<1>8. /\ Count(frames', Due) = Count(frames, Due) - 1
      /\ Count(frames', Holding) = Count(frames, Holding) + One(Failed(outcome))
  BY <1>1, <1>5, <1>6, <1>7
<1>9. /\ ledger' \in Ledger /\ ledger'.due = ledger.due /\ ledger'.begun = ledger.begun + 1
      /\ ledger'.raised = ledger.raised /\ ledger'.settled = ledger.settled /\ ledger \in Ledger
  <2>1. ledger' = [ledger EXCEPT !.begun = @ + 1] /\ ledger \in Ledger
    BY <1>2 DEF IInv, Begun
  <2> QED
    BY <2>1 DEF Ledger
<1>10. One(Failed(outcome')) = 0
  BY <1>2, Flows DEF Failed, One
<1>11. Balanced'
  <2>1. ledger.due \in Nat /\ ledger.begun \in Nat /\ ledger.raised \in Nat /\ ledger.settled \in Nat
    BY <1>9 DEF Ledger
  <2>2. /\ ledger.due - ledger.begun = Count(frames, Due)
        /\ ledger.raised - ledger.settled = Count(frames, Holding) + One(Failed(outcome))
    BY DEF IInv, Balanced
  <2>3. ledger'.due - ledger'.begun = Count(frames', Due)
    BY <1>7, <1>8, <1>9, <2>1, <2>2
  <2>4. ledger'.raised - ledger'.settled = Count(frames', Holding) + One(Failed(outcome'))
    BY <1>7, <1>8, <1>9, <1>10, <2>1, <2>2
  <2> QED
    BY <2>3, <2>4 DEF Balanced
<1>12. RestoresScopes
  BY <1>1, <1>6 DEF RestoresScopes
<1> QED
  BY <1>2, <1>6, <1>9, <1>11, <1>12, OutcomesAre DEF IInv

LEMMA LeaveTryStep == ASSUME IInv, LeaveTry PROVE IInv' /\ RestoresScopes
<1>1. Ending("try") /\ Finally(Scoped(Top.body)) /\ UNCHANGED program
  BY DEF LeaveTry
<1>2. Opened(Top) = Scoped(Top.body)
  BY <1>1 DEF Ending, Opened
<1> QED
  BY <1>1, <1>2, FinallyBegins

LEMMA LeaveCatchStep == ASSUME IInv, LeaveCatch PROVE IInv' /\ RestoresScopes
<1>1. Ending("catch") /\ Finally(1) /\ UNCHANGED program
  BY DEF LeaveCatch
<1>2. Opened(Top) = 1
  BY <1>1 DEF Ending, Opened
<1> QED
  BY <1>1, <1>2, FinallyBegins

\* What was pending goes on, unless the finally block ended otherwise.
LEMMA LeaveFinallyStep == ASSUME IInv, LeaveFinally PROVE IInv' /\ RestoresScopes
<1> DEFINE result == IF outcome = Normal THEN Top.pending ELSE outcome
           settles == outcome # Normal /\ Failed(Top.pending)
<1>1. /\ Ending("finally") /\ scopes' = Popped(Scoped(Top.body)) /\ Leave(result) /\ UNCHANGED program
      /\ ledger' = IF settles THEN [ledger EXCEPT !.settled = @ + 1] ELSE ledger
  BY DEF LeaveFinally
<1>2. /\ Shape /\ frames # <<>> /\ Top \in Frame /\ Top.construct = "finally" /\ frames \in Seq(Frame)
      /\ outcome \in Outcome \ {Running} /\ Top.pending \in Outcome \ {Running}
      /\ Count(frames, Due) \in Nat /\ Count(frames, Holding) \in Nat
  BY <1>1, EndingFacts, FrameFields
<1>3. Opened(Top) = Scoped(Top.body) /\ result \in Outcome \ {Running}
  BY <1>2 DEF Opened
<1>4. One(Top \in Due) = 0 /\ One(Top \in Holding) = One(Failed(Top.pending))
  BY <1>2 DEF Due, Holding, One
<1>5. One(Failed(Top.pending)) \in Nat /\ One(Failed(outcome)) \in Nat
  BY DEF One
<1>6. /\ outcome = Normal => result = Top.pending /\ ~Failed(outcome)
      /\ outcome # Normal => result = outcome
  BY Flows DEF Failed
<1> HIDE DEF result
<1>7. /\ Shape' /\ RestoresScopes
      /\ outcome' = IF result = Normal THEN Running ELSE result
      /\ outcome' \in Outcome
      /\ \A K \in {Due, Holding} : Count(frames, K) = Count(frames', K) + One(Top \in K)
  BY <1>1, <1>2, <1>3, Leaves
<1>8. Count(frames', Due) \in Nat /\ Count(frames', Holding) \in Nat
  BY <1>7, MarkedFinite DEF Shape
<1>9. /\ Count(frames', Due) = Count(frames, Due)
      /\ Count(frames', Holding) = Count(frames, Holding) - One(Failed(Top.pending))
  BY <1>2, <1>4, <1>5, <1>7, <1>8
<1>10. Failed(outcome') <=> Failed(result)
  BY <1>7, Flows DEF Failed
<1>11. /\ ledger' \in Ledger /\ ledger \in Ledger /\ ledger'.due = ledger.due /\ ledger'.begun = ledger.begun
       /\ ledger'.raised = ledger.raised
       /\ ledger'.settled = ledger.settled + One(settles)
  BY <1>1 DEF IInv, Ledger, One
<1>12. One(settles) + One(Failed(result)) = One(Failed(outcome)) + One(Failed(Top.pending))
  BY <1>6 DEF One
<1>13. One(settles) \in Nat /\ One(Failed(result)) \in Nat /\ One(Failed(outcome')) = One(Failed(result))
  BY <1>10 DEF One
<1> HIDE DEF settles
<1>14. /\ ledger.due - ledger.begun = Count(frames, Due)
       /\ ledger.raised - ledger.settled = Count(frames, Holding) + One(Failed(outcome))
  BY DEF IInv, Balanced
<1>15. ledger.raised \in Nat /\ ledger.settled \in Nat
  BY <1>11 DEF Ledger
<1>16. ledger'.raised - ledger'.settled = Count(frames', Holding) + One(Failed(outcome'))
  <2>1. /\ ledger'.raised - ledger'.settled = ledger.raised - (ledger.settled + One(settles))
        /\ Count(frames', Holding) + One(Failed(outcome'))
             = (Count(frames, Holding) - One(Failed(Top.pending))) + One(Failed(result))
    BY <1>9, <1>11, <1>13
  <2> DEFINE a == One(settles)
             b == One(Failed(result))
             c == One(Failed(outcome))
             d == One(Failed(Top.pending))
             e == Count(frames, Holding)
  <2>2. /\ a \in Nat /\ b \in Nat /\ c \in Nat /\ d \in Nat /\ e \in Nat
        /\ a + b = c + d /\ ledger.raised - ledger.settled = e + c
    BY <1>2, <1>5, <1>12, <1>13, <1>14
  <2> HIDE DEF a, b, c, d, e
  <2>3. ledger.raised - (ledger.settled + a) = (e - d) + b
    BY <1>15, <2>2
  <2> QED
    BY <2>1, <2>3 DEF a, b, d, e
<1>17. Balanced'
  BY <1>9, <1>11, <1>14, <1>16 DEF Balanced
<1> QED
  BY <1>1, <1>7, <1>11, <1>17 DEF IInv

-----------------------------------------------------------------------------
(* Matches and calls.                                                        *)

LEMMA EvaluatingFacts ==
  ASSUME IInv, NEW op, Evaluating(op)
  PROVE  /\ \E statement : At(statement)
         /\ Shape /\ frames # <<>> /\ Top.rest # <<>> /\ outcome = Running /\ ~Failed(outcome)
         /\ scopes \in Stack /\ Here.value \in Literal \cup Computed /\ Here.value.op = op
         /\ Returned \in BOOLEAN
<1>1. PICK statement \in {"evaluate", "return"} : At(statement)
  BY DEF Evaluating
<1>2. Shape /\ Here.value.op = op /\ scopes \in Stack /\ Returned \in BOOLEAN
  BY DEF Evaluating, IInv, Shape, Returned
<1>3. Here \in Syntax /\ Here.op = statement /\ frames # <<>> /\ Top.rest # <<>> /\ outcome = Running
  BY <1>1, <1>2, HereFacts
<1>4. Here.value \in Literal \cup Computed
  BY <1>1, <1>3 DEF Syntax
<1>5. ~Failed(outcome)
  BY <1>3, Flows DEF Failed
<1> QED
  BY <1>1, <1>2, <1>3, <1>4, <1>5

LEMMA EnterMatchStep == ASSUME IInv, EnterMatch PROVE IInv' /\ RestoresScopes
<1> DEFINE arms == Here.value.arms
<1>1. Evaluating("match") /\ UNCHANGED program
  BY DEF EnterMatch
<1>2. /\ Shape /\ frames # <<>> /\ Top.rest # <<>> /\ outcome = Running /\ ~Failed(outcome)
      /\ scopes \in Stack /\ Returned \in BOOLEAN
  BY <1>1, EvaluatingFacts
<1>3. arms \in Seq(MatchArm)
  BY <1>1, EvaluatingFacts DEF Literal, Computed
<1>4. PICK statement : At(statement)
  BY <1>1, EvaluatingFacts
<1>5. ASSUME NEW i \in DOMAIN arms, UNCHANGED ledger,
             Enter([construct |-> "match", outer |-> scopes, rest |-> arms[i].body,
                    result |-> arms[i].result, returns |-> Returned], <<{}>>)
      PROVE  IInv' /\ RestoresScopes
  <2> DEFINE f == [construct |-> "match", outer |-> scopes, rest |-> arms[i].body,
                   result |-> arms[i].result, returns |-> Returned]
  <2>1. arms[i] \in MatchArm
    BY <1>3
  <2> HIDE DEF arms
  <2>2. arms[i].body \in Block /\ arms[i].result \in Type
    BY <2>1 DEF MatchArm
  <2>3. f \in Frame /\ f.outer = scopes /\ f.construct \in Plain /\ Opened(f) = 1
    BY <1>2, <2>2 DEF Frame, Plain, Opened
  <2>4. Enter(f, <<{}>>)
    BY <1>5
  <2> HIDE DEF f
  <2> QED
    BY <1>1, <1>4, <1>5, <2>3, <2>4, EntersPlain, OneScope
<1>6. ASSUME NEW code \in {"division", "general"}, Raise(code), UNCHANGED scopes
      PROVE  IInv' /\ RestoresScopes
  BY <1>1, <1>2, <1>6, Raises DEF Code
<1>7. \/ \E i \in DOMAIN arms :
           /\ Enter([construct |-> "match", outer |-> scopes, rest |-> arms[i].body,
                     result |-> arms[i].result, returns |-> Returned], <<{}>>)
           /\ UNCHANGED ledger
      \/ \E code \in {"division", "general"} : Raise(code) /\ UNCHANGED scopes
  BY DEF EnterMatch
<1> QED
  BY <1>5, <1>6, <1>7

\* A value is returned, or it is nobody's.
LEMMA LeavesWithValue ==
  ASSUME IInv, NEW construct \in {"match", "call"}, Ending(construct), ~Failed(outcome),
         NEW type \in Type, LeaveWithValue(type), scopes' = Popped(1),
         UNCHANGED <<program, ledger>>
  PROVE  IInv' /\ RestoresScopes
<1> DEFINE result == IF Top.returns THEN Return(type) ELSE Normal
<1>1. Leave(result)
  BY DEF LeaveWithValue
<1>2. result \in Outcome \ {Running} /\ ~Failed(result)
  BY OutcomesAre, Flows DEF Failed
<1>3. Opened(Top) = 1 /\ construct \in Plain
  BY DEF Ending, Opened, Plain
<1> HIDE DEF result
<1> QED
  BY <1>1, <1>2, <1>3, LeavesPlain

\* An error of the block goes on; a break or a continue is one.
LEMMA LeavesWithoutValue ==
  ASSUME IInv, NEW construct \in {"match", "call"}, Ending(construct), scopes' = Popped(1),
         UNCHANGED program,
         \/ Failed(outcome) /\ Leave(outcome) /\ UNCHANGED ledger
         \/ /\ ~Failed(outcome) /\ ledger' = RaisedHere
            /\ \E code \in {"control", "type"} : Leave(Error(code))
  PROVE  IInv' /\ RestoresScopes
<1>1. Opened(Top) = 1 /\ construct \in Plain /\ outcome \in Outcome \ {Running}
  BY EndingFacts DEF Ending, Opened, Plain
<1>2. CASE Failed(outcome) /\ Leave(outcome) /\ UNCHANGED ledger
  BY <1>1, <1>2, LeavesPlain
<1>3. ASSUME ~Failed(outcome), ledger' = RaisedHere, NEW code \in {"control", "type"}, Leave(Error(code))
      PROVE  IInv' /\ RestoresScopes
  BY <1>1, <1>3, LeavesRaising DEF Code
<1> QED
  BY <1>2, <1>3

LEMMA LeaveMatchStep == ASSUME IInv, LeaveMatch PROVE IInv' /\ RestoresScopes
<1>1. Ending("match") /\ scopes' = Popped(1) /\ UNCHANGED program
  BY DEF LeaveMatch
<1>2. outcome \in Outcome \ {Running} /\ Top.result \in Type
  BY <1>1, EndingFacts, FrameFields
<1>3. CASE outcome = Normal
  <2>1. LeaveWithValue(Top.result) /\ UNCHANGED ledger /\ ~Failed(outcome)
    BY <1>3, Flows DEF LeaveMatch, Failed
  <2> QED
    BY <1>1, <1>2, <2>1, LeavesWithValue
<1>4. CASE outcome.flow = "Return"
  <2>1. LeaveWithValue(outcome.type) /\ UNCHANGED ledger /\ ~Failed(outcome)
    BY <1>4, Flows DEF LeaveMatch, Failed
  <2>2. outcome.type \in Type
    BY <1>2, <1>4, OutcomeKinds
  <2> QED
    BY <1>1, <2>1, <2>2, LeavesWithValue
<1>5. CASE outcome \in {Break, Continue}
  <2>1. Leave(Error("control")) /\ ledger' = RaisedHere /\ ~Failed(outcome)
    BY <1>5, Flows DEF LeaveMatch, Failed
  <2> QED
    BY <1>1, <2>1, LeavesWithoutValue
<1>6. CASE Failed(outcome)
  <2>1. Leave(outcome) /\ UNCHANGED ledger
    BY <1>6, Flows DEF LeaveMatch, Failed
  <2> QED
    BY <1>1, <1>6, <2>1, LeavesWithoutValue
<1> QED
  BY <1>2, <1>3, <1>4, <1>5, <1>6, OutcomeKinds

LEMMA EnterCallStep == ASSUME IInv, EnterCall PROVE IInv' /\ RestoresScopes
<1>1. Evaluating("call") /\ UNCHANGED <<program, ledger>>
  BY DEF EnterCall
<1>2. scopes \in Stack /\ Returned \in BOOLEAN /\ Here.value.op = "call"
        /\ Here.value \in Literal \cup Computed
  BY <1>1, EvaluatingFacts
<1>3. Here.value.body \in Block /\ Here.value.gives \in Type \cup {None}
  BY <1>2 DEF Literal, Computed
<1>4. PICK statement : At(statement)
  BY <1>1, EvaluatingFacts
<1> DEFINE f == [construct |-> "call", outer |-> scopes, rest |-> Here.value.body,
                 gives |-> Here.value.gives, returns |-> Returned]
<1>5. f \in Frame /\ f.outer = scopes /\ f.construct \in Plain /\ Opened(f) = 1
  BY <1>2, <1>3 DEF Frame, Plain, Opened
<1>6. Enter(f, <<{}>>)
  BY DEF EnterCall
<1> HIDE DEF f
<1> QED
  BY <1>1, <1>4, <1>5, <1>6, EntersPlain, OneScope

LEMMA LeaveCallStep == ASSUME IInv, LeaveCall PROVE IInv' /\ RestoresScopes
<1>1. Ending("call") /\ scopes' = Popped(1) /\ UNCHANGED program
  BY DEF LeaveCall
<1>2. outcome \in Outcome \ {Running}
  BY <1>1, EndingFacts
<1>3. CASE outcome \in {Break, Continue}
  <2>1. Leave(Error("control")) /\ ledger' = RaisedHere /\ ~Failed(outcome)
    <3>1. ~Failed(outcome) /\ outcome # Normal /\ outcome.flow # "Return"
      BY <1>3, Flows DEF Failed
    <3> QED
      BY <1>3, <3>1 DEF LeaveCall
  <2> QED
    BY <1>1, <2>1, LeavesWithoutValue
<1>4. CASE Failed(outcome)
  <2>1. Leave(outcome) /\ UNCHANGED ledger
    <3>1. outcome \notin {Break, Continue}
      BY <1>4, Flows DEF Failed
    <3> QED
      BY <1>4, <3>1 DEF LeaveCall
  <2> QED
    BY <1>1, <1>4, <2>1, LeavesWithoutValue
<1>5. CASE outcome = Normal \/ outcome.flow = "Return"
  <2>1. Answer \in Type
    BY <1>2, <1>5, OutcomeKinds, Flows DEF Answer, Type
  <2>2. outcome \notin {Break, Continue} /\ ~Failed(outcome)
    BY <1>5, Flows DEF Failed
  <2>3. \/ LeaveWithValue(Answer) /\ UNCHANGED ledger
        \/ Leave(Error("type")) /\ ledger' = RaisedHere
    BY <2>2 DEF LeaveCall
  <2> QED
    BY <1>1, <2>1, <2>2, <2>3, LeavesWithValue, LeavesWithoutValue
<1> QED
  BY <1>2, <1>3, <1>4, <1>5, OutcomeKinds

-----------------------------------------------------------------------------
(* The program.                                                              *)

LEMMA CountOfNone == \A K : Count(<<>>, K) = 0
<1>1. \A K : Marked(<<>>, K) = {}
  BY DEF Marked
<1> QED
  BY <1>1, FS_EmptySet DEF Count

LEMMA LeaveProgramStep == ASSUME IInv, LeaveProgram PROVE IInv' /\ RestoresScopes
<1>1. Ending("program") /\ frames' = <<>> /\ UNCHANGED <<program, scopes>>
  BY DEF LeaveProgram
<1>2. /\ Shape /\ frames # <<>> /\ Top \in Frame /\ Top.construct = "program" /\ frames \in Seq(Frame)
      /\ outcome \in Outcome \ {Running} /\ Keeps(Top, scopes) /\ Top.outer \in Stack
      /\ scopes \in Stack /\ scopes # <<>>
  BY <1>1, EndingFacts, FrameFields DEF Shape
<1>3. Len(frames) = 1 /\ Top = frames[1] /\ Last(frames) = Top
  BY <1>2, TopFacts DEF Top
<1>4. Shape'
  BY <1>1, <1>2 DEF Shape, Nests
<1>5. ASSUME NEW K \in {Due, Holding} PROVE Count(frames', K) = 0 /\ Count(frames, K) = 0
  <2>1. Top \notin K
    BY <1>2 DEF Due, Holding
  <2>2. \A i \in DOMAIN frames : frames[i] \notin K
    BY <1>2, <1>3, <2>1
  <2>3. Marked(frames, K) = {}
    BY <2>2 DEF Marked
  <2> QED
    BY <1>1, <2>3, CountOfNone, FS_EmptySet DEF Count
<1>6. RestoresScopes
  <2> DEFINE m == Len(Top.outer)
  <2>1. Opened(Top) = 0 /\ m \in Nat \ {0} /\ Len(scopes) = m /\ Top.outer # <<>>
    <3>1. Opened(Top) = 0
      BY <1>2 DEF Opened
    <3> QED
      BY <1>2, <3>1 DEF Keeps, Stack
  <2>2. /\ \A k \in 1..(m - 1) : scopes[k] = Top.outer[k]
        /\ Top.outer[m] \subseteq scopes[m]
    BY <1>2 DEF Keeps
  <2>3. Front(scopes) = Front(Top.outer)
    <3> DEFINE a == Front(scopes)
               b == Front(Top.outer)
    <3>1. /\ a \in Stack /\ b \in Stack /\ Len(a) = m - 1 /\ Len(b) = m - 1
          /\ \A k \in 1..(m - 1) : a[k] = scopes[k] /\ b[k] = Top.outer[k]
      <4>1. scopes \in Stack /\ scopes # <<>> /\ Top.outer \in Stack
        BY <1>2, <2>1 DEF Stack
      <4>2. a \in Stack /\ Len(a) = m - 1 /\ \A k \in 1..(m - 1) : a[k] = scopes[k]
        BY <2>1, <4>1, FrontOfScopes
      <4>3. b \in Stack /\ Len(b) = m - 1 /\ \A k \in 1..(m - 1) : b[k] = Top.outer[k]
        BY <2>1, <4>1, FrontOfScopes
      <4> QED
        BY <4>2, <4>3
    <3> HIDE DEF a, b
    <3> QED
      BY <2>2, <3>1, SeqEqual DEF Stack, a, b
  <2>4. Last(scopes) = scopes[m] /\ Last(Top.outer) = Top.outer[m]
    BY <1>2, <2>1, FrontOfStack DEF Stack
  <2> QED
    BY <1>1, <1>2, <1>3, <2>1, <2>2, <2>3, <2>4 DEF RestoresScopes
<1>7. CASE outcome = Normal \/ Failed(outcome)
  <2>1. UNCHANGED <<outcome, ledger>>
    BY <1>7 DEF LeaveProgram
  <2>2. Balanced'
    BY <1>5, <2>1 DEF IInv, Balanced
  <2> QED
    BY <1>1, <1>4, <1>6, <2>1, <2>2 DEF IInv
<1>8. CASE ~(outcome = Normal \/ Failed(outcome))
  <2>1. outcome' = Error("control") /\ ledger' = RaisedHere
    BY <1>8 DEF LeaveProgram
  <2>2. outcome' \in Outcome /\ One(Failed(outcome')) = 1 /\ One(Failed(outcome)) = 0
    BY <1>8, <2>1, Flows, OutcomesAre DEF Failed, One, Code
  <2>3. /\ ledger' \in Ledger /\ ledger'.due = ledger.due /\ ledger'.begun = ledger.begun
        /\ ledger'.raised = ledger.raised + 1 /\ ledger'.settled = ledger.settled /\ ledger \in Ledger
    BY <2>1 DEF IInv, Ledger, RaisedHere
  <2>4. Balanced'
    BY <1>5, <2>2, <2>3 DEF IInv, Balanced, Ledger
  <2> QED
    BY <1>1, <1>4, <1>6, <2>2, <2>3, <2>4 DEF IInv
<1> QED
  BY <1>7, <1>8

LEMMA InitHolds == Init => IInv
<1> SUFFICES ASSUME Init PROVE IInv
  OBVIOUS
<1> DEFINE f == [construct |-> "program", rest |-> program, outer |-> scopes]
<1>1. /\ program \in Block /\ scopes = <<{}>> /\ frames = <<f>> /\ outcome = Running
      /\ ledger = [due |-> 0, begun |-> 0, raised |-> 0, settled |-> 0]
  BY ProgramAssumption DEF Init
<1>2. scopes \in Stack /\ Len(scopes) = 1 /\ scopes # <<>>
  BY <1>1, OneScope
<1>3. f \in Frame /\ f.construct = "program" /\ f.outer = scopes /\ Opened(f) = 0
  BY <1>1, <1>2 DEF Frame, Opened
<1>4. Keeps(f, scopes) /\ ~Empty(f) /\ f \notin Due /\ f \notin Holding
  BY <1>2, <1>3 DEF Keeps, Empty, Due, Holding
<1> HIDE DEF f
<1>5. frames \in Seq(Frame) /\ Len(frames) = 1 /\ frames[1] = f /\ DOMAIN frames = {1}
  BY <1>1, <1>3
<1>6. Shape
  BY <1>2, <1>3, <1>4, <1>5 DEF Shape, Nests, Inside
<1>7. \A K \in {Due, Holding} : Count(frames, K) = 0
  <2>1. \A K \in {Due, Holding} : Marked(frames, K) = {}
    BY <1>4, <1>5 DEF Marked
  <2> QED
    BY <2>1, FS_EmptySet DEF Count
<1>8. One(Failed(outcome)) = 0
  BY <1>1, Flows DEF Failed, One
<1>9. Balanced /\ ledger \in Ledger
  BY <1>1, <1>7, <1>8 DEF Balanced, Ledger
<1> QED
  BY <1>1, <1>6, <1>9, OutcomesAre DEF IInv

LEMMA Step == IInv /\ [Next]_vars => IInv' /\ [RestoresScopes]_vars
<1> SUFFICES ASSUME IInv, [Next]_vars PROVE IInv' /\ [RestoresScopes]_vars
  OBVIOUS
<1>1. CASE UNCHANGED vars
  BY <1>1 DEF vars, IInv, Shape, Balanced, Ledger
<1>2. CASE Statement
  BY <1>2, DeclareStep, UseStep, FailStep, LoopControlStep, ReturnConstantStep, EndOfBlockStep
     DEF Statement
<1>3. CASE Branch
  BY <1>3, EnterIfStep, LeaveIfStep, EnterForStep, NextItemStep, LeaveForStep, EnterWhileStep,
     RepeatWhileStep, FailConditionStep, LeaveWhileStep DEF Branch
<1>4. CASE Protected
  BY <1>4, EnterTryStep, CatchErrorStep, LeaveTryStep, LeaveCatchStep, LeaveFinallyStep DEF Protected
<1>5. CASE Expression
  BY <1>5, EnterMatchStep, LeaveMatchStep, EnterCallStep, LeaveCallStep DEF Expression
<1>6. CASE LeaveProgram
  BY <1>6, LeaveProgramStep
<1>7. CASE Done
  BY <1>1, <1>7 DEF Done
<1> QED
  BY <1>1, <1>2, <1>3, <1>4, <1>5, <1>6, <1>7 DEF Next

-----------------------------------------------------------------------------
(* The theorems.                                                             *)

LEMMA CountsMeant ==
  ASSUME frames \in Seq(Frame)
  PROVE  /\ Count(frames, Due)
              = Cardinality({i \in DOMAIN frames : frames[i].construct \in {"try", "catch"}})
         /\ Count(frames, Holding)
              = Cardinality({i \in DOMAIN frames :
                               frames[i].construct = "finally" /\ Failed(frames[i].pending)})
<1>1. \A i \in DOMAIN frames : frames[i] \in Frame
  OBVIOUS
<1>2. Marked(frames, Due) = {i \in DOMAIN frames : frames[i].construct \in {"try", "catch"}}
  BY <1>1 DEF Marked, Due
<1>3. Marked(frames, Holding)
        = {i \in DOMAIN frames : frames[i].construct = "finally" /\ Failed(frames[i].pending)}
  BY <1>1 DEF Marked, Holding
<1> QED
  BY <1>2, <1>3 DEF Count

LEMMA InvariantMeans == IInv => TypeOK /\ FinallyAlwaysRuns /\ ErrorsAreNotLost
<1> SUFFICES ASSUME IInv PROVE TypeOK /\ FinallyAlwaysRuns /\ ErrorsAreNotLost
  OBVIOUS
<1>1. TypeOK
  BY DEF IInv, Shape, TypeOK, Ledger
<1>2. frames \in Seq(Frame)
  BY DEF IInv, Shape
<1>3. FinallyAlwaysRuns /\ ErrorsAreNotLost
  BY <1>2, CountsMeant DEF IInv, Balanced, FinallyAlwaysRuns, ErrorsAreNotLost, One
<1> QED
  BY <1>1, <1>3

\* At every step of a program, each open construct stands between the scopes it
\* began with and those it has opened itself, and the ledger agrees with the
\* constructs whose finally block is due or holds an error.
THEOREM ControlInvariant == Spec => []IInv
BY InitHolds, Step, PTL DEF Spec

\* The evaluator's stacks hold what their types say, and the global scope is never
\* popped.
THEOREM ControlTypes == Spec => []TypeOK
BY ControlInvariant, InvariantMeans, PTL

\* Every try that was entered begins its finally block exactly once.
THEOREM FinallyRuns == Spec => []FinallyAlwaysRuns
BY ControlInvariant, InvariantMeans, PTL

\* No error disappears, and none is reported twice.
THEOREM ErrorsAreKept == Spec => []ErrorsAreNotLost
BY ControlInvariant, InvariantMeans, PTL

\* However a construct is left, the scopes are those it was entered with.
THEOREM ScopesComeBack == Spec => ScopesRestored
BY ControlInvariant, Step, PTL DEF Spec, ScopesRestored
=============================================================================
