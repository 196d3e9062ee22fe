-------------------------- MODULE BorrowingReferences --------------------------
(* Proofs that a reference can be used exactly as long as its loan: a name    *)
(* bound as a reference is backed by an active loan of its own mode.  The     *)
(* invariant says more than that a loan is there: it is old enough.  A loan   *)
(* made after a construct began goes when that construct ends, so the loan of *)
(* a reference that the end of the construct leaves bound must lie below the  *)
(* construct's checkpoint.                                                    *)
(* The second half is about what is lent: a step writes no lent field of an   *)
(* instance, and the owner of a local reference keeps its value, each under   *)
(* the condition on programs that its theorem states.                         *)
EXTENDS BorrowingLoans

\* Loan k stays for as long as scope i is open: every construct whose end
\* leaves scope i open began when the loan was there.
HeldWhile(ac, fr, k, i) ==
  /\ k \in 1..Len(ac)
  /\ \A j \in 1..Len(fr) : fr[j].depth >= i => k <= fr[j].checkpoint

\* The loan of a reference n of scope i (BacksReference, of one binding).
Backs(loan, i, n, exclusive) ==
  /\ loan.parameter = n
  /\ (loan.mode = "Exclusive") = exclusive
  /\ \/ loan.scope \in {i, NoScope}
     \/ loan.scope = i - 1 /\ loan.escape = "Iteration"

RefBacked(ac, fr, i, n, exclusive) ==
  \E k \in 1..Len(ac) : HeldWhile(ac, fr, k, i) /\ Backs(ac[k], i, n, exclusive)

\* A loop that walks by reference has one scope, which holds the loan that the
\* scopes of its elements will use.
LoopBacked(ac, fr, frame) ==
  \E k \in 1..Len(ac) :
    /\ HeldWhile(ac, fr, k, frame.depth + 1)
    /\ ac[k].parameter = frame.name /\ ac[k].mode = "Shared"
    /\ ac[k].scope = frame.depth + 1 /\ ac[k].escape = "Iteration"

\* A `ref' parameter that a call has gone past has its loan.
ParameterBacked(ac, parameter) ==
  \E k \in 1..Len(ac) :
    /\ ac[k].parameter = parameter.name /\ ac[k].scope = NoScope
    /\ (ac[k].mode = "Exclusive") = parameter.mut

RefsBacked(sc, ac, fr) ==
  \A i \in 1..Len(sc) : \A n \in DOMAIN sc[i] :
    sc[i][n].ref => RefBacked(ac, fr, i, n, sc[i][n].excl)

LoopsBacked(sc, ac, fr) ==
  \A j \in 1..Len(fr) : fr[j].kind = "loop" =>
    ScopesAbove(sc, fr, j) = fr[j].depth + 1 /\ LoopBacked(ac, fr, fr[j])

GonePast(frame, p) == p < frame.next /\ Parameters(frame.function)[p].ref
BindsBacked(ac, fr) ==
  \A j \in 1..Len(fr) : fr[j].kind = "bind" =>
    \A p \in 1..Len(Parameters(fr[j].function)) :
      GonePast(fr[j], p) => ParameterBacked(ac, Parameters(fr[j].function)[p])

Backed(sc, ac, fr) == RefsBacked(sc, ac, fr) /\ LoopsBacked(sc, ac, fr) /\ BindsBacked(ac, fr)

-----------------------------------------------------------------------------
(* What keeps references, loops and parameters backed.                       *)

\* No loan ends.
Extends(ac, ac2) == Len(ac2) >= Len(ac) /\ \A k \in 1..Len(ac) : ac2[k] = ac[k]

\* Each construct is an old one, or begins with all the loans there are.
FramesFrom(ac, fr, fr2) ==
  \A j \in 1..Len(fr2) :
    \/ /\ j \in 1..Len(fr)
       /\ fr2[j].depth = fr[j].depth /\ fr2[j].checkpoint = fr[j].checkpoint
    \/ fr2[j].checkpoint >= Len(ac)

\* What was a reference, a loop, a parameter before is one still.
OldRef(sc, sc2, i, n) ==
  /\ i \in 1..Len(sc) /\ n \in DOMAIN sc[i]
  /\ sc[i][n].ref /\ sc[i][n].excl = sc2[i][n].excl
OldLoop(fr, fr2, j) ==
  /\ j \in 1..Len(fr) /\ fr[j].kind = "loop"
  /\ fr[j].depth = fr2[j].depth /\ fr[j].name = fr2[j].name
OldParameter(fr, fr2, j, p) ==
  /\ j \in 1..Len(fr) /\ fr[j].kind = "bind"
  /\ fr[j].function = fr2[j].function /\ p < fr[j].next

RefsFrom(sc, sc2, ac2, fr2) ==
  \A i \in 1..Len(sc2) : \A n \in DOMAIN sc2[i] :
    sc2[i][n].ref => OldRef(sc, sc2, i, n) \/ RefBacked(ac2, fr2, i, n, sc2[i][n].excl)
LoopsFrom(fr, sc2, ac2, fr2) ==
  \A j \in 1..Len(fr2) : fr2[j].kind = "loop" =>
    /\ ScopesAbove(sc2, fr2, j) = fr2[j].depth + 1
    /\ OldLoop(fr, fr2, j) \/ LoopBacked(ac2, fr2, fr2[j])
BindsFrom(fr, ac2, fr2) ==
  \A j \in 1..Len(fr2) : fr2[j].kind = "bind" =>
    \A p \in 1..Len(Parameters(fr2[j].function)) :
      GonePast(fr2[j], p) =>
        OldParameter(fr, fr2, j, p) \/ ParameterBacked(ac2, Parameters(fr2[j].function)[p])

\* SequenceTypes, of two stacks.
LEMMA LoanAndFrameTypes ==
  ASSUME NEW ac \in Seq(Loan), NEW fr \in Seq(Frame)
  PROVE  /\ Len(ac) \in Nat /\ Len(fr) \in Nat
         /\ \A j \in 1..Len(fr) : fr[j].depth \in Nat /\ fr[j].checkpoint \in Nat
<1>1. <<>> \in Seq(Scope)
  OBVIOUS
<1> QED
  BY <1>1, SequenceTypes

\* A loan that is held is held after a step that ends no loan.
LEMMA HeldOn ==
  ASSUME NEW ac \in Seq(Loan), NEW fr \in Seq(Frame), NEW ac2 \in Seq(Loan), NEW fr2 \in Seq(Frame),
         Extends(ac, ac2), FramesFrom(ac, fr, fr2),
         NEW i \in Nat, NEW k \in 1..Len(ac), HeldWhile(ac, fr, k, i)
  PROVE  k \in 1..Len(ac2) /\ HeldWhile(ac2, fr2, k, i) /\ ac2[k] = ac[k]
<1>1. /\ Len(ac) \in Nat /\ Len(ac2) \in Nat
      /\ \A j \in 1..Len(fr2) : fr2[j].depth \in Nat /\ fr2[j].checkpoint \in Nat
  BY LoanAndFrameTypes
<1>2. k \in 1..Len(ac2) /\ ac2[k] = ac[k]
  BY <1>1 DEF Extends
<1>3. ASSUME NEW j \in 1..Len(fr2), fr2[j].depth >= i PROVE k <= fr2[j].checkpoint
  <2>1. CASE fr2[j].checkpoint >= Len(ac)
    BY <1>1, <2>1
  <2>2. CASE ~(fr2[j].checkpoint >= Len(ac))
    <3>1. /\ j \in 1..Len(fr)
          /\ fr2[j].depth = fr[j].depth /\ fr2[j].checkpoint = fr[j].checkpoint
      BY <2>2 DEF FramesFrom
    <3> QED
      BY <1>3, <3>1 DEF HeldWhile
  <2> QED
    BY <2>1, <2>2
<1> QED
  BY <1>2, <1>3 DEF HeldWhile

\* A step that ends no loan keeps what was backed, and backs what it adds.
LEMMA KeepBacked ==
  ASSUME NEW sc \in Seq(Scope), NEW ac \in Seq(Loan), NEW fr \in Seq(Frame),
         NEW sc2 \in Seq(Scope), NEW ac2 \in Seq(Loan), NEW fr2 \in Seq(Frame),
         Backed(sc, ac, fr), Extends(ac, ac2), FramesFrom(ac, fr, fr2),
         RefsFrom(sc, sc2, ac2, fr2), LoopsFrom(fr, sc2, ac2, fr2), BindsFrom(fr, ac2, fr2)
  PROVE  Backed(sc2, ac2, fr2)
<1>1. /\ Len(ac) \in Nat /\ Len(ac2) \in Nat
      /\ \A j \in 1..Len(fr2) : fr2[j].depth \in Nat
  BY LoanAndFrameTypes
<1>2. ASSUME NEW i \in 1..Len(sc2), NEW n \in DOMAIN sc2[i], sc2[i][n].ref
      PROVE  RefBacked(ac2, fr2, i, n, sc2[i][n].excl)
  <2>1. CASE OldRef(sc, sc2, i, n)
    <3>1. RefBacked(ac, fr, i, n, sc2[i][n].excl)
      BY <2>1 DEF OldRef, Backed, RefsBacked
    <3>2. PICK k \in 1..Len(ac) : HeldWhile(ac, fr, k, i) /\ Backs(ac[k], i, n, sc2[i][n].excl)
      BY <3>1 DEF RefBacked
    <3>3. i \in Nat
      OBVIOUS
    <3>4. k \in 1..Len(ac2) /\ HeldWhile(ac2, fr2, k, i) /\ ac2[k] = ac[k]
      BY <3>2, <3>3, HeldOn
    <3> QED
      BY <3>2, <3>4 DEF RefBacked
  <2>2. CASE ~OldRef(sc, sc2, i, n)
    BY <1>2, <2>2 DEF RefsFrom
  <2> QED
    BY <2>1, <2>2
<1>3. ASSUME NEW j \in 1..Len(fr2), fr2[j].kind = "loop"
      PROVE  ScopesAbove(sc2, fr2, j) = fr2[j].depth + 1 /\ LoopBacked(ac2, fr2, fr2[j])
  <2>1. CASE OldLoop(fr, fr2, j)
    <3> DEFINE d == fr2[j].depth + 1
               name == fr2[j].name
    <3>1. LoopBacked(ac, fr, fr[j]) /\ fr[j].depth + 1 = d /\ fr[j].name = name
      BY <2>1 DEF OldLoop, Backed, LoopsBacked
    <3>2. d \in Nat
      BY <1>1
    <3> HIDE DEF d, name
    <3>3. PICK k \in 1..Len(ac) :
            /\ HeldWhile(ac, fr, k, d) /\ ac[k].parameter = name /\ ac[k].mode = "Shared"
            /\ ac[k].scope = d /\ ac[k].escape = "Iteration"
      BY <3>1 DEF LoopBacked
    <3>4. k \in 1..Len(ac2) /\ HeldWhile(ac2, fr2, k, d) /\ ac2[k] = ac[k]
      BY <3>2, <3>3, HeldOn
    <3>5. LoopBacked(ac2, fr2, fr2[j])
      BY <3>3, <3>4 DEF LoopBacked, d, name
    <3> QED
      BY <1>3, <3>5 DEF LoopsFrom
  <2>2. CASE ~OldLoop(fr, fr2, j)
    BY <1>3, <2>2 DEF LoopsFrom
  <2> QED
    BY <2>1, <2>2
<1>4. ASSUME NEW j \in 1..Len(fr2), fr2[j].kind = "bind",
             NEW p \in 1..Len(Parameters(fr2[j].function)), GonePast(fr2[j], p)
      PROVE  ParameterBacked(ac2, Parameters(fr2[j].function)[p])
  <2>1. CASE OldParameter(fr, fr2, j, p)
    <3>1. GonePast(fr[j], p)
      BY <1>4, <2>1 DEF OldParameter, GonePast
    <3>2. ParameterBacked(ac, Parameters(fr2[j].function)[p])
      BY <2>1, <3>1 DEF OldParameter, Backed, BindsBacked
    <3>3. \A k \in 1..Len(ac) : k \in 1..Len(ac2) /\ ac2[k] = ac[k]
      BY <1>1 DEF Extends
    <3> QED
      BY <3>2, <3>3 DEF ParameterBacked
  <2>2. CASE ~OldParameter(fr, fr2, j, p)
    BY <1>4, <2>2 DEF BindsFrom
  <2> QED
    BY <2>1, <2>2
<1> QED
  BY <1>2, <1>3, <1>4 DEF Backed, RefsBacked, LoopsBacked, BindsBacked

\* The end of the innermost construct: the loans of what stays bound are older.
LEMMA CutBacked ==
  ASSUME NEW sc \in Seq(Scope), NEW ac \in Seq(Loan), NEW fr \in Seq(Frame),
         Nested(sc, ac, fr), fr # <<>>, Backed(sc, ac, fr)
  PROVE  Backed(SubSeq(sc, 1, TopOf(fr).depth), SubSeq(ac, 1, TopOf(fr).checkpoint),
                SubSeq(fr, 1, Len(fr) - 1))
<1> DEFINE n == Len(fr)
           d == fr[n].depth
           c == fr[n].checkpoint
           sc2 == SubSeq(sc, 1, d)
           ac2 == SubSeq(ac, 1, c)
           fr2 == SubSeq(fr, 1, n - 1)
<1>1. /\ Len(sc) \in Nat /\ Len(ac) \in Nat /\ n \in Nat /\ n > 0 /\ n \in 1..n
      /\ \A k \in 1..n : fr[k].depth \in Nat /\ fr[k].checkpoint \in Nat
  BY SequenceTypes
<1>2. d \in 1..Len(sc) /\ c \in 0..Len(ac) /\ d \in Nat /\ c \in Nat
  BY <1>1, CloseNested DEF TopOf
<1>3. Len(sc2) = d /\ \A i \in 1..d : sc2[i] = sc[i]
  <2>1. d \in 0..Len(sc)
    BY <1>1, <1>2
  <2> QED
    BY <2>1, PrefixIs
<1>4. Len(ac2) = c /\ \A k \in 1..c : ac2[k] = ac[k]
  BY <1>2, PrefixIs
<1>5. Len(fr2) = n - 1 /\ \A j \in 1..(n - 1) : fr2[j] = fr[j]
  <2>1. n - 1 \in 0..Len(fr)
    BY <1>1
  <2> QED
    BY <2>1, PrefixIs
<1> HIDE DEF sc2, ac2, fr2
<1>6. ASSUME NEW i \in 1..d, NEW k \in 1..Len(ac), HeldWhile(ac, fr, k, i)
      PROVE  k \in 1..Len(ac2) /\ HeldWhile(ac2, fr2, k, i) /\ ac2[k] = ac[k]
  <2>1. k <= c
    BY <1>1, <1>2, <1>6 DEF HeldWhile
  <2>2. k \in 1..c
    BY <1>1, <1>2, <2>1
  <2>3. \A j \in 1..(n - 1) : j \in 1..n
    BY <1>1
  <2> QED
    BY <1>4, <1>5, <1>6, <2>2, <2>3 DEF HeldWhile
<1>7. ASSUME NEW i \in 1..d, NEW m \in DOMAIN sc2[i], sc2[i][m].ref
      PROVE  RefBacked(ac2, fr2, i, m, sc2[i][m].excl)
  <2>1. i \in 1..Len(sc) /\ sc2[i] = sc[i]
    BY <1>1, <1>2, <1>3
  <2>2. RefBacked(ac, fr, i, m, sc2[i][m].excl)
    BY <1>7, <2>1 DEF Backed, RefsBacked
  <2>3. PICK k \in 1..Len(ac) : HeldWhile(ac, fr, k, i) /\ Backs(ac[k], i, m, sc2[i][m].excl)
    BY <2>2 DEF RefBacked
  <2>4. k \in 1..Len(ac2) /\ HeldWhile(ac2, fr2, k, i) /\ ac2[k] = ac[k]
    BY <1>6, <2>3
  <2> QED
    BY <2>3, <2>4 DEF RefBacked
<1>8. ASSUME NEW j \in 1..(n - 1), fr2[j].kind = "loop"
      PROVE  ScopesAbove(sc2, fr2, j) = fr2[j].depth + 1 /\ LoopBacked(ac2, fr2, fr2[j])
  <2>1. j \in 1..n /\ j + 1 \in 1..n /\ j # n /\ fr2[j] = fr[j]
    BY <1>1, <1>5
  <2>2. ScopesAbove(sc, fr, j) = fr[j].depth + 1 /\ LoopBacked(ac, fr, fr[j])
    BY <1>8, <2>1 DEF Backed, LoopsBacked
  <2>3. fr[j + 1].depth = fr[j].depth + 1
    BY <2>1, <2>2 DEF ScopesAbove
  <2>4. fr[j + 1].depth <= d
    <3>1. FrameNests(sc, ac, fr, n)
      BY <1>1 DEF Nested
    <3> QED
      BY <2>1, <3>1 DEF FrameNests
  <2>5. ScopesAbove(sc2, fr2, j) = fr[j].depth + 1
    <3>1. CASE j = n - 1
      <4>1. j + 1 = n
        BY <1>1, <3>1
      <4> QED
        BY <1>3, <1>5, <2>3, <3>1, <4>1 DEF ScopesAbove
    <3>2. CASE j # n - 1
      <4>1. j + 1 \in 1..(n - 1)
        BY <1>1, <3>2
      <4> QED
        BY <1>5, <2>3, <3>2, <4>1 DEF ScopesAbove
    <3> QED
      BY <3>1, <3>2
  <2> DEFINE e == fr[j].depth + 1
             name == fr[j].name
  <2>6. e \in 1..d
    BY <1>1, <1>2, <2>1, <2>3, <2>4
  <2>7. PICK k \in 1..Len(ac) :
          /\ HeldWhile(ac, fr, k, e) /\ ac[k].parameter = name /\ ac[k].mode = "Shared"
          /\ ac[k].scope = e /\ ac[k].escape = "Iteration"
    BY <2>2 DEF LoopBacked
  <2> HIDE DEF e, name
  <2>8. k \in 1..Len(ac2) /\ HeldWhile(ac2, fr2, k, e) /\ ac2[k] = ac[k]
    BY <1>6, <2>6, <2>7
  <2>9. LoopBacked(ac2, fr2, fr[j])
    BY <2>7, <2>8 DEF LoopBacked, e, name
  <2> QED
    BY <2>1, <2>5, <2>9
<1>9. ASSUME NEW j \in 1..(n - 1) PROVE fr2[j].kind # "bind"
  <2>1. j \in 1..n /\ j # n /\ fr2[j] = fr[j]
    <3>1. j \in 1..n /\ j # n
      BY <1>1
    <3> QED
      BY <1>5, <3>1
  <2>2. FrameNests(sc, ac, fr, j)
    BY <2>1 DEF Nested
  <2> QED
    BY <2>1, <2>2 DEF FrameNests
<1>10. RefsBacked(sc2, ac2, fr2)
  BY <1>3, <1>7 DEF RefsBacked
<1>11. LoopsBacked(sc2, ac2, fr2)
  BY <1>5, <1>8 DEF LoopsBacked
<1>12. BindsBacked(ac2, fr2)
  BY <1>5, <1>9 DEF BindsBacked
<1> QED
  BY <1>10, <1>11, <1>12 DEF Backed, TopOf, sc2, ac2, fr2

\* The constructs go on: no scope opens or closes, and a call that goes past a
\* `ref' parameter has its loan.
Continues(ac2, fr, fr2) ==
  /\ Len(fr2) = Len(fr)
  /\ \A j \in 1..Len(fr) :
       /\ fr2[j].kind = fr[j].kind /\ fr2[j].name = fr[j].name /\ fr2[j].function = fr[j].function
       /\ fr2[j].depth = fr[j].depth /\ fr2[j].checkpoint = fr[j].checkpoint
       /\ fr[j].kind = "bind" =>
            \A p \in 1..Len(Parameters(fr[j].function)) :
              GonePast(fr2[j], p) =>
                p < fr[j].next \/ ParameterBacked(ac2, Parameters(fr[j].function)[p])

LEMMA ContinueBacked ==
  ASSUME NEW sc \in Seq(Scope), NEW ac \in Seq(Loan), NEW fr \in Seq(Frame),
         NEW sc2 \in Seq(Scope), NEW ac2 \in Seq(Loan), NEW fr2 \in Seq(Frame),
         Backed(sc, ac, fr), Extends(ac, ac2), Len(sc2) = Len(sc),
         Continues(ac2, fr, fr2), RefsFrom(sc, sc2, ac2, fr2)
  PROVE  Backed(sc2, ac2, fr2)
<1>1. Len(fr2) = Len(fr) /\ Len(fr) \in Nat
  BY LoanAndFrameTypes DEF Continues
<1>2. FramesFrom(ac, fr, fr2)
  BY DEF Continues, FramesFrom
<1>3. LoopsFrom(fr, sc2, ac2, fr2)
  <2> SUFFICES ASSUME NEW j \in 1..Len(fr), fr2[j].kind = "loop"
               PROVE  ScopesAbove(sc2, fr2, j) = fr2[j].depth + 1 /\ OldLoop(fr, fr2, j)
    BY <1>1 DEF LoopsFrom
  <2>1. OldLoop(fr, fr2, j)
    BY DEF Continues, OldLoop
  <2>2. ScopesAbove(sc, fr, j) = fr[j].depth + 1
    BY <2>1 DEF OldLoop, Backed, LoopsBacked
  <2>3. j # Len(fr) => j + 1 \in 1..Len(fr)
    BY <1>1
  <2>4. ScopesAbove(sc2, fr2, j) = ScopesAbove(sc, fr, j)
    BY <1>1, <2>3 DEF ScopesAbove, Continues
  <2> QED
    BY <2>1, <2>2, <2>4 DEF OldLoop
<1>4. BindsFrom(fr, ac2, fr2)
  BY <1>1 DEF Continues, BindsFrom, OldParameter
<1> QED
  BY <1>2, <1>3, <1>4, KeepBacked

\* A construct begins with the scopes and the loans there are.
LEMMA OpenBacked ==
  ASSUME NEW sc \in Seq(Scope), NEW ac \in Seq(Loan), NEW fr \in Seq(Frame),
         NEW sc2 \in Seq(Scope), NEW ac2 \in Seq(Loan), NEW frame \in Frame,
         Backed(sc, ac, fr), Extends(ac, ac2),
         frame.depth = Len(sc), frame.checkpoint = Len(ac),
         frame.kind = "bind" => frame.next = 1,
         frame.kind = "loop" => /\ Len(sc2) = Len(sc) + 1
                                /\ LoopBacked(ac2, Append(fr, frame), frame),
         RefsFrom(sc, sc2, ac2, Append(fr, frame))
  PROVE  Backed(sc2, ac2, Append(fr, frame))
<1> DEFINE fr2 == Append(fr, frame)
           n == Len(fr)
<1>1. /\ fr2 \in Seq(Frame) /\ Len(fr2) = n + 1 /\ fr2[n + 1] = frame /\ n \in Nat
      /\ \A j \in 1..n : fr2[j] = fr[j]
  BY AppendProperties
<1> HIDE DEF fr2
<1>2. Len(ac) \in Nat /\ Len(sc) \in Nat
  BY SequenceTypes
<1>3. \A j \in 1..(n + 1) : j = n + 1 \/ (j \in 1..n /\ j # n + 1)
  BY <1>1
<1>4. FramesFrom(ac, fr, fr2)
  BY <1>1, <1>2, <1>3 DEF FramesFrom
<1>5. LoopsFrom(fr, sc2, ac2, fr2)
  <2> SUFFICES ASSUME NEW j \in 1..(n + 1), fr2[j].kind = "loop"
               PROVE  /\ ScopesAbove(sc2, fr2, j) = fr2[j].depth + 1
                      /\ OldLoop(fr, fr2, j) \/ LoopBacked(ac2, fr2, fr2[j])
    BY <1>1 DEF LoopsFrom
  <2>1. CASE j = n + 1
    BY <1>1, <2>1 DEF ScopesAbove, fr2
  <2>2. CASE j # n + 1
    <3>1. j \in 1..n /\ fr2[j] = fr[j]
      BY <1>1, <1>3, <2>2
    <3>2. ScopesAbove(sc, fr, j) = fr[j].depth + 1
      BY <3>1 DEF Backed, LoopsBacked
    <3>3. ScopesAbove(sc2, fr2, j) = ScopesAbove(sc, fr, j)
      <4>1. CASE j = n
        BY <1>1, <2>2, <4>1 DEF ScopesAbove
      <4>2. CASE j # n
        <5>1. j + 1 \in 1..n
          BY <1>1, <3>1, <4>2
        <5> QED
          BY <1>1, <2>2, <4>2, <5>1 DEF ScopesAbove
      <4> QED
        BY <4>1, <4>2
    <3> QED
      BY <3>1, <3>2, <3>3 DEF OldLoop
  <2> QED
    BY <2>1, <2>2
<1>6. BindsFrom(fr, ac2, fr2)
  <2> SUFFICES ASSUME NEW j \in 1..(n + 1), fr2[j].kind = "bind",
                      NEW p \in 1..Len(Parameters(fr2[j].function)), GonePast(fr2[j], p)
               PROVE  OldParameter(fr, fr2, j, p)
    BY <1>1 DEF BindsFrom
  <2>1. j # n + 1
    BY <1>1 DEF GonePast
  <2>2. j \in 1..n /\ fr2[j] = fr[j]
    BY <1>1, <1>3, <2>1
  <2> QED
    BY <2>2 DEF OldParameter, GonePast
<1>7. RefsFrom(sc, sc2, ac2, fr2)
  BY DEF fr2
<1>8. Backed(sc2, ac2, fr2)
  BY <1>1, <1>4, <1>5, <1>6, <1>7, KeepBacked
<1> QED
  BY <1>8 DEF fr2

\* A half-evaluated statement ends: it opened no scope.
LEMMA PopBacked ==
  ASSUME NEW sc \in Seq(Scope), NEW ac \in Seq(Loan), NEW fr \in Seq(Frame),
         NEW sc2 \in Seq(Scope), NEW ac2 \in Seq(Loan),
         Backed(sc, ac, fr), Extends(ac, ac2), Len(sc2) = Len(sc),
         fr # <<>>, TopOf(fr).depth = Len(sc),
         RefsFrom(sc, sc2, ac2, SubSeq(fr, 1, Len(fr) - 1))
  PROVE  Backed(sc2, ac2, SubSeq(fr, 1, Len(fr) - 1))
<1> DEFINE n == Len(fr)
           fr2 == SubSeq(fr, 1, n - 1)
<1>1. n \in Nat /\ n > 0
  OBVIOUS
<1>2. fr2 \in Seq(Frame) /\ Len(fr2) = n - 1 /\ \A j \in 1..(n - 1) : fr2[j] = fr[j]
  <2>1. n - 1 \in 0..Len(fr)
    BY <1>1
  <2> QED
    BY <2>1, PrefixIs
<1> HIDE DEF fr2
<1>3. \A j \in 1..(n - 1) : j \in 1..n /\ j + 1 \in 1..n /\ j # n
  BY <1>1
<1>4. FramesFrom(ac, fr, fr2)
  BY <1>2, <1>3 DEF FramesFrom
<1>5. LoopsFrom(fr, sc2, ac2, fr2)
  <2> SUFFICES ASSUME NEW j \in 1..(n - 1), fr2[j].kind = "loop"
               PROVE  ScopesAbove(sc2, fr2, j) = fr2[j].depth + 1 /\ OldLoop(fr, fr2, j)
    BY <1>2 DEF LoopsFrom
  <2>1. OldLoop(fr, fr2, j)
    BY <1>2, <1>3 DEF OldLoop
  <2>2. fr[j + 1].depth = fr[j].depth + 1
    BY <1>3, <2>1 DEF OldLoop, Backed, LoopsBacked, ScopesAbove
  <2>3. ScopesAbove(sc2, fr2, j) = fr[j + 1].depth
    <3>1. CASE j = n - 1
      <4>1. j + 1 = n
        BY <1>1, <3>1
      <4> QED
        BY <1>2, <3>1, <4>1 DEF ScopesAbove, TopOf
    <3>2. CASE j # n - 1
      <4>1. j + 1 \in 1..(n - 1)
        BY <1>1, <3>2
      <4> QED
        BY <1>2, <3>2, <4>1 DEF ScopesAbove
    <3> QED
      BY <3>1, <3>2
  <2> QED
    BY <1>2, <2>1, <2>2, <2>3
<1>6. BindsFrom(fr, ac2, fr2)
  BY <1>2, <1>3 DEF BindsFrom, OldParameter, GonePast
<1>7. RefsFrom(sc, sc2, ac2, fr2)
  BY DEF fr2
<1>8. Backed(sc2, ac2, fr2)
  BY <1>2, <1>4, <1>5, <1>6, <1>7, KeepBacked
<1> QED
  BY <1>8 DEF fr2

-----------------------------------------------------------------------------
(* References before and after a change of the scopes; the newest loan.      *)

SameRefs(sc, sc2) ==
  \A i \in 1..Len(sc2) : \A n \in DOMAIN sc2[i] : sc2[i][n].ref => OldRef(sc, sc2, i, n)

\* A scope is opened whose references are backed.
LEMMA RefsAppend ==
  ASSUME NEW sc \in Seq(Scope), NEW scope \in Scope, NEW ac2, NEW fr2,
         \A n \in DOMAIN scope :
           scope[n].ref => RefBacked(ac2, fr2, Len(sc) + 1, n, scope[n].excl)
  PROVE  RefsFrom(sc, Append(sc, scope), ac2, fr2)
<1> DEFINE sc2 == Append(sc, scope)
<1>1. /\ Len(sc) \in Nat /\ Len(sc2) = Len(sc) + 1 /\ sc2[Len(sc) + 1] = scope
      /\ \A i \in 1..Len(sc) : sc2[i] = sc[i]
  BY AppendProperties
<1> HIDE DEF sc2
<1>2. ASSUME NEW i \in 1..Len(sc2), NEW n \in DOMAIN sc2[i], sc2[i][n].ref
      PROVE  OldRef(sc, sc2, i, n) \/ RefBacked(ac2, fr2, i, n, sc2[i][n].excl)
  <2>1. CASE i = Len(sc) + 1
    BY <1>1, <1>2, <2>1
  <2>2. CASE i # Len(sc) + 1
    <3>1. i \in 1..Len(sc) /\ sc2[i] = sc[i]
      BY <1>1, <2>2
    <3> QED
      BY <1>2, <3>1 DEF OldRef
  <2> QED
    BY <2>1, <2>2
<1>3. RefsFrom(sc, sc2, ac2, fr2)
  BY <1>2 DEF RefsFrom
<1> QED
  BY <1>3 DEF sc2

\* A name is bound in the innermost scope, and backed if it is a reference.
LEMMA RefsDefine ==
  ASSUME NEW sc \in Seq(Scope), sc # <<>>, NEW n, NEW binding, NEW ac2, NEW fr2,
         binding.ref => RefBacked(ac2, fr2, Len(sc), n, binding.excl)
  PROVE  RefsFrom(sc, Define(sc, n, binding), ac2, fr2)
<1> DEFINE sc2 == Define(sc, n, binding)
           last == sc[Len(sc)]
           grown == [m \in DOMAIN last \cup {n} |-> IF m = n THEN binding ELSE last[m]]
<1>1. Len(sc) \in 1..Len(sc)
  OBVIOUS
<1>2. /\ Len(sc2) = Len(sc)
      /\ \A i \in 1..Len(sc) : sc2[i] = IF i = Len(sc) THEN grown ELSE sc[i]
  BY <1>1 DEF Define
<1> HIDE DEF sc2
<1>3. ASSUME NEW i \in 1..Len(sc2), NEW m \in DOMAIN sc2[i], sc2[i][m].ref
      PROVE  OldRef(sc, sc2, i, m) \/ RefBacked(ac2, fr2, i, m, sc2[i][m].excl)
  <2>1. CASE i # Len(sc)
    <3>1. i \in 1..Len(sc) /\ sc2[i] = sc[i]
      BY <1>2, <2>1
    <3> QED
      BY <1>3, <3>1 DEF OldRef
  <2>2. CASE i = Len(sc) /\ m = n
    <3>1. sc2[i][m] = binding
      BY <1>1, <1>2, <2>2
    <3> QED
      BY <1>3, <2>2, <3>1
  <2>3. CASE i = Len(sc) /\ m # n
    <3>1. m \in DOMAIN sc[i] /\ sc2[i][m] = sc[i][m]
      <4>1. sc2[i] = grown /\ sc[i] = last
        BY <1>1, <1>2, <2>3
      <4>2. m \in DOMAIN grown
        BY <4>1
      <4> QED
        BY <2>3, <4>1, <4>2
    <3> QED
      BY <1>2, <1>3, <3>1 DEF OldRef
  <2> QED
    BY <2>1, <2>2, <2>3
<1>4. RefsFrom(sc, sc2, ac2, fr2)
  BY <1>3 DEF RefsFrom
<1> QED
  BY <1>4 DEF sc2

\* The newest loan is held while the scopes are open that no construct under
\* way leaves behind.
LEMMA NewestHeld ==
  ASSUME NEW ac \in Seq(Loan), NEW fr \in Seq(Frame), NEW loan \in Loan, NEW i \in Nat,
         \A j \in 1..Len(fr) : fr[j].depth < i
  PROVE  LET ac2 == Append(ac, loan)
             k == Len(ac) + 1
         IN  /\ ac2 \in Seq(Loan) /\ Extends(ac, ac2)
             /\ k \in 1..Len(ac2) /\ ac2[k] = loan /\ HeldWhile(ac2, fr, k, i)
<1> DEFINE ac2 == Append(ac, loan)
<1>1. /\ ac2 \in Seq(Loan) /\ Len(ac2) = Len(ac) + 1 /\ ac2[Len(ac) + 1] = loan
      /\ Len(ac) \in Nat /\ \A k \in 1..Len(ac) : ac2[k] = ac[k]
  BY AppendProperties
<1> HIDE DEF ac2
<1>2. \A j \in 1..Len(fr) : fr[j].depth \in Nat
  BY LoanAndFrameTypes
<1>3. \A j \in 1..Len(fr) : ~(fr[j].depth >= i)
  BY <1>2
<1>4. Extends(ac, ac2) /\ Len(ac) + 1 \in 1..Len(ac2)
  BY <1>1 DEF Extends
<1>5. HeldWhile(ac2, fr, Len(ac) + 1, i)
  BY <1>3, <1>4 DEF HeldWhile
<1> QED
  BY <1>1, <1>4, <1>5 DEF ac2

LEMMA ExtendsSame == ASSUME NEW ac \in Seq(Loan) PROVE Extends(ac, ac)
BY DEF Extends

\* No construct under way is deeper than the scopes; where statements run,
\* each has a scope of its own.
LEMMA DepthBelow ==
  ASSUME NEW sc \in Seq(Scope), NEW ac \in Seq(Loan), NEW fr \in Seq(Frame), Nested(sc, ac, fr)
  PROVE  /\ \A j \in 1..Len(fr) : fr[j].depth < Len(sc) + 1
         /\ (fr # <<>> => ~Inert(TopOf(fr))) => \A j \in 1..Len(fr) : fr[j].depth < Len(sc)
<1> DEFINE n == Len(fr)
<1>1. /\ Len(sc) \in Nat /\ n \in Nat
      /\ \A j \in 1..n : fr[j].depth \in Nat
  BY SequenceTypes
<1>2. ASSUME NEW j \in 1..n PROVE fr[j].depth < Len(sc) + 1
  <2>1. FrameNests(sc, ac, fr, j)
    BY DEF Nested
  <2> QED
    BY <1>1, <2>1 DEF FrameNests
<1>3. ASSUME fr # <<>> => ~Inert(TopOf(fr)), NEW j \in 1..n PROVE fr[j].depth < Len(sc)
  <2>1. n \in 1..n /\ ~Inert(fr[n])
    BY <1>1, <1>3 DEF TopOf
  <2>2. FrameNests(sc, ac, fr, n)
    BY <2>1 DEF Nested
  <2>3. fr[n].depth < Len(sc) /\ fr[j].depth <= fr[n].depth
    BY <1>1, <2>1, <2>2 DEF FrameNests, ScopesAbove
  <2> QED
    BY <1>1, <2>1, <2>3
<1> QED
  BY <1>2, <1>3

-----------------------------------------------------------------------------
(* The actions keep everything backed.                                       *)

RInv == IInv /\ Backed(scopes, active, frames)
BackedAfter == Backed(scopes', active', frames')

LEMMA AfterTyped ==
  ASSUME IInv'
  PROVE  scopes' \in Seq(Scope) /\ active' \in Seq(Loan) /\ frames' \in Seq(Frame)
BY DEF IInv, WellTyped, Typed

LEMMA AppendedTyped ==
  ASSUME NEW S, NEW s \in Seq(S), NEW e, Append(s, e) \in Seq(S)
  PROVE  e \in S
<1> DEFINE t == Append(s, e)
<1>1. Len(t) = Len(s) + 1 /\ t[Len(s) + 1] = e /\ Len(s) \in Nat
  OBVIOUS
<1>2. t \in Seq(S)
  OBVIOUS
<1> HIDE DEF t
<1>3. Len(s) + 1 \in 1..Len(t)
  BY <1>1
<1>4. t[Len(s) + 1] \in S
  BY <1>2, <1>3
<1> QED
  BY <1>1, <1>4

LEMMA ContinuesSame == \A ac, fr : Continues(ac, fr, fr)
BY DEF Continues, GonePast

LEMMA SameRefsFrom ==
  ASSUME NEW sc, NEW sc2, NEW ac2, NEW fr2, SameRefs(sc, sc2)
  PROVE  RefsFrom(sc, sc2, ac2, fr2)
BY DEF SameRefs, RefsFrom

LEMMA SameRefsSame == \A sc : SameRefs(sc, sc)
BY DEF SameRefs, OldRef

\* Steps that change neither the loans nor the constructs' nesting.
LEMMA QuietBacked ==
  ASSUME RInv, IInv', RefsFrom(scopes, scopes', active', frames'), Len(scopes') = Len(scopes),
         active' = active, Continues(active, frames, frames')
  PROVE  BackedAfter
<1>1. Extends(active, active')
  BY ExtendsSame, StateTyped DEF RInv
<1> QED
  BY <1>1, AfterTyped, StateTyped, ContinueBacked DEF RInv, BackedAfter

\* A half-evaluated statement ends.
LEMMA FinishedBacked ==
  ASSUME RInv, IInv', Evaluating, PopFrame, RefsFrom(scopes, scopes', active', frames'),
         Len(scopes') = Len(scopes), Extends(active, active')
  PROVE  BackedAfter
<1>1. frames # <<>> /\ TopOf(frames).depth = Len(scopes)
  BY EvalHoldsNothing DEF Evaluating, RInv, Top, TopOf
<1>2. frames' = SubSeq(frames, 1, Len(frames) - 1)
  BY DEF PopFrame
<1> QED
  BY <1>1, <1>2, AfterTyped, StateTyped, PopBacked DEF RInv, BackedAfter

\* A construct other than a loop by reference begins.
LEMMA PushedBacked ==
  ASSUME RInv, IInv', NEW frame, frames' = Append(frames, frame),
         frame.depth = Len(scopes), frame.checkpoint = Len(active),
         frame.kind = "bind" => frame.next = 1,
         frame.kind = "loop" => /\ Len(scopes') = Len(scopes) + 1
                                /\ LoopBacked(active', frames', frame),
         Extends(active, active'), RefsFrom(scopes, scopes', active', frames')
  PROVE  BackedAfter
<1>1. frame \in Frame
  BY AfterTyped, AppendedTyped, StateTyped DEF RInv
<1> QED
  BY <1>1, AfterTyped, StateTyped, OpenBacked DEF RInv, BackedAfter

\* Replacing the value of a binding leaves a reference what it was.
LEMMA ValueRefs ==
  ASSUME IInv, NEW b \in 1..Len(scopes), NEW n, NEW value
  PROVE  LET sc2 == [scopes EXCEPT ![b][n].val = value]
         IN  SameRefs(scopes, sc2) /\ Len(sc2) = Len(scopes)
<1> DEFINE scope == scopes[b]
           new == [scope[n] EXCEPT !.val = value]
           changed == [scope EXCEPT ![n] = new]
           sc2 == [scopes EXCEPT ![b] = changed]
<1>1. scope \in Scope
  BY StateTyped
<1>2. n \in DOMAIN scope => new.ref = scope[n].ref /\ new.excl = scope[n].excl
  <2>1. n \in DOMAIN scope => scope[n] \in Binding
    BY <1>1 DEF Scope
  <2> QED
    BY <2>1 DEF Binding
<1> HIDE DEF new
<1>3. /\ Len(sc2) = Len(scopes)
      /\ \A i \in 1..Len(scopes) : sc2[i] = IF i = b THEN changed ELSE scopes[i]
  BY StateTyped
<1>4. ASSUME NEW i \in 1..Len(scopes), NEW m \in DOMAIN sc2[i], sc2[i][m].ref
      PROVE  OldRef(scopes, sc2, i, m)
  <2>1. CASE i = b
    <3>1. sc2[i] = changed /\ DOMAIN changed = DOMAIN scope
      BY <1>3, <2>1
    <3>2. m \in DOMAIN scope /\ sc2[i][m] = IF m = n THEN new ELSE scope[m]
      BY <3>1
    <3>3. scope[m].ref /\ scope[m].excl = sc2[i][m].excl
      BY <1>2, <1>4, <3>2
    <3> QED
      BY <2>1, <3>2, <3>3 DEF OldRef
  <2>2. CASE i # b
    <3>1. sc2[i] = scopes[i]
      BY <1>3, <2>2
    <3> QED
      BY <1>4, <3>1 DEF OldRef
  <2> QED
    BY <2>1, <2>2
<1>5. SameRefs(scopes, sc2)
  BY <1>3, <1>4 DEF SameRefs
<1> QED
  BY <1>3, <1>5 DEF new

\* An assignment changes a value only.
LEMMA AssignedRefs ==
  ASSUME IInv, NEW n, Bound(n), NEW value
  PROVE  SameRefs(scopes, Assigned(n, value)) /\ Len(Assigned(n, value)) = Len(scopes)
<1>1. BindingScope(n) \in 1..Len(scopes)
  BY LookupTyped DEF IInv, WellTyped
<1> QED
  BY <1>1, ValueRefs DEF Assigned

LEMMA DeclareBacked ==
  ASSUME RInv, IInv', NEW n \in Name, NEW mutable \in BOOLEAN, NEW value, Declare(n, mutable, value)
  PROVE  BackedAfter
<1>1. scopes' = Define(scopes, n, Plain(value, mutable)) /\ active' = active /\ frames' = frames
  BY DEF Declare
<1>2. ~Plain(value, mutable).ref
  BY DEF Plain
<1>3. RefsFrom(scopes, scopes', active', frames') /\ Len(scopes') = Len(scopes)
  BY <1>1, <1>2, StateTyped, RefsDefine, DefineGrown DEF RInv
<1> QED
  BY <1>1, <1>3, QuietBacked, ContinuesSame

LEMMA DestructureBacked ==
  ASSUME RInv, IInv', NEW values, DestructureReassign(values)
  PROVE  BackedAfter
<1> DEFINE changed(i, n) == [scopes[i][n] EXCEPT !.val = values[n]]
<1>1. /\ active' = active /\ frames' = frames
      /\ scopes' = [i \in DOMAIN scopes |->
                     [n \in DOMAIN scopes[i] |->
                        IF n \in DOMAIN values /\ i = BindingScope(n)
                        THEN changed(i, n) ELSE scopes[i][n]]]
  BY DEF DestructureReassign
<1>2. Len(scopes') = Len(scopes) /\ DOMAIN scopes = 1..Len(scopes)
  <2>1. DOMAIN scopes' = DOMAIN scopes
    BY <1>1
  <2> QED
    BY <2>1, StateTyped, AfterTyped DEF RInv
<1>3. ASSUME NEW i \in 1..Len(scopes), NEW n \in DOMAIN scopes[i]
      PROVE  changed(i, n).ref = scopes[i][n].ref /\ changed(i, n).excl = scopes[i][n].excl
  <2>1. scopes[i] \in Scope
    BY StateTyped DEF RInv
  <2>2. scopes[i][n] \in Binding
    BY <2>1 DEF Scope
  <2> QED
    BY <2>2 DEF Binding
<1> HIDE DEF changed
<1>4. ASSUME NEW i \in 1..Len(scopes), NEW n \in DOMAIN scopes'[i]
      PROVE  n \in DOMAIN scopes[i] /\ scopes'[i][n] \in {changed(i, n), scopes[i][n]}
  BY <1>1, <1>2
<1>5. SameRefs(scopes, scopes')
  BY <1>2, <1>3, <1>4 DEF SameRefs, OldRef
<1> QED
  BY <1>1, <1>2, <1>5, SameRefsFrom, QuietBacked, ContinuesSame

LEMMA WriteBacked ==
  ASSUME RInv, IInv', NEW value, FinishReassign(value) \/ FinishWriteThrough(value)
  PROVE  BackedAfter
<1>2. /\ Evaluating /\ PopFrame /\ active' = active
      /\ Bound(Top.name) /\ scopes' = Assigned(Top.name, value)
  BY DEF FinishReassign, FinishWriteThrough
<1>3. SameRefs(scopes, scopes') /\ Len(scopes') = Len(scopes)
  BY <1>2, AssignedRefs DEF RInv
<1>4. Extends(active, active')
  BY <1>2, ExtendsSame, StateTyped DEF RInv
<1> QED
  BY <1>2, <1>3, <1>4, SameRefsFrom, FinishedBacked

LEMMA MutationBacked ==
  ASSUME RInv, IInv', NEW op, NEW contents, FinishMutation(op, contents)
  PROVE  BackedAfter
<1>1. Evaluating /\ PopFrame /\ active' = active /\ scopes' = scopes
  BY DEF FinishMutation
<1>2. RefsFrom(scopes, scopes', active', frames')
  BY <1>1, SameRefsSame, SameRefsFrom
<1>3. Extends(active, active')
  BY <1>1, ExtendsSame, StateTyped DEF RInv
<1> QED
  BY <1>1, <1>2, <1>3, FinishedBacked

\* The innermost construct goes on.
LEMMA SetTopContinues ==
  ASSUME IInv, frames # <<>>, NEW frame, SetTop(frame), NEW ac2,
         frame.kind = Top.kind, frame.name = Top.name, frame.function = Top.function,
         frame.depth = Top.depth, frame.checkpoint = Top.checkpoint,
         Top.kind = "bind" =>
           \A p \in 1..Len(Parameters(Top.function)) :
             p < frame.next /\ Parameters(Top.function)[p].ref =>
               p < Top.next \/ ParameterBacked(ac2, Parameters(Top.function)[p])
  PROVE  Continues(ac2, frames, frames')
<1>1. /\ Len(frames') = Len(frames)
      /\ \A j \in 1..Len(frames) : frames'[j] = IF j = Len(frames) THEN frame ELSE frames[j]
  BY StateTyped DEF SetTop
<1>2. ASSUME NEW j \in 1..Len(frames), j = Len(frames)
      PROVE  frames'[j] = frame /\ frames[j] = Top
  BY <1>1, <1>2 DEF Top
<1>3. ASSUME NEW j \in 1..Len(frames), j # Len(frames)
      PROVE  frames'[j] = frames[j]
  BY <1>1, <1>3
<1> QED
  BY <1>1, <1>2, <1>3 DEF Continues, GonePast

LEMMA NextItemBacked ==
  ASSUME RInv, IInv', NextItem
  PROVE  BackedAfter
<1> DEFINE frame == [Top EXCEPT !.items = Tail(@)]
<1>1. /\ frames # <<>> /\ Top.kind = "each" /\ active' = active /\ SetTop(frame)
      /\ scopes' = [scopes EXCEPT ![Current][Top.name].val = Head(Top.items)]
  BY DEF NextItem
<1>2. Top \in Frame
  BY <1>1, TopTyped DEF RInv, IInv
<1>3. /\ frame.kind = Top.kind /\ frame.name = Top.name /\ frame.function = Top.function
      /\ frame.depth = Top.depth /\ frame.checkpoint = Top.checkpoint
  BY <1>2 DEF Frame
<1> HIDE DEF frame
<1>4. Continues(active, frames, frames')
  BY <1>1, <1>3, SetTopContinues DEF RInv
<1>5. SameRefs(scopes, scopes') /\ Len(scopes') = Len(scopes)
  BY <1>1, StateTyped, ValueRefs DEF RInv, Current
<1> QED
  BY <1>1, <1>4, <1>5, SameRefsFrom, QuietBacked

LEMMA ReadSegmentBacked ==
  ASSUME RInv, IInv', ReadSegment
  PROVE  BackedAfter
<1>1. PICK items, segment : SetTop([Top EXCEPT !.items = items, !.path = Append(@, segment)])
  BY DEF ReadSegment
<1> DEFINE frame == [Top EXCEPT !.items = items, !.path = Append(@, segment)]
<1>2. frames # <<>> /\ Top.kind = "eval" /\ active' = active /\ scopes' = scopes
  BY DEF ReadSegment, Evaluating
<1>3. Top \in Frame
  BY <1>2, TopTyped DEF RInv, IInv
<1>4. /\ frame.kind = Top.kind /\ frame.name = Top.name /\ frame.function = Top.function
      /\ frame.depth = Top.depth /\ frame.checkpoint = Top.checkpoint
  BY <1>3 DEF Frame
<1>5. SetTop(frame)
  BY <1>1
<1> HIDE DEF frame
<1>6. Continues(active, frames, frames')
  BY <1>2, <1>4, <1>5, SetTopContinues DEF RInv
<1> QED
  BY <1>2, <1>6, SameRefsSame, SameRefsFrom, QuietBacked

\* The call goes on to its next parameter; the one it leaves has its loan.
LEMMA BindParameterBacked ==
  ASSUME RInv, IInv', BindValueParameter \/ BindReferenceParameter
  PROVE  BackedAfter
<1> DEFINE frame == [Top EXCEPT !.next = @ + 1]
<1>1. frames # <<>> /\ Top.kind = "bind" /\ SetTop(frame) /\ scopes' = scopes
  BY DEF BindValueParameter, BindReferenceParameter, BindingParameter, Advance
<1>2. Top \in Frame
  BY <1>1, TopTyped DEF RInv, IInv
<1>3. /\ frame.kind = Top.kind /\ frame.name = Top.name /\ frame.function = Top.function
      /\ frame.depth = Top.depth /\ frame.checkpoint = Top.checkpoint
      /\ frame.next = Top.next + 1 /\ Top.next \in Nat
  BY <1>2 DEF Frame
<1> HIDE DEF frame
<1>4. NextParam.ref => ParameterBacked(active', NextParam)
  <2> SUFFICES ASSUME NextParam.ref PROVE ParameterBacked(active', NextParam)
    OBVIOUS
  <2> DEFINE loan == ParameterLoan(NextParam.name, ParameterMode, NextArgument.val)
  <2>1. active' = Append(active, loan)
    BY DEF BindValueParameter, BindReferenceParameter
  <2>2. /\ loan.parameter = NextParam.name /\ loan.scope = NoScope
        /\ loan.mode = IF NextParam.mut THEN "Exclusive" ELSE "Shared"
    BY DEF ParameterLoan, ScopedLoan, ParameterMode
  <2>3. NextParam.mut \in BOOLEAN
    <3>1. Top.function \in Function /\ Top.next \in 1..Len(Parameters(Top.function))
      <4>1. Top.function \in Function
        BY <1>1, TopTyped DEF FrameOK, RInv, IInv
      <4>2. Top.next <= Len(Parameters(Top.function)) /\ Top.next \in Nat \ {0}
        BY <1>2 DEF BindValueParameter, BindReferenceParameter, BindingParameter, Frame
      <4>3. Len(Parameters(Top.function)) \in Nat
        BY <4>1, SignatureAssumption DEF Parameters
      <4> QED
        BY <4>1, <4>2, <4>3
    <3>2. NextParam \in Parameter
      BY <3>1, SignatureAssumption DEF Parameters, NextParam
    <3> QED
      BY <3>2 DEF Parameter
  <2> HIDE DEF loan
  <2>4. Len(active) + 1 \in 1..Len(active') /\ active'[Len(active) + 1] = loan
    BY <2>1, StateTyped DEF RInv
  <2>5. (loan.mode = "Exclusive") = NextParam.mut
    BY <2>2, <2>3
  <2> QED
    BY <2>2, <2>4, <2>5 DEF ParameterBacked
<1>5. Continues(active', frames, frames')
  <2>1. ASSUME NEW p \in 1..Len(Parameters(Top.function)), p < frame.next,
               Parameters(Top.function)[p].ref
        PROVE  p < Top.next \/ ParameterBacked(active', Parameters(Top.function)[p])
    <3>1. p < Top.next \/ p = Top.next
      BY <1>3, <2>1
    <3> QED
      BY <1>4, <2>1, <3>1 DEF NextParam
  <2> QED
    BY <1>1, <1>3, <2>1, SetTopContinues DEF RInv
<1>6. Extends(active, active')
  <2>1. CASE BindValueParameter
    BY <2>1, ExtendsSame, StateTyped DEF BindValueParameter, RInv
  <2>2. CASE BindReferenceParameter
    <3>1. \E loan : active' = Append(active, loan)
      BY <2>2 DEF BindReferenceParameter
    <3> QED
      BY <3>1, StateTyped DEF Extends, RInv
  <2> QED
    BY <2>1, <2>2
<1>7. RefsFrom(scopes, scopes', active', frames')
  BY <1>1, SameRefsSame, SameRefsFrom
<1> QED
  BY <1>1, <1>5, <1>6, <1>7, AfterTyped, StateTyped, ContinueBacked DEF RInv, BackedAfter

\* A statement or a call begins that opens no scope yet.
LEMMA InertBacked ==
  ASSUME RInv, IInv', NEW frame, PushFrame(frame), UNCHANGED <<scopes, active>>,
         frame.kind \in {"eval", "bind"}, frame.next = 1,
         frame.depth = Len(scopes), frame.checkpoint = Len(active)
  PROVE  BackedAfter
<1>1. RefsFrom(scopes, scopes', active', frames')
  BY SameRefsSame, SameRefsFrom
<1>2. Extends(active, active')
  BY ExtendsSame, StateTyped DEF RInv
<1>3. frames' = Append(frames, frame)
  BY DEF PushFrame
<1> QED
  BY <1>1, <1>2, <1>3, PushedBacked

LEMMA BeginEvalBacked ==
  ASSUME RInv, IInv', NEW op, NEW n, BeginEval(op, n)
  PROVE  BackedAfter
<1> DEFINE frame == [OpenFrame("eval") EXCEPT !.op = op, !.name = n]
<1>1. PushFrame(frame) /\ UNCHANGED <<scopes, active>>
  BY DEF BeginEval
<1>2. /\ frame.kind = "eval" /\ frame.next = 1
      /\ frame.depth = Len(scopes) /\ frame.checkpoint = Len(active)
  BY DEF OpenFrame
<1> HIDE DEF frame
<1> QED
  BY <1>1, <1>2, InertBacked

LEMMA BeginBorrowBacked ==
  ASSUME RInv, IInv', NEW n, NEW mutable, NEW owner, BeginBorrow(n, mutable, owner)
  PROVE  BackedAfter
<1> DEFINE frame == [OpenFrame("eval") EXCEPT
                       !.op = IF mutable THEN "mut ref" ELSE "ref", !.name = n,
                       !.args = <<[source |-> owner, val |-> Lookup(owner).val]>>,
                       !.items = <<Lookup(owner).val>>]
<1>1. PushFrame(frame) /\ UNCHANGED <<scopes, active>>
  BY DEF BeginBorrow
<1>2. /\ frame.kind = "eval" /\ frame.next = 1
      /\ frame.depth = Len(scopes) /\ frame.checkpoint = Len(active)
  BY DEF OpenFrame
<1> HIDE DEF frame
<1> QED
  BY <1>1, <1>2, InertBacked

LEMMA BeginCallBacked ==
  ASSUME RInv, IInv', NEW f, NEW args, NEW instance, BeginCall(f, args, instance)
  PROVE  BackedAfter
<1> DEFINE frame == [OpenFrame("bind") EXCEPT !.function = f, !.args = args, !.instance = instance]
<1>1. PushFrame(frame) /\ UNCHANGED <<scopes, active>>
  BY DEF BeginCall
<1>2. /\ frame.kind = "bind" /\ frame.next = 1
      /\ frame.depth = Len(scopes) /\ frame.checkpoint = Len(active)
  BY DEF OpenFrame
<1> HIDE DEF frame
<1> QED
  BY <1>1, <1>2, InertBacked

\* A construct opens a scope in which nothing is a reference.
LEMMA OpenPlainBacked ==
  ASSUME RInv, IInv', NEW frame, PushFrame(frame), UNCHANGED active,
         frame.kind \in {"block", "each"}, frame.depth = Len(scopes), frame.checkpoint = Len(active),
         NEW scope, scopes' = Append(scopes, scope), \A n \in DOMAIN scope : ~scope[n].ref
  PROVE  BackedAfter
<1>1. scope \in Scope
  BY AfterTyped, AppendedTyped, StateTyped DEF RInv
<1>2. RefsFrom(scopes, scopes', active', frames')
  BY <1>1, RefsAppend, StateTyped DEF RInv
<1>3. Extends(active, active')
  BY ExtendsSame, StateTyped DEF RInv
<1>4. frames' = Append(frames, frame)
  BY DEF PushFrame
<1> QED
  BY <1>2, <1>3, <1>4, PushedBacked

LEMMA EnterBlockBacked ==
  ASSUME RInv, IInv', EnterBlock
  PROVE  BackedAfter
<1>1. DOMAIN EmptyScope = {}
  BY DEF EmptyScope
<1>2. /\ PushFrame(OpenFrame("block")) /\ UNCHANGED active
      /\ scopes' = Append(scopes, EmptyScope)
  BY DEF EnterBlock, Pushed
<1>3. /\ OpenFrame("block").kind = "block" /\ OpenFrame("block").depth = Len(scopes)
      /\ OpenFrame("block").checkpoint = Len(active)
  BY DEF OpenFrame
<1> QED
  BY <1>1, <1>2, <1>3, OpenPlainBacked

LEMMA BeginForBacked ==
  ASSUME RInv, IInv', NEW n, NEW mutable, NEW source, BeginFor(n, mutable, source)
  PROVE  BackedAfter
<1>1. PICK items \in Elements(Lookup(source).val) :
        /\ scopes' = Append(scopes, [m \in {n} |-> Plain(Head(items), mutable)])
        /\ PushFrame([OpenFrame("each") EXCEPT !.name = n, !.items = Tail(items)])
  BY DEF BeginFor
<1> DEFINE scope == [m \in {n} |-> Plain(Head(items), mutable)]
           frame == [OpenFrame("each") EXCEPT !.name = n, !.items = Tail(items)]
<1>2. PushFrame(frame) /\ UNCHANGED active /\ scopes' = Append(scopes, scope)
  BY <1>1 DEF BeginFor
<1>3. /\ frame.kind = "each" /\ frame.depth = Len(scopes) /\ frame.checkpoint = Len(active)
  BY DEF OpenFrame
<1>4. \A m \in DOMAIN scope : ~scope[m].ref
  BY DEF Plain
<1> HIDE DEF frame, scope
<1> QED
  BY <1>2, <1>3, <1>4, OpenPlainBacked

-----------------------------------------------------------------------------
(* The steps that make references.                                           *)

\* A loop by reference and a match begin with a loan held in their own scope.
LEMMA OpenSharedBacked ==
  ASSUME RInv, IInv', NEW n, NEW source, BeginForRef(n, source) \/ BeginMatchRef(n, source)
  PROVE  BackedAfter
<1>1. PICK kind \in {"loop", "match"}, escape \in EscapeKind :
        /\ OpenShared(kind, escape, n, source)
        /\ kind = "loop" => escape = "Iteration" /\ BeginForRef(n, source)
        /\ kind = "match" => BeginMatchRef(n, source)
  BY DEF BeginForRef, BeginMatchRef, EscapeKind
<1>2. PICK items \in Elements(Lookup(source).val) :
        PushFrame([OpenFrame(kind) EXCEPT !.name = n, !.items = items])
  BY <1>1 DEF OpenShared
<1> DEFINE frame == [OpenFrame(kind) EXCEPT !.name = n, !.items = items]
           loan == ScopedLoan({Whole(id) : id \in Reachable({Lookup(source).val})}, "Shared", n,
                              source, <<>>, Current + 1, escape, BindingScope(source))
           k == Len(active) + 1
           d == Len(scopes) + 1
<1>3. frames' = Append(frames, frame) /\ active' = Append(active, loan)
  BY <1>1, <1>2 DEF PushFrame, OpenShared
<1>4. /\ frame.kind = kind /\ frame.name = n
      /\ frame.depth = Len(scopes) /\ frame.checkpoint = Len(active)
  BY DEF OpenFrame
<1>5. /\ loan.parameter = n /\ loan.mode = "Shared" /\ loan.scope = d /\ loan.escape = escape
  BY DEF ScopedLoan, Current
<1> HIDE DEF frame, loan
<1>6. loan \in Loan /\ frame \in Frame /\ d \in Nat /\ frames' \in Seq(Frame)
  BY <1>3, AfterTyped, AppendedTyped, StateTyped DEF RInv
<1>7. \A j \in 1..Len(frames') : frames'[j].depth < d
  <2>1. \A j \in 1..Len(frames) : frames[j].depth < d
    BY DepthBelow, StateTyped DEF RInv
  <2>2. /\ Len(frames') = Len(frames) + 1 /\ frames'[Len(frames) + 1] = frame
        /\ \A j \in 1..Len(frames) : frames'[j] = frames[j]
    BY <1>3, <1>6, StateTyped, AppendProperties DEF RInv
  <2>3. frame.depth < d
    BY <1>4, StateTyped DEF RInv
  <2>4. \A j \in 1..Len(frames') : j \in 1..Len(frames) \/ j = Len(frames) + 1
    BY <2>2, StateTyped DEF RInv
  <2> QED
    BY <2>1, <2>2, <2>3, <2>4
<1>8. /\ Extends(active, active') /\ k \in 1..Len(active') /\ active'[k] = loan
      /\ HeldWhile(active', frames', k, d)
  BY <1>3, <1>6, <1>7, NewestHeld, StateTyped DEF RInv
<1>9. kind = "loop" => Len(scopes') = d /\ LoopBacked(active', frames', frame)
  <2> SUFFICES ASSUME kind = "loop" PROVE Len(scopes') = d /\ LoopBacked(active', frames', frame)
    OBVIOUS
  <2>1. Len(scopes') = d
    BY <1>1, EmptyScopeTyped, AppendProperties, StateTyped DEF BeginForRef, Pushed, RInv
  <2> QED
    BY <1>1, <1>4, <1>5, <1>8, <2>1 DEF LoopBacked
<1>10. RefsFrom(scopes, scopes', active', frames')
  <2>1. CASE kind = "loop"
    <3>1. scopes' = Append(scopes, EmptyScope) /\ DOMAIN EmptyScope = {}
      BY <1>1, <2>1 DEF BeginForRef, Pushed, EmptyScope
    <3> QED
      BY <3>1, EmptyScopeTyped, RefsAppend, StateTyped DEF RInv
  <2>2. CASE kind = "match"
    <3> DEFINE scope == [m \in {n} |-> Reference(Lookup(source).val, FALSE)]
    <3>1. scopes' = Append(scopes, scope)
      BY <1>1, <2>2 DEF BeginMatchRef
    <3>2. ASSUME NEW m \in DOMAIN scope PROVE m = n /\ scope[m].excl = FALSE
      BY DEF Reference
    <3> HIDE DEF scope
    <3>3. scope \in Scope
      BY <3>1, AfterTyped, AppendedTyped, StateTyped DEF RInv
    <3>4. ASSUME NEW m \in DOMAIN scope PROVE RefBacked(active', frames', d, m, scope[m].excl)
      <4>1. Backs(active'[k], d, m, scope[m].excl)
        BY <1>5, <1>8, <3>2 DEF Backs
      <4> QED
        BY <1>8, <4>1 DEF RefBacked
    <3> QED
      BY <3>1, <3>3, <3>4, RefsAppend, StateTyped DEF RInv
  <2> QED
    BY <2>1, <2>2
<1> QED
  BY <1>3, <1>4, <1>8, <1>9, <1>10, PushedBacked

\* Each element of a loop by reference is backed by the loan of the loop.
LEMMA NextReferenceItemBacked ==
  ASSUME RInv, IInv', NextReferenceItem
  PROVE  BackedAfter
<1> DEFINE n == Len(frames)
           d == Len(scopes)
           scope == [m \in {Top.name} |-> Reference(Head(Top.items), FALSE)]
           top == [Top EXCEPT !.items = Tail(@)]
           walked == [frames EXCEPT ![n] = top]
           frame == OpenFrame("block")
<1>1. /\ scopes' = Append(scopes, scope) /\ active' = active
      /\ frames' = Append(walked, frame) /\ frames # <<>> /\ Top.kind = "loop"
  BY DEF NextReferenceItem, Top
<1>2. Top \in Frame /\ n \in 1..n
  BY <1>1, TopTyped, StateTyped DEF RInv, IInv
<1>3. /\ top.kind = Top.kind /\ top.name = Top.name /\ top.function = Top.function
      /\ top.depth = Top.depth /\ top.checkpoint = Top.checkpoint
  BY <1>2 DEF Frame
<1>4. /\ frame.kind = "block" /\ frame.depth = d /\ frame.checkpoint = Len(active)
  BY DEF OpenFrame
<1>5. frame \in Frame
  BY PlainFrameOK DEF IInv, RInv, WellTyped
<1>6. top \in Frame
  <2>1. Top.items # <<>> /\ Top.items \in Seq(Value)
    BY <1>2 DEF NextReferenceItem, Frame
  <2>2. Tail(Top.items) \in Seq(Value)
    BY <2>1, HeadTailProperties
  <2> QED
    BY <1>2, <2>2 DEF Frame
<1>7. ASSUME NEW m \in DOMAIN scope PROVE m = Top.name /\ scope[m].excl = FALSE
  BY DEF Reference
<1> HIDE DEF scope, top, frame
<1>8. /\ walked \in Seq(Frame) /\ Len(walked) = n
      /\ \A j \in 1..n : walked[j] = IF j = n THEN top ELSE frames[j]
  BY <1>2, <1>6, ExceptSeq, StateTyped DEF RInv
<1> HIDE DEF walked
<1>9. Continues(active, frames, walked)
  <2>1. ASSUME NEW j \in 1..n, j = n PROVE walked[j] = top /\ frames[j] = Top
    BY <1>8, <2>1 DEF Top
  <2>2. ASSUME NEW j \in 1..n, j # n PROVE walked[j] = frames[j]
    BY <1>8, <2>2
  <2> QED
    BY <1>1, <1>3, <1>8, <2>1, <2>2 DEF Continues, GonePast
<1>10. Backed(scopes, active, walked)
  BY <1>8, <1>9, ExtendsSame, SameRefsSame, SameRefsFrom, StateTyped, ContinueBacked DEF RInv
<1>11. \A j \in 1..Len(frames') : frames'[j].depth < d + 1
  <2>1. \A j \in 1..n : frames[j].depth < d + 1
    BY DepthBelow, StateTyped DEF RInv
  <2>2. \A j \in 1..n : walked[j].depth < d + 1
    BY <1>9, <2>1 DEF Continues
  <2>3. /\ Len(frames') = n + 1 /\ frames'[n + 1] = frame
        /\ \A j \in 1..n : frames'[j] = walked[j]
    BY <1>1, <1>5, <1>8, AppendProperties
  <2>4. \A j \in 1..Len(frames') : j \in 1..n \/ j = n + 1
    BY <1>2, <2>3
  <2>5. frame.depth < d + 1
    BY <1>4, StateTyped DEF RInv
  <2> QED
    BY <2>2, <2>3, <2>4, <2>5
<1>12. PICK k \in 1..Len(active) :
         /\ active[k].parameter = Top.name /\ active[k].mode = "Shared"
         /\ active[k].scope = d /\ active[k].escape = "Iteration"
  <2>1. frames[n] = Top
    BY DEF Top
  <2>2. ScopesAbove(scopes, frames, n) = Top.depth + 1 /\ LoopBacked(active, frames, Top)
    BY <1>1, <1>2, <2>1 DEF RInv, Backed, LoopsBacked
  <2>3. d = Top.depth + 1
    BY <2>2 DEF ScopesAbove
  <2> QED
    BY <2>2, <2>3 DEF LoopBacked
<1>13. HeldWhile(active, frames', k, d + 1)
  <2>1. \A j \in 1..Len(frames') : frames'[j].depth \in Nat
    BY AfterTyped, LoanAndFrameTypes
  <2>2. \A j \in 1..Len(frames') : ~(frames'[j].depth >= d + 1)
    BY <1>11, <2>1, StateTyped DEF RInv
  <2> QED
    BY <2>2 DEF HeldWhile
<1>14. \A m \in DOMAIN scope : RefBacked(active, frames', d + 1, m, scope[m].excl)
  <2>1. ASSUME NEW m \in DOMAIN scope PROVE RefBacked(active, frames', d + 1, m, scope[m].excl)
    <3>1. d = (d + 1) - 1
      BY StateTyped DEF RInv
    <3>2. (active[k].mode = "Exclusive") = scope[m].excl
      BY <1>7, <1>12
    <3>3. active[k].parameter = m
      BY <1>7, <1>12
    <3> HIDE DEF d
    <3>4. Backs(active[k], d + 1, m, scope[m].excl)
      BY <1>12, <3>1, <3>2, <3>3 DEF Backs
    <3> QED
      BY <1>13, <3>4 DEF RefBacked, d
  <2> QED
    BY <2>1
<1>15. RefsFrom(scopes, scopes', active, frames')
  <2>1. scope \in Scope
    BY <1>1, AfterTyped, AppendedTyped, StateTyped DEF RInv
  <2> QED
    BY <1>1, <1>14, <2>1, RefsAppend, StateTyped DEF RInv
<1> QED
  BY <1>1, <1>4, <1>5, <1>8, <1>10, <1>15, AfterTyped, ExtendsSame, StateTyped, OpenBacked
     DEF RInv, BackedAfter

\* A reference is defined with its loan, where no construct under way ends
\* before the scope does.
LEMMA MadeRefs ==
  ASSUME RInv, IInv', NEW n, NEW mutable \in BOOLEAN, NEW owner, NEW value, NEW chain, NEW tip,
         MakeReference(n, mutable, owner, value, chain, tip),
         NEW fr2 \in Seq(Frame), \A j \in 1..Len(fr2) : fr2[j].depth < Len(scopes)
  PROVE  /\ Extends(active, active') /\ Len(scopes') = Len(scopes)
         /\ RefsFrom(scopes, scopes', active', fr2)
<1> DEFINE d == Len(scopes)
           k == Len(active) + 1
<1>1. PICK loan : /\ active' = Append(active, loan)
                  /\ loan.parameter = n /\ loan.scope = d
                  /\ loan.mode = IF mutable THEN "Exclusive" ELSE "Shared"
  BY DEF MakeReference, ScopedLoan, Current
<1>2. loan \in Loan
  BY <1>1, AfterTyped, AppendedTyped, StateTyped DEF RInv
<1>3. /\ Extends(active, active') /\ k \in 1..Len(active') /\ active'[k] = loan
      /\ HeldWhile(active', fr2, k, d)
  BY <1>1, <1>2, NewestHeld, StateTyped DEF RInv
<1>4. RefBacked(active', fr2, d, n, mutable)
  <2>1. (loan.mode = "Exclusive") = mutable
    BY <1>1
  <2>2. Backs(active'[k], d, n, mutable)
    BY <1>1, <1>3, <2>1 DEF Backs
  <2> QED
    BY <1>3, <2>2 DEF RefBacked
<1>5. CASE scopes' = Define(scopes, n, Reference(tip, mutable))
  <2>1. Reference(tip, mutable).excl = mutable
    BY DEF Reference
  <2> QED
    BY <1>3, <1>4, <1>5, <2>1, RefsDefine, DefineGrown, StateTyped DEF RInv
<1>6. CASE scopes' = scopes
  BY <1>3, <1>6, SameRefsSame, SameRefsFrom
<1> QED
  BY <1>5, <1>6 DEF MakeReference

LEMMA BorrowBacked ==
  ASSUME RInv, IInv', NEW n, NEW mutable \in BOOLEAN, NEW owner, NEW chain,
         Borrow(n, mutable, owner, chain)
  PROVE  BackedAfter
<1>1. /\ InStatement /\ frames' = frames
      /\ MakeReference(n, mutable, owner, Lookup(owner).val, chain, Tip(Lookup(owner).val, chain))
  BY DEF Borrow
<1>2. \A j \in 1..Len(frames) : frames[j].depth < Len(scopes)
  BY <1>1, StatementTop, DepthBelow, StateTyped DEF RInv
<1>3. /\ Extends(active, active') /\ Len(scopes') = Len(scopes)
      /\ RefsFrom(scopes, scopes', active', frames')
  BY <1>1, <1>2, MadeRefs, StateTyped DEF RInv
<1> QED
  BY <1>1, <1>3, AfterTyped, StateTyped, ContinuesSame, ContinueBacked DEF RInv, BackedAfter

LEMMA FinishBorrowBacked ==
  ASSUME RInv, IInv', NEW chain, FinishBorrow(chain)
  PROVE  BackedAfter
<1> DEFINE fr2 == SubSeq(frames, 1, Len(frames) - 1)
           mutable == Top.op = "mut ref"
<1>1. /\ Evaluating /\ PopFrame
      /\ MakeReference(Top.name, mutable, Top.args[1].source, Top.args[1].val, chain,
                       heap[Top.items[1]][chain[Len(chain)].slot])
  BY DEF FinishBorrow
<1>2. frames' = fr2 /\ fr2 \in Seq(Frame)
  BY <1>1, EvalHoldsNothing DEF PopFrame, RInv
<1>3. Nested(scopes, active, fr2) /\ (fr2 # <<>> => ~Inert(TopOf(fr2)))
  BY <1>1, EvalHoldsNothing DEF RInv
<1>4. mutable \in BOOLEAN
  OBVIOUS
<1> HIDE DEF fr2, mutable
<1>5. \A j \in 1..Len(fr2) : fr2[j].depth < Len(scopes)
  BY <1>2, <1>3, DepthBelow, StateTyped DEF RInv
<1>6. /\ Extends(active, active') /\ Len(scopes') = Len(scopes)
      /\ RefsFrom(scopes, scopes', active', frames')
  BY <1>1, <1>2, <1>4, <1>5, MadeRefs
<1> QED
  BY <1>1, <1>6, FinishedBacked

\* The body of a call: its references are its `ref' parameters.
LEMMA EnterBodyBacked ==
  ASSUME RInv, IInv', EnterBody
  PROVE  BackedAfter
<1> DEFINE n == Len(frames)
           params == Parameters(Top.function)
           captured == Captures(Top.function)
           capture == [m \in DOMAIN captured |-> Plain(captured[m], FALSE)]
           outer == IF DOMAIN captured = {} THEN scopes ELSE Append(scopes, capture)
           at(m) == CHOOSE p \in DOMAIN params : params[p].name = m
           bound(p) == [val |-> Top.args[p].val, mut |-> params[p].mut, ref |-> params[p].ref,
                        excl |-> params[p].ref /\ params[p].mut]
           inner == [m \in {params[p].name : p \in DOMAIN params} |-> bound(at(m))]
<1>1. /\ frames # <<>> /\ Top.kind = "bind" /\ Top.next > Len(params)
      /\ active' = active /\ scopes' = Append(outer, inner)
      /\ SetTop([Top EXCEPT !.kind = "call", !.body = Len(outer) + 1])
  BY DEF EnterBody
<1>2. /\ Top \in Frame /\ frames[n] = Top /\ n \in 1..n
      /\ \A j \in 1..n : frames[j].depth \in Nat
  <2>1. Top \in Frame
    BY <1>1, TopTyped DEF RInv, IInv
  <2>2. \A j \in 1..n : frames[j].depth \in Nat
    BY StateTyped, LoanAndFrameTypes DEF RInv
  <2>3. n \in Nat /\ n # 0
    <3>1. frames # <<>>
      BY <1>1
    <3> QED
      BY <3>1, StateTyped DEF RInv
  <2> QED
    BY <2>1, <2>2, <2>3 DEF Top
<1>3. params \in Seq(Parameter) /\ DOMAIN params = 1..Len(params) /\ Len(params) \in Nat
  <2>1. Top.function \in Function
    BY <1>1, TopTyped DEF FrameOK, RInv, IInv
  <2> QED
    BY <2>1, SignatureAssumption DEF Parameters
<1>4. /\ Len(frames') = n
      /\ \A j \in 1..n :
           /\ frames'[j].kind = IF j = n THEN "call" ELSE frames[j].kind
           /\ frames'[j].depth = frames[j].depth /\ frames'[j].checkpoint = frames[j].checkpoint
           /\ j # n => frames'[j] = frames[j]
  <2> DEFINE body == Len(outer) + 1
             frame == [Top EXCEPT !.kind = "call", !.body = body]
  <2>1. frame.kind = "call" /\ frame.depth = Top.depth /\ frame.checkpoint = Top.checkpoint
    <3> HIDE DEF body
    <3> QED
      BY <1>2 DEF Frame
  <2>2. frames' = [frames EXCEPT ![n] = frame]
    BY <1>1 DEF SetTop
  <2> HIDE DEF frame
  <2> QED
    BY <1>2, <2>1, <2>2, StateTyped DEF RInv
<1>5. ASSUME NEW m \in DOMAIN inner
      PROVE  at(m) \in 1..Len(params) /\ params[at(m)].name = m /\ inner[m] = bound(at(m))
  BY <1>3
<1>6. \A m \in DOMAIN capture : ~capture[m].ref
  BY DEF Plain
<1> HIDE DEF inner, capture, at
<1>7. /\ Len(outer) \in Nat /\ Len(outer) >= Len(scopes)
      /\ \A i \in 1..Len(outer) :
           \/ i \in 1..Len(scopes) /\ outer[i] = scopes[i]
           \/ i = Len(scopes) + 1 /\ outer[i] = capture
  <2>1. CASE DOMAIN captured = {}
    BY <2>1, StateTyped DEF RInv
  <2>2. CASE DOMAIN captured # {}
    <3>1. outer = Append(scopes, capture)
      BY <2>2
    <3>2. /\ Len(outer) = Len(scopes) + 1 /\ outer[Len(scopes) + 1] = capture
          /\ \A i \in 1..Len(scopes) : outer[i] = scopes[i]
      BY <3>1, StateTyped DEF RInv
    <3> HIDE DEF outer
    <3>3. \A i \in 1..Len(outer) : i \in 1..Len(scopes) \/ i = Len(scopes) + 1
      BY <3>2, StateTyped DEF RInv
    <3> QED
      BY <3>2, <3>3, StateTyped DEF RInv
  <2> QED
    BY <2>1, <2>2
<1>8. /\ Len(scopes') = Len(outer) + 1 /\ scopes'[Len(outer) + 1] = inner
      /\ \A i \in 1..Len(outer) : scopes'[i] = outer[i]
  <2>1. outer = scopes \/ outer = Append(scopes, capture)
    OBVIOUS
  <2>2. \E S : outer \in Seq(S) /\ inner \in S
    <3>1. scopes \in Seq(Scope \cup {capture, inner})
      BY StateTyped DEF RInv
    <3>2. outer \in Seq(Scope \cup {capture, inner})
      BY <2>1, <3>1
    <3> QED
      BY <3>2
  <2> HIDE DEF outer
  <2> QED
    BY <1>1, <2>2
<1> HIDE DEF outer
<1>9. ASSUME NEW m \in DOMAIN inner, inner[m].ref
      PROVE  RefBacked(active, frames', Len(outer) + 1, m, inner[m].excl)
  <2> DEFINE p == at(m)
  <2>1. p \in 1..Len(params) /\ params[p].name = m /\ inner[m] = bound(p)
    BY <1>5
  <2> HIDE DEF p
  <2>2. params[p].ref /\ params[p].mut \in BOOLEAN /\ inner[m].excl = params[p].mut
    <3>1. params[p] \in Parameter
      BY <1>3, <2>1
    <3> QED
      BY <1>9, <2>1, <3>1 DEF Parameter
  <2>3. GonePast(frames[n], p)
    BY <1>1, <1>2, <1>3, <2>1, <2>2 DEF GonePast, Frame
  <2>4. ParameterBacked(active, params[p])
    BY <1>1, <1>2, <2>1, <2>3 DEF RInv, Backed, BindsBacked
  <2>5. PICK k \in 1..Len(active) :
          /\ active[k].parameter = params[p].name /\ active[k].scope = NoScope
          /\ (active[k].mode = "Exclusive") = params[p].mut
    BY <2>4 DEF ParameterBacked
  <2>6. Backs(active[k], Len(outer) + 1, m, inner[m].excl)
    BY <2>1, <2>2, <2>5 DEF Backs
  <2>7. HeldWhile(active, frames', k, Len(outer) + 1)
    <3>1. \A j \in 1..n : frames[j].depth < Len(scopes) + 1
      BY DepthBelow, StateTyped DEF RInv
    <3>2. \A j \in 1..n : ~(frames'[j].depth >= Len(outer) + 1)
      BY <1>2, <1>4, <1>7, <3>1, StateTyped DEF RInv
    <3> QED
      BY <1>4, <3>2 DEF HeldWhile
  <2> QED
    BY <2>6, <2>7 DEF RefBacked
<1>10. RefsFrom(scopes, scopes', active, frames')
  <2> SUFFICES ASSUME NEW i \in 1..Len(scopes'), NEW m \in DOMAIN scopes'[i], scopes'[i][m].ref
               PROVE  \/ OldRef(scopes, scopes', i, m)
                      \/ RefBacked(active, frames', i, m, scopes'[i][m].excl)
    BY DEF RefsFrom
  <2>1. CASE i = Len(outer) + 1
    BY <1>8, <1>9, <2>1
  <2>2. CASE i # Len(outer) + 1
    <3>1. i \in 1..Len(outer) /\ scopes'[i] = outer[i]
      BY <1>7, <1>8, <2>2
    <3>2. i \in 1..Len(scopes) /\ scopes'[i] = scopes[i]
      BY <1>6, <1>7, <3>1
    <3> QED
      BY <3>2 DEF OldRef
  <2> QED
    BY <2>1, <2>2
<1>11. LoopsFrom(frames, scopes', active, frames')
  <2> SUFFICES ASSUME NEW j \in 1..n, frames'[j].kind = "loop"
               PROVE  /\ ScopesAbove(scopes', frames', j) = frames'[j].depth + 1
                      /\ OldLoop(frames, frames', j)
    BY <1>4 DEF LoopsFrom
  <2>1. j # n /\ frames'[j] = frames[j] /\ frames[j].kind = "loop"
    BY <1>4
  <2>2. ScopesAbove(scopes, frames, j) = frames[j].depth + 1
    BY <2>1 DEF RInv, Backed, LoopsBacked
  <2>3. j + 1 \in 1..n
    BY <1>2, <2>1
  <2>4. ScopesAbove(scopes', frames', j) = ScopesAbove(scopes, frames, j)
    BY <1>4, <2>1, <2>3 DEF ScopesAbove
  <2> QED
    BY <2>1, <2>2, <2>4 DEF OldLoop
<1>12. BindsFrom(frames, active, frames')
  <2>1. ASSUME NEW j \in 1..n PROVE frames'[j].kind # "bind"
    <3>1. FrameNests(scopes, active, frames, j)
      BY StateTyped DEF RInv, Nested
    <3> QED
      BY <1>4, <3>1 DEF FrameNests
  <2> QED
    BY <1>4, <2>1 DEF BindsFrom
<1>13. FramesFrom(active, frames, frames')
  BY <1>4 DEF FramesFrom
<1> QED
  BY <1>1, <1>10, <1>11, <1>12, <1>13, AfterTyped, ExtendsSame, StateTyped, KeepBacked
     DEF RInv, BackedAfter

\* The end of a construct, and of a call that is refused.
LEMMA LeaveBacked ==
  ASSUME RInv, Leave
  PROVE  BackedAfter
<1>1. /\ frames # <<>> /\ scopes' = SubSeq(scopes, 1, Top.depth)
      /\ frames' = SubSeq(frames, 1, Len(frames) - 1)
  BY DEF Leave, PoppedScopes, PopFrame
<1>2. active' = SubSeq(active, 1, Top.checkpoint)
  BY <1>1, RetainedIsPrefix DEF Leave, RInv
<1> QED
  BY <1>1, <1>2, StateTyped, CutBacked DEF RInv, BackedAfter, Top, TopOf

LEMMA RejectBacked ==
  ASSUME RInv, RejectReferenceParameter
  PROVE  BackedAfter
<1>1. /\ frames # <<>> /\ Top.kind = "bind" /\ scopes' = scopes
      /\ frames' = SubSeq(frames, 1, Len(frames) - 1)
      /\ active' = SubSeq(active, 1, Top.checkpoint)
  BY DEF RejectReferenceParameter, BindingParameter, PopFrame
<1>2. Top.depth = Len(scopes)
  <2>1. Len(frames) \in 1..Len(frames)
    BY <1>1, StateTyped DEF RInv
  <2>2. FrameNests(scopes, active, frames, Len(frames))
    BY <2>1, StateTyped DEF Nested, RInv
  <2> QED
    BY <1>1, <2>2 DEF FrameNests, ScopesAbove, Inert, Top
<1>3. scopes = SubSeq(scopes, 1, Top.depth)
  <2>1. Len(scopes) \in 0..Len(scopes)
    BY StateTyped DEF RInv
  <2> QED
    BY <1>2, <2>1, StateTyped, PrefixIs, SeqEqual DEF RInv
<1> QED
  BY <1>1, <1>3, StateTyped, CutBacked DEF RInv, BackedAfter, Top, TopOf

-----------------------------------------------------------------------------
(* The invariant is inductive.                                               *)

\* At the start nothing is a reference.
LEMMA InitRInv == Init => RInv
<1> SUFFICES ASSUME Init PROVE RInv
  OBVIOUS
<1>1. Len(frames) = 0 /\ Len(scopes) = 1 /\ scopes[1] = InitialScope
  BY DEF Init
<1>2. RefsBacked(scopes, active, frames)
  BY <1>1, InitialAssumption DEF RefsBacked
<1>3. LoopsBacked(scopes, active, frames) /\ BindsBacked(active, frames)
  BY <1>1 DEF LoopsBacked, BindsBacked
<1> QED
  BY <1>2, <1>3, InitInv DEF RInv, Backed

LEMMA ReferencesBackedStep ==
  ASSUME RInv, IInv', References
  PROVE  BackedAfter
BY BorrowBacked, BeginBorrowBacked, ReadSegmentBacked, FinishBorrowBacked DEF References

LEMMA WritesBackedStep ==
  ASSUME RInv, IInv', Writes
  PROVE  BackedAfter
<1>1. ASSUME NEW n, BeginReassign(n) \/ BeginWriteThrough(n) \/ \E op : BeginMutation(op, n)
      PROVE  BackedAfter
  <2>1. \E op : BeginEval(op, n)
    BY <1>1 DEF BeginReassign, BeginWriteThrough, BeginMutation
  <2> QED
    BY <2>1, BeginEvalBacked
<1>2. ASSUME NEW value, FinishReassign(value) \/ FinishWriteThrough(value)
      PROVE  BackedAfter
  BY <1>2, WriteBacked
<1>3. ASSUME NEW chain, NEW value, NEW key, NEW slot,
             \/ FinishSetIndex(chain, value) \/ FinishInsert(chain, key, value)
             \/ FinishAdd(value) \/ FinishRemove(slot)
      PROVE  BackedAfter
  <2>1. \E op, contents : FinishMutation(op, contents)
    BY <1>3 DEF FinishSetIndex, FinishInsert, FinishAdd, FinishRemove
  <2> QED
    BY <2>1, MutationBacked
<1>4. ASSUME NEW values, DestructureReassign(values)
      PROVE  BackedAfter
  BY <1>4, DestructureBacked
<1> QED
  BY <1>1, <1>2, <1>3, <1>4 DEF Writes

LEMMA CallsBackedStep ==
  ASSUME RInv, IInv', Calls
  PROVE  BackedAfter
<1>1. ASSUME NEW f, NEW args, Call(f, args) PROVE BackedAfter
  BY <1>1, BeginCallBacked DEF Call
<1>2. ASSUME NEW s, NEW m, NEW supplied, Dispatch(s, m, supplied) PROVE BackedAfter
  <2>1. \E args : BeginCall(m, args, s)
    BY <1>2 DEF Dispatch
  <2> QED
    BY <2>1, BeginCallBacked
<1> QED
  BY <1>1, <1>2, BindParameterBacked, RejectBacked, EnterBodyBacked DEF Calls

LEMMA LoopsBackedStep ==
  ASSUME RInv, IInv', Loops
  PROVE  BackedAfter
BY OpenSharedBacked, BeginForBacked, NextReferenceItemBacked, NextItemBacked DEF Loops

LEMMA StepRInv ==
  ASSUME RInv, [Next]_vars
  PROVE  RInv'
<1>1. IInv'
  BY StepInv DEF RInv
<1>2. BackedAfter
  <2>1. CASE EnterBlock
    BY <1>1, <2>1, EnterBlockBacked
  <2>2. CASE Leave
    BY <2>2, LeaveBacked
  <2>3. CASE \E n \in Name, mutable \in BOOLEAN, value \in Readable : Declare(n, mutable, value)
    BY <1>1, <2>3, DeclareBacked
  <2>4. CASE References
    BY <1>1, <2>4, ReferencesBackedStep
  <2>5. CASE Writes
    BY <1>1, <2>5, WritesBackedStep
  <2>6. CASE Calls
    BY <1>1, <2>6, CallsBackedStep
  <2>7. CASE Loops
    BY <1>1, <2>7, LoopsBackedStep
  <2>8. CASE UNCHANGED vars
    BY <2>8 DEF RInv, BackedAfter, vars
  <2> QED
    BY <2>1, <2>2, <2>3, <2>4, <2>5, <2>6, <2>7, <2>8 DEF Next
<1> QED
  BY <1>1, <1>2 DEF RInv, BackedAfter

\* In every program, every reference, loop by reference and bound parameter
\* has a loan that no construct under way can end before it.
THEOREM LoansOutliveReferences == Spec => []RInv
<1>1. Init => RInv
  BY InitRInv
<1>2. RInv /\ [Next]_vars => RInv'
  BY StepRInv
<1> QED
  BY <1>1, <1>2, PTL DEF Spec

\* A name bound as a reference, in any open scope, is backed by an active loan
\* of its own mode (ReferencesAreLoaned): pop_scope, truncate and the failing
\* statements never end the loan of a reference that stays bound.
THEOREM ReferencesLoaned == Spec => []ReferencesAreLoaned
<1>1. ASSUME RInv PROVE ReferencesAreLoaned
  <2> SUFFICES ASSUME NEW i \in DOMAIN scopes, NEW n \in DOMAIN scopes[i], scopes[i][n].ref
               PROVE  \E k \in DOMAIN active : BacksReference(active[k], i, n)
    BY DEF ReferencesAreLoaned
  <2>1. i \in 1..Len(scopes) /\ DOMAIN active = 1..Len(active)
    BY <1>1, StateTyped DEF RInv
  <2>2. RefBacked(active, frames, i, n, scopes[i][n].excl)
    BY <1>1, <2>1 DEF RInv, Backed, RefsBacked
  <2> QED
    BY <2>1, <2>2 DEF RefBacked, Backs, BacksReference
<1> QED
  BY <1>1, LoansOutliveReferences, PTL

-----------------------------------------------------------------------------
(* What a step may do to the constructs and to the loans.                    *)

Mutations == {"set", "add", "remove"}

\* A construct that was there before the step.
Stays(fr, fr2, j) ==
  /\ j \in 1..Len(fr)
  /\ fr2[j].op = fr[j].op /\ fr2[j].name = fr[j].name
  /\ fr2[j].depth = fr[j].depth /\ fr2[j].loans = fr[j].loans
  /\ fr2[j].kind \in {fr[j].kind, "call"}

\* A construct the step opens.
Begins(frame) ==
  /\ frame.depth = Len(scopes) /\ frame.loans = active
  /\ frame.kind = "each" => "for" \in Construct
  /\ frame.op \in {"ref", "mut ref"} => "borrow_call" \in Construct
  /\ frame.op \in Mutations => frame.op \in Construct
  /\ frame.op = "reassign" =>
       ReassignmentAllowed(frame.name) /\ Bound(frame.name) /\ scopes' = scopes

FramesStep == \A j \in 1..Len(frames') : Stays(frames, frames', j) \/ Begins(frames'[j])

\* A reference made by `n is ref owner...': the chain starts at the owner's
\* value, unless calls ran in between.
ByChain(loan) ==
  \E value, chain, tip :
    /\ chain \in Chains(value) /\ Borrowable(chain, tip)
    /\ loan.locations = ChainLocations(chain, tip) /\ loan.path = PathFrom(chain, 1)
    /\ Bound(loan.owner) /\ loan.home = BindingScope(loan.owner)
    /\ loan.scope = Len(scopes)
    /\ "repl" \notin Construct =>
         \E mutable : scopes' = Define(scopes, loan.parameter, Reference(tip, mutable))
    /\ \/ value = Lookup(loan.owner).val /\ tip = Tip(value, chain)
       \/ Evaluating /\ Top.op \in {"ref", "mut ref"}
\* A loan of everything a loop or a match walks.
ByScan(loan) ==
  /\ Bound(loan.owner) /\ loan.home = BindingScope(loan.owner)
  /\ Lookup(loan.owner).val \in Collection /\ loan.path = <<>>
  /\ loan.locations = {Whole(id) : id \in Reachable({Lookup(loan.owner).val})}
ByParameter(loan) ==
  loan.scope = NoScope /\ \E id : loan.locations = {Whole(id)}

Stayed(i) == i \in 1..Len(active) /\ active'[i] = active[i]
LoansStep ==
  \A i \in 1..Len(active') :
    \/ Stayed(i)
    \/ ByChain(active'[i]) \/ ByScan(active'[i]) \/ ByParameter(active'[i])

\* The end of constructs.
LEMMA CutFrames ==
  ASSUME IInv, NEW m \in 0..Len(frames), frames' = SubSeq(frames, 1, m)
  PROVE  FramesStep
<1>1. Len(frames') = m /\ \A j \in 1..m : frames'[j] = frames[j]
  BY StateTyped, PrefixIs
<1>2. \A j \in 1..m : j \in 1..Len(frames)
  BY StateTyped
<1> QED
  BY <1>1, <1>2 DEF FramesStep, Stays

LEMMA PopFrames ==
  ASSUME IInv, frames # <<>>, PopFrame
  PROVE  FramesStep
<1>1. Len(frames) - 1 \in 0..Len(frames)
  BY StateTyped
<1> QED
  BY <1>1, CutFrames DEF PopFrame

LEMMA SameFrames == ASSUME frames' = frames PROVE FramesStep
BY DEF FramesStep, Stays

LEMMA PushFrames ==
  ASSUME IInv, NEW fr2 \in Seq(Frame), Len(fr2) = Len(frames),
         \A j \in 1..Len(frames) : Stays(frames, fr2, j),
         NEW frame, frames' = Append(fr2, frame), Begins(frame)
  PROVE  FramesStep
<1>1. /\ Len(frames') = Len(fr2) + 1 /\ frames'[Len(fr2) + 1] = frame
      /\ \A j \in 1..Len(fr2) : frames'[j] = fr2[j]
  BY AppendProperties
<1>2. \A j \in 1..Len(frames') : j \in 1..Len(fr2) \/ j = Len(fr2) + 1
  BY <1>1
<1> QED
  BY <1>1, <1>2 DEF FramesStep, Stays

LEMMA OpenFrames ==
  ASSUME IInv, NEW frame, PushFrame(frame), Begins(frame)
  PROVE  FramesStep
<1>1. \A j \in 1..Len(frames) : Stays(frames, frames, j)
  BY DEF Stays
<1> QED
  BY <1>1, PushFrames, StateTyped DEF PushFrame

LEMMA SetTopFrames ==
  ASSUME IInv, frames # <<>>, NEW frame, SetTop(frame),
         frame.op = Top.op, frame.name = Top.name, frame.depth = Top.depth,
         frame.loans = Top.loans, frame.kind \in {Top.kind, "call"}
  PROVE  FramesStep
<1>1. /\ Len(frames') = Len(frames)
      /\ \A j \in 1..Len(frames) : frames'[j] = IF j = Len(frames) THEN frame ELSE frames[j]
  BY StateTyped DEF SetTop
<1>2. ASSUME NEW j \in 1..Len(frames), j = Len(frames)
      PROVE  frames'[j] = frame /\ frames[j] = Top
  BY <1>1, <1>2 DEF Top
<1>3. ASSUME NEW j \in 1..Len(frames), j # Len(frames)
      PROVE  frames'[j] = frames[j]
  BY <1>1, <1>3
<1> QED
  BY <1>1, <1>2, <1>3 DEF FramesStep, Stays

\* A new construct of each kind.
LEMMA BeginsPlain ==
  ASSUME NEW kind, kind # "each"
  PROVE  Begins(OpenFrame(kind))
BY DEF Begins, OpenFrame, None, Mutations
LEMMA BeginsCall ==
  ASSUME NEW f, NEW args, NEW instance
  PROVE  Begins([OpenFrame("bind") EXCEPT !.function = f, !.args = args, !.instance = instance])
BY DEF Begins, OpenFrame, None, Mutations
LEMMA BeginsWalk ==
  ASSUME NEW kind, NEW n, NEW items, kind = "each" => "for" \in Construct
  PROVE  Begins([OpenFrame(kind) EXCEPT !.name = n, !.items = items])
BY DEF Begins, OpenFrame, None, Mutations
LEMMA BeginsEval ==
  ASSUME NEW n, NEW op, NEW args, NEW items,
         op \in {"ref", "mut ref"} => "borrow_call" \in Construct,
         op \in Mutations => op \in Construct,
         op = "reassign" => ReassignmentAllowed(n) /\ Bound(n) /\ scopes' = scopes
  PROVE  /\ Begins([OpenFrame("eval") EXCEPT !.op = op, !.name = n])
         /\ Begins([OpenFrame("eval") EXCEPT !.op = op, !.name = n, !.args = args,
                                             !.items = items])
BY DEF Begins, OpenFrame

LEMMA WritesFrames ==
  ASSUME IInv, Writes
  PROVE  FramesStep
<1>1. ASSUME NEW n, BeginReassign(n) \/ BeginWriteThrough(n)
                    \/ \E op \in {"set", "add", "remove"} : BeginMutation(op, n)
      PROVE  FramesStep
  <2>1. PICK op : /\ BeginEval(op, n)
                  /\ op \in {"ref", "mut ref"} => "borrow_call" \in Construct
                  /\ op \in Mutations => op \in Construct
                  /\ op = "reassign" => ReassignmentAllowed(n) /\ Bound(n) /\ scopes' = scopes
    <3>1. CASE BeginReassign(n)
      <4>1. BeginEval("reassign", n) /\ ReassignmentAllowed(n) /\ Bound(n) /\ scopes' = scopes
        BY <3>1 DEF BeginReassign, BeginEval, IsMutable
      <4>2. "reassign" \notin {"ref", "mut ref"} /\ "reassign" \notin Mutations
        BY DEF Mutations
      <4> QED
        BY <4>1, <4>2
    <3>2. CASE BeginWriteThrough(n)
      <4>1. BeginEval("write", n)
        BY <3>2 DEF BeginWriteThrough
      <4>2. "write" \notin {"ref", "mut ref"} /\ "write" \notin Mutations /\ "write" # "reassign"
        BY DEF Mutations
      <4> QED
        BY <4>1, <4>2
    <3>3. CASE \E op \in {"set", "add", "remove"} : BeginMutation(op, n)
      <4>1. \E op \in {"set", "add", "remove"} : BeginEval(op, n) /\ op \in Construct
        BY <3>3 DEF BeginMutation
      <4> QED
        BY <4>1
    <3> QED
      BY <1>1, <3>1, <3>2, <3>3
  <2>2. Begins([OpenFrame("eval") EXCEPT !.op = op, !.name = n])
    BY <2>1, BeginsEval
  <2> QED
    BY <2>1, <2>2, OpenFrames DEF BeginEval
<1>2. ASSUME Evaluating, PopFrame PROVE FramesStep
  BY <1>2, PopFrames DEF Evaluating
<1>3. ASSUME NEW value, FinishReassign(value) \/ FinishWriteThrough(value)
      PROVE  FramesStep
  BY <1>2, <1>3 DEF FinishReassign, FinishWriteThrough
<1>4. ASSUME NEW chain, NEW value, NEW key, NEW slot,
             \/ FinishSetIndex(chain, value) \/ FinishInsert(chain, key, value)
             \/ FinishAdd(value) \/ FinishRemove(slot)
      PROVE  FramesStep
  <2>1. \E op, contents : FinishMutation(op, contents)
    BY <1>4 DEF FinishSetIndex, FinishInsert, FinishAdd, FinishRemove
  <2> QED
    BY <1>2, <2>1 DEF FinishMutation
<1>5. ASSUME NEW values, DestructureReassign(values)
      PROVE  FramesStep
  BY <1>5, SameFrames DEF DestructureReassign
<1> QED
  BY <1>1, <1>3, <1>4, <1>5 DEF Writes

LEMMA ReferencesFrames ==
  ASSUME IInv, References
  PROVE  FramesStep
<1>1. ASSUME NEW n, NEW mutable \in BOOLEAN, NEW owner, NEW chain, Borrow(n, mutable, owner, chain)
      PROVE  FramesStep
  BY <1>1, SameFrames DEF Borrow
<1>2. ASSUME NEW n, NEW mutable \in BOOLEAN, NEW owner, BeginBorrow(n, mutable, owner)
      PROVE  FramesStep
  <2> DEFINE op == IF mutable THEN "mut ref" ELSE "ref"
             args == <<[source |-> owner, val |-> Lookup(owner).val]>>
             items == <<Lookup(owner).val>>
  <2>1. "borrow_call" \in Construct /\ op \notin Mutations /\ op # "reassign"
    BY <1>2 DEF BeginBorrow, Mutations
  <2> HIDE DEF args, op, items
  <2>2. Begins([OpenFrame("eval") EXCEPT !.op = op, !.name = n, !.args = args, !.items = items])
    BY <2>1, BeginsEval
  <2> QED
    BY <1>2, <2>2, OpenFrames DEF BeginBorrow, op, args, items
<1>3. ASSUME NEW chain, FinishBorrow(chain)
      PROVE  FramesStep
  BY <1>3, PopFrames DEF FinishBorrow, Evaluating
<1>4. ASSUME ReadSegment
      PROVE  FramesStep
  <2>1. PICK items, segment : SetTop([Top EXCEPT !.items = items, !.path = Append(@, segment)])
    BY <1>4 DEF ReadSegment
  <2> DEFINE frame == [Top EXCEPT !.items = items, !.path = Append(@, segment)]
  <2>2. Top \in Frame /\ frames # <<>>
    BY <1>4, TopTyped DEF ReadSegment, Evaluating, IInv
  <2>3. /\ frame.op = Top.op /\ frame.name = Top.name /\ frame.depth = Top.depth
        /\ frame.loans = Top.loans /\ frame.kind = Top.kind
    BY <2>2 DEF Frame
  <2> QED
    BY <2>1, <2>2, <2>3, SetTopFrames
<1> QED
  BY <1>1, <1>2, <1>3, <1>4 DEF References

LEMMA CallsFrames ==
  ASSUME IInv, Calls
  PROVE  FramesStep
<1>1. ASSUME NEW f, NEW args, NEW instance, BeginCall(f, args, instance)
      PROVE  FramesStep
  BY <1>1, BeginsCall, OpenFrames DEF BeginCall
<1>2. ASSUME NEW f, NEW args, Call(f, args) PROVE FramesStep
  BY <1>1, <1>2 DEF Call
<1>3. ASSUME NEW s, NEW m, NEW supplied, Dispatch(s, m, supplied) PROVE FramesStep
  <2>1. \E args : BeginCall(m, args, s)
    BY <1>3 DEF Dispatch
  <2> QED
    BY <1>1, <2>1
<1>4. ASSUME frames # <<>>, NEW next, SetTop([Top EXCEPT !.next = next]) PROVE FramesStep
  <2>1. Top \in Frame
    BY <1>4, TopTyped DEF IInv
  <2> DEFINE frame == [Top EXCEPT !.next = next]
  <2>2. /\ frame.op = Top.op /\ frame.name = Top.name /\ frame.depth = Top.depth
        /\ frame.loans = Top.loans /\ frame.kind = Top.kind
    BY <2>1 DEF Frame
  <2> HIDE DEF frame
  <2> QED
    BY <1>4, <2>2, SetTopFrames DEF frame
<1>5. ASSUME BindValueParameter \/ BindReferenceParameter PROVE FramesStep
  <2>1. frames # <<>> /\ SetTop([Top EXCEPT !.next = @ + 1])
    BY <1>5 DEF BindValueParameter, BindReferenceParameter, BindingParameter, Advance
  <2> QED
    BY <1>4, <2>1
<1>6. ASSUME RejectReferenceParameter PROVE FramesStep
  BY <1>6, PopFrames DEF RejectReferenceParameter, BindingParameter
<1>7. ASSUME EnterBody PROVE FramesStep
  <2>1. frames # <<>> /\ \E body : SetTop([Top EXCEPT !.kind = "call", !.body = body])
    BY <1>7 DEF EnterBody
  <2>2. PICK body : SetTop([Top EXCEPT !.kind = "call", !.body = body])
    BY <2>1
  <2>3. Top \in Frame
    BY <2>1, TopTyped DEF IInv
  <2> DEFINE frame == [Top EXCEPT !.kind = "call", !.body = body]
  <2>4. /\ frame.op = Top.op /\ frame.name = Top.name /\ frame.depth = Top.depth
        /\ frame.loans = Top.loans /\ frame.kind = "call"
    BY <2>3 DEF Frame
  <2> HIDE DEF frame
  <2> QED
    BY <2>1, <2>2, <2>4, SetTopFrames DEF frame
<1> QED
  BY <1>2, <1>3, <1>5, <1>6, <1>7 DEF Calls

LEMMA LoopsFrames ==
  ASSUME IInv, Loops
  PROVE  FramesStep
<1>1. ASSUME NEW n, NEW source, BeginForRef(n, source) \/ BeginMatchRef(n, source)
      PROVE  FramesStep
  <2>1. \E kind \in {"loop", "match"} : \E items :
          PushFrame([OpenFrame(kind) EXCEPT !.name = n, !.items = items])
    BY <1>1 DEF BeginForRef, BeginMatchRef, OpenShared
  <2> QED
    BY <2>1, BeginsWalk, OpenFrames
<1>2. ASSUME NEW n, NEW mutable, NEW source, BeginFor(n, mutable, source)
      PROVE  FramesStep
  <2>1. \E items : PushFrame([OpenFrame("each") EXCEPT !.name = n, !.items = items])
    BY <1>2 DEF BeginFor
  <2> QED
    BY <1>2, <2>1, BeginsWalk, OpenFrames DEF BeginFor
<1>3. ASSUME NextReferenceItem PROVE FramesStep
  <2> DEFINE n == Len(frames)
             fr2 == [frames EXCEPT ![n].items = Tail(@)]
  <2>1. frames' = Append(fr2, OpenFrame("block")) /\ frames # <<>> /\ Top.items # <<>>
    BY <1>3 DEF NextReferenceItem
  <2>2. n \in 1..n /\ Top = frames[n] /\ Top \in Frame
    BY <2>1, StateTyped, TopTyped DEF Top, IInv
  <2>3. [frames[n] EXCEPT !.items = Tail(@)] \in Frame
    <3>1. Tail(frames[n].items) \in Seq(Value)
      BY <2>1, <2>2 DEF Frame
    <3> QED
      BY <2>2, <3>1 DEF Frame
  <2>4. fr2 \in Seq(Frame) /\ Len(fr2) = n
    BY <2>2, <2>3, StateTyped
  <2>5. \A j \in 1..n : Stays(frames, fr2, j)
    <3> DEFINE top == [frames[n] EXCEPT !.items = Tail(@)]
    <3>1. /\ top.op = frames[n].op /\ top.name = frames[n].name /\ top.depth = frames[n].depth
          /\ top.loans = frames[n].loans /\ top.kind = frames[n].kind
      BY <2>2 DEF Frame
    <3>2. \A j \in 1..n : fr2[j] = IF j = n THEN top ELSE frames[j]
      BY StateTyped
    <3> HIDE DEF top, fr2
    <3> QED
      BY <3>1, <3>2 DEF Stays
  <2>6. Begins(OpenFrame("block"))
    BY BeginsPlain
  <2> HIDE DEF fr2
  <2> QED
    BY <2>1, <2>4, <2>5, <2>6, PushFrames
<1>4. ASSUME NextItem PROVE FramesStep
  <2>1. frames # <<>> /\ SetTop([Top EXCEPT !.items = Tail(@)])
    BY <1>4 DEF NextItem
  <2>2. Top \in Frame
    BY <2>1, TopTyped DEF IInv
  <2> DEFINE frame == [Top EXCEPT !.items = Tail(@)]
  <2>3. /\ frame.op = Top.op /\ frame.name = Top.name /\ frame.depth = Top.depth
        /\ frame.loans = Top.loans /\ frame.kind = Top.kind
    BY <2>2 DEF Frame
  <2> HIDE DEF frame
  <2> QED
    BY <2>1, <2>3, SetTopFrames DEF frame
<1> QED
  BY <1>1, <1>2, <1>3, <1>4 DEF Loops

LEMMA NextFrames ==
  ASSUME IInv, [Next]_vars
  PROVE  FramesStep
<1>1. CASE EnterBlock
  BY <1>1, BeginsPlain, OpenFrames DEF EnterBlock
<1>2. CASE Leave
  BY <1>2, PopFrames DEF Leave
<1>3. ASSUME NEW n, NEW mutable, NEW value, Declare(n, mutable, value) PROVE FramesStep
  BY <1>3, SameFrames DEF Declare
<1>4. CASE UNCHANGED vars
  BY <1>4, SameFrames DEF vars
<1> QED
  BY <1>1, <1>2, <1>3, <1>4, ReferencesFrames, WritesFrames, CallsFrames, LoopsFrames DEF Next

LEMMA SameLoans == ASSUME active' = active PROVE LoansStep
BY DEF LoansStep, Stayed

LEMMA CutLoans ==
  ASSUME IInv, NEW m \in 0..Len(active), active' = SubSeq(active, 1, m)
  PROVE  LoansStep
<1>1. Len(active') = m /\ \A i \in 1..m : active'[i] = active[i]
  BY StateTyped, PrefixIs
<1>2. \A i \in 1..m : i \in 1..Len(active)
  BY StateTyped
<1> QED
  BY <1>1, <1>2 DEF LoansStep, Stayed

LEMMA LendLoans ==
  ASSUME IInv, IInv', NEW loan, active' = Append(active, loan),
         ByChain(loan) \/ ByScan(loan) \/ ByParameter(loan)
  PROVE  LoansStep
<1>1. loan \in Loan
  BY AfterTyped, AppendedTyped, StateTyped
<1>2. /\ Len(active') = Len(active) + 1 /\ active'[Len(active) + 1] = loan
      /\ \A i \in 1..Len(active) : active'[i] = active[i]
  BY <1>1, StateTyped, AppendProperties
<1>3. \A i \in 1..Len(active') : i \in 1..Len(active) \/ i = Len(active) + 1
  BY <1>2, StateTyped
<1> QED
  BY <1>2, <1>3 DEF LoansStep, Stayed

LEMMA ReferencesLoans ==
  ASSUME IInv, IInv', References
  PROVE  LoansStep
<1>1. ASSUME NEW n, NEW mutable \in BOOLEAN, NEW owner, NEW value, NEW chain \in Chains(value),
             NEW tip, MakeReference(n, mutable, owner, value, chain, tip), Bound(owner),
             \/ value = Lookup(owner).val /\ tip = Tip(value, chain)
             \/ Evaluating /\ Top.op \in {"ref", "mut ref"}
      PROVE  LoansStep
  <2> DEFINE loan == ScopedLoan(ChainLocations(chain, tip), IF mutable THEN "Exclusive" ELSE "Shared",
                                n, owner, PathFrom(chain, 1), Current, "None", BindingScope(owner))
  <2>1. active' = Append(active, loan) /\ Borrowable(chain, tip)
    BY <1>1 DEF MakeReference
  <2>2. /\ loan.locations = ChainLocations(chain, tip) /\ loan.path = PathFrom(chain, 1)
        /\ loan.owner = owner /\ loan.home = BindingScope(owner)
        /\ loan.scope = Len(scopes) /\ loan.parameter = n
    BY DEF ScopedLoan, Current
  <2>3. "repl" \notin Construct => scopes' = Define(scopes, n, Reference(tip, mutable))
    BY <1>1 DEF MakeReference
  <2> HIDE DEF loan
  <2>4. ByChain(loan)
    BY <1>1, <2>1, <2>2, <2>3 DEF ByChain
  <2> QED
    BY <2>1, <2>4, LendLoans
<1>2. ASSUME NEW n, NEW mutable \in BOOLEAN, NEW owner, NEW chain \in Chains(Lookup(owner).val),
             Borrow(n, mutable, owner, chain)
      PROVE  LoansStep
  BY <1>1, <1>2 DEF Borrow
<1>3. ASSUME NEW n, NEW mutable \in BOOLEAN, NEW owner, BeginBorrow(n, mutable, owner)
      PROVE  LoansStep
  BY <1>3, SameLoans DEF BeginBorrow
<1>4. ASSUME NEW chain \in Chains(Top.args[1].val), FinishBorrow(chain)
      PROVE  LoansStep
  <2>1. (Top.op = "mut ref") \in BOOLEAN
    OBVIOUS
  <2> QED
    BY <1>1, <1>4, <2>1 DEF FinishBorrow
<1>5. ASSUME ReadSegment
      PROVE  LoansStep
  BY <1>5, SameLoans DEF ReadSegment
<1> QED
  BY <1>2, <1>3, <1>4, <1>5 DEF References

LEMMA CallsLoans ==
  ASSUME IInv, IInv', Calls
  PROVE  LoansStep
<1>1. ASSUME NEW f, NEW args, NEW instance, BeginCall(f, args, instance) PROVE LoansStep
  BY <1>1, SameLoans DEF BeginCall
<1>2. ASSUME NEW f, NEW args, Call(f, args) PROVE LoansStep
  BY <1>1, <1>2 DEF Call
<1>3. ASSUME NEW s, NEW m, NEW supplied, Dispatch(s, m, supplied) PROVE LoansStep
  <2>1. \E args : BeginCall(m, args, s)
    BY <1>3 DEF Dispatch
  <2> QED
    BY <1>1, <2>1
<1>4. ASSUME BindValueParameter PROVE LoansStep
  BY <1>4, SameLoans DEF BindValueParameter
<1>5. ASSUME BindReferenceParameter PROVE LoansStep
  <2> DEFINE loan == ParameterLoan(NextParam.name, ParameterMode, NextArgument.val)
  <2>1. active' = Append(active, loan)
    BY <1>5 DEF BindReferenceParameter
  <2>2. ByParameter(loan)
    BY DEF ParameterLoan, ScopedLoan, ByParameter
  <2> HIDE DEF loan
  <2> QED
    BY <2>1, <2>2, LendLoans
<1>6. ASSUME RejectReferenceParameter PROVE LoansStep
  BY <1>6, RetainedIsPrefix, CutLoans DEF RejectReferenceParameter, BindingParameter
<1>7. ASSUME EnterBody PROVE LoansStep
  BY <1>7, SameLoans DEF EnterBody
<1> QED
  BY <1>2, <1>3, <1>4, <1>5, <1>6, <1>7 DEF Calls

LEMMA LoopsLoans ==
  ASSUME IInv, IInv', Loops
  PROVE  LoansStep
<1>1. ASSUME NEW kind, NEW escape, NEW n, NEW source, OpenShared(kind, escape, n, source)
      PROVE  LoansStep
  <2> DEFINE loan == ScopedLoan({Whole(id) : id \in Reachable({Lookup(source).val})}, "Shared", n,
                                source, <<>>, Current + 1, escape, BindingScope(source))
  <2>1. active' = Append(active, loan) /\ Bound(source) /\ Lookup(source).val \in Collection
    BY <1>1 DEF OpenShared
  <2>2. /\ loan.locations = {Whole(id) : id \in Reachable({Lookup(source).val})} /\ loan.path = <<>>
        /\ loan.owner = source /\ loan.home = BindingScope(source)
    BY DEF ScopedLoan
  <2> HIDE DEF loan
  <2>3. ByScan(loan)
    BY <2>1, <2>2 DEF ByScan
  <2> QED
    BY <2>1, <2>3, LendLoans
<1>2. ASSUME NEW n, NEW source, BeginForRef(n, source) \/ BeginMatchRef(n, source)
      PROVE  LoansStep
  BY <1>1, <1>2 DEF BeginForRef, BeginMatchRef
<1>3. ASSUME active' = active PROVE LoansStep
  BY <1>3, SameLoans
<1> QED
  BY <1>2, <1>3 DEF Loops, BeginFor, NextReferenceItem, NextItem

LEMMA NextLoans ==
  ASSUME IInv, [Next]_vars
  PROVE  LoansStep
<1>1. IInv'
  BY StepInv
<1>2. CASE Leave
  <2>1. frames # <<>> /\ active' = SubSeq(active, 1, Top.checkpoint)
    BY <1>2, RetainedIsPrefix DEF Leave
  <2> QED
    BY <2>1, RetainedIsPrefix, CutLoans
<1>3. CASE Writes
  <2>1. active' = active
    BY <1>3 DEF Writes, BeginReassign, BeginWriteThrough, BeginMutation, BeginEval, FinishReassign,
         FinishWriteThrough, FinishSetIndex, FinishInsert, FinishAdd, FinishRemove, FinishMutation,
         DestructureReassign
  <2> QED
    BY <2>1, SameLoans
<1>4. CASE EnterBlock
  BY <1>4, SameLoans DEF EnterBlock
<1>5. ASSUME NEW n, NEW mutable, NEW value, Declare(n, mutable, value) PROVE LoansStep
  BY <1>5, SameLoans DEF Declare
<1>6. CASE UNCHANGED vars
  BY <1>6, SameLoans DEF vars
<1> QED
  BY <1>1, <1>2, <1>3, <1>4, <1>5, <1>6, ReferencesLoans, CallsLoans, LoopsLoans DEF Next

-----------------------------------------------------------------------------
(* Fields that are lent.                                                     *)

\* A lent slot of a struct instance is one of its fields.
FieldLent(l) ==
  (l.identity \in Struct /\ l.path # <<>>) =>
    /\ l.path[1] = <<"Field", l.path[1][2]>>
    /\ l.path[1][2] \in DOMAIN heap[l.identity]
FieldsLent == \A i \in 1..Len(active) : \A l \in active[i].locations : FieldLent(l)
NoMutation == \A j \in 1..Len(frames) : frames[j].op \notin Mutations
\* The inductive invariant of the fields that are lent.
FInv == IInv /\ NoMutation /\ FieldsLent

FieldsStay == \A id \in Struct : DOMAIN heap'[id] = DOMAIN heap[id]
LentKept ==
  (Evaluating => Top.op # "write") =>
    \A i \in DOMAIN active \cap DOMAIN active' :
      \A l \in active[i].locations :
        (l.identity \in Struct /\ l.path # <<>>) =>
          heap'[l.identity][l.path[1][2]] = heap[l.identity][l.path[1][2]]

\* The locations of a chain are of slots that exist.
LEMMA ChainLent ==
  ASSUME NEW value, NEW chain \in Chains(value), NEW tip,
         NEW l \in ChainLocations(chain, tip)
  PROVE  FieldLent(l)
<1>1. PICK m \in 0..MaxPath : chain \in [1..m -> Links]
  BY DEF Chains
<1>2. Len(chain) = m /\ m \in Nat /\ DOMAIN chain = 1..m
  BY <1>1, BoundsAssumption
<1>3. CASE l = Whole(tip)
  BY <1>3 DEF FieldLent, Whole
<1>4. ASSUME NEW i \in DOMAIN chain, l = [identity |-> chain[i].container, path |-> PathFrom(chain, i)],
             l.identity \in Struct
      PROVE  FieldLent(l)
  <2>1. /\ l.identity = chain[i].container /\ l.path = PathFrom(chain, i)
        /\ chain[i].slot \in DOMAIN heap[chain[i].container]
    <3>1. chain[i] \in Links
      BY <1>1, <1>2
    <3> QED
      BY <1>4, <3>1 DEF Links
  <2>2. KindOf(chain[i].container) = "Field"
    BY <1>4, <2>1, ValuesAssumption DEF KindOf, Collection
  <2>3. l.path[1] = <<KindOf(chain[i].container), chain[i].slot>>
    <3>1. i \in 1..m /\ Len(chain) + 1 - i \in Nat /\ 1 \in 1..(Len(chain) + 1 - i) /\ i + 1 - 1 = i
      BY <1>2
    <3> QED
      BY <2>1, <3>1 DEF PathFrom
  <2> QED
    BY <2>1, <2>2, <2>3 DEF FieldLent
<1> QED
  BY <1>3, <1>4 DEF ChainLocations, FieldLent

LEMMA LoansLent ==
  ASSUME FInv, LoansStep, FieldsStay
  PROVE  FieldsLent'
<1> SUFFICES ASSUME NEW i \in 1..Len(active'), NEW l \in active'[i].locations
             PROVE  FieldLent(l)'
  BY DEF FieldsLent
<1>1. FieldLent(l)
  <2>1. CASE Stayed(i)
    BY <2>1 DEF Stayed, FInv, FieldsLent
  <2>2. CASE ByChain(active'[i])
    BY <2>2, ChainLent DEF ByChain
  <2>3. CASE ByScan(active'[i]) \/ ByParameter(active'[i])
    <3>1. l.path = <<>>
      BY <2>3 DEF ByScan, ByParameter, Whole
    <3> QED
      BY <3>1 DEF FieldLent
  <2> QED
    BY <2>1, <2>2, <2>3 DEF LoansStep
<1> QED
  BY <1>1 DEF FieldLent, FieldsStay

\* The field of a running message that is written is not lent.
LEMMA UnlentField ==
  ASSUME IInv, FieldsLent, NEW n, FieldMutationAllowed(n), MessageFrames(n) # {},
         NEW i \in DOMAIN active, NEW l \in active[i].locations,
         l.identity \in Struct, l.path # <<>>, l.identity = MessageInstance(n)
  PROVE  l.path[1][2] # n
<1> SUFFICES ASSUME l.path[1][2] = n PROVE FALSE
  OBVIOUS
<1>1. l.path[1] = <<"Field", n>>
  <2>1. i \in 1..Len(active)
    BY StateTyped
  <2> QED
    BY <2>1 DEF FieldsLent, FieldLent
<1> DEFINE field == [identity |-> MessageInstance(n), path |-> << <<"Field", n>> >>]
<1>2. Len(field.path) = 1 /\ field.path[1] = <<"Field", n>> /\ field.identity = l.identity
  OBVIOUS
<1> HIDE DEF field
<1>3. \A j \in Common(field, l) : j = 1
  BY <1>2 DEF Common
<1>4. Overlap(field, l)
  BY <1>1, <1>2, <1>3 DEF Overlap
<1>5. i \in Overlapping({field})
  BY <1>4 DEF Overlapping, AnyOverlap
<1> QED
  BY <1>5 DEF FieldMutationAllowed, field

FieldsAfter == FieldsStay /\ LentKept

LEMMA HeapDomain == ASSUME IInv PROVE DOMAIN heap = Object /\ Struct \subseteq DOMAIN heap
BY DEF IInv, WellTyped, Typed, HeapOK, Object

LEMMA SameHeapKept == ASSUME heap' = heap PROVE FieldsAfter
BY DEF FieldsAfter, FieldsStay, LentKept

LEMMA ReassignKept ==
  ASSUME FInv, NEW value, FinishReassign(value)
  PROVE  FieldsAfter
<1> DEFINE n == Top.name
           id == MessageInstance(n)
<1>1. FieldMutationAllowed(n) /\ heap' = Persisted(heap, n, value)
  BY DEF FinishReassign
<1>2. CASE MessageFrames(n) = {}
  BY <1>1, <1>2, SameHeapKept DEF Persisted
<1>3. CASE MessageFrames(n) # {}
  <2>1. heap' = [heap EXCEPT ![id][n] = value]
    BY <1>1, <1>3 DEF Persisted
  <2> HIDE DEF n, id
  <2>2. \A o \in Struct : heap'[o] = IF o = id THEN [heap[o] EXCEPT ![n] = value] ELSE heap[o]
    BY <2>1, HeapDomain DEF FInv
  <2>3. FieldsStay
    BY <2>2 DEF FieldsStay
  <2>4. ASSUME NEW i \in DOMAIN active, NEW l \in active[i].locations,
               l.identity \in Struct, l.path # <<>>
        PROVE  heap'[l.identity][l.path[1][2]] = heap[l.identity][l.path[1][2]]
    <3>1. CASE l.identity # id
      BY <2>2, <2>4, <3>1
    <3>2. CASE l.identity = id
      <4>1. l.path[1][2] # n
        BY <1>1, <1>3, <2>4, <3>2, UnlentField DEF FInv, n, id
      <4>2. l.path[1][2] \in DOMAIN heap[id]
        <5>1. i \in 1..Len(active)
          BY <2>4, StateTyped DEF FInv
        <5> QED
          BY <2>4, <3>2, <5>1 DEF FInv, FieldsLent, FieldLent
      <4> QED
        BY <2>2, <2>4, <3>2, <4>1, <4>2
    <3> QED
      BY <3>1, <3>2
  <2> QED
    BY <2>3, <2>4 DEF FieldsAfter, LentKept
<1> QED
  BY <1>2, <1>3

LEMMA WriteThroughKept ==
  ASSUME IInv, NEW value, FinishWriteThrough(value)
  PROVE  FieldsAfter
<1>1. PICK o, s, w, n, v : heap' = Persisted([heap EXCEPT ![o][s] = w], n, v)
  BY DEF FinishWriteThrough
<1> DEFINE after == [heap EXCEPT ![o][s] = w]
<1>2. \A id \in Struct : DOMAIN after[id] = DOMAIN heap[id]
  <2>1. \A id \in Struct : after[id] = IF id = o THEN [heap[id] EXCEPT ![s] = w] ELSE heap[id]
    BY HeapDomain
  <2> QED
    BY <2>1
<1>3. Struct \subseteq DOMAIN after
  BY HeapDomain
<1> HIDE DEF after
<1>4. heap' = after \/ \E id : heap' = [after EXCEPT ![id][n] = v]
  BY <1>1 DEF Persisted, after
<1>5. FieldsStay
  <2>1. CASE heap' = after
    BY <1>2, <2>1 DEF FieldsStay
  <2>2. ASSUME NEW id, heap' = [after EXCEPT ![id][n] = v]
        PROVE  FieldsStay
    <3>1. \A st \in Struct : heap'[st] = IF st = id THEN [after[st] EXCEPT ![n] = v] ELSE after[st]
      BY <1>3, <2>2
    <3>2. \A st \in Struct : DOMAIN heap'[st] = DOMAIN after[st]
      BY <3>1
    <3> QED
      BY <1>2, <3>2 DEF FieldsStay
  <2> QED
    BY <1>4, <2>1, <2>2
<1>6. Evaluating /\ Top.op = "write"
  BY DEF FinishWriteThrough
<1> QED
  BY <1>5, <1>6 DEF FieldsAfter, LentKept

LEMMA DestructureKept ==
  ASSUME FInv, NEW values, DestructureReassign(values)
  PROVE  FieldsAfter
<1> DEFINE written(id, s) ==
      id \in Struct /\ s \in DOMAIN values /\ MessageFrames(s) # {} /\ MessageInstance(s) = id
<1>1. /\ \A n \in DOMAIN values : FieldMutationAllowed(n)
      /\ heap' = [id \in DOMAIN heap |->
                   [s \in DOMAIN heap[id] |-> IF written(id, s) THEN values[s] ELSE heap[id][s]]]
  BY DEF DestructureReassign
<1>2. \A id \in Struct :
        heap'[id] = [s \in DOMAIN heap[id] |-> IF written(id, s) THEN values[s] ELSE heap[id][s]]
  BY <1>1, HeapDomain DEF FInv
<1>3. FieldsStay
  BY <1>2 DEF FieldsStay
<1>4. ASSUME NEW i \in DOMAIN active, NEW l \in active[i].locations,
             l.identity \in Struct, l.path # <<>>
      PROVE  heap'[l.identity][l.path[1][2]] = heap[l.identity][l.path[1][2]]
  <2> DEFINE s == l.path[1][2]
  <2>1. s \in DOMAIN heap[l.identity]
    <3>1. i \in 1..Len(active)
      BY <1>4, StateTyped DEF FInv
    <3> QED
      BY <1>4, <3>1 DEF FInv, FieldsLent, FieldLent
  <2>2. ~written(l.identity, s)
    BY <1>1, <1>4, UnlentField DEF FInv
  <2> HIDE DEF s, written
  <2>3. heap'[l.identity][s] = heap[l.identity][s]
    BY <1>2, <1>4, <2>1, <2>2
  <2> QED
    BY <2>3 DEF s
<1> QED
  BY <1>3, <1>4 DEF FieldsAfter, LentKept

LEMMA MutationKept ==
  ASSUME FInv, NEW op \in Mutations, NEW contents, FinishMutation(op, contents)
  PROVE  FieldsAfter
<1>1. Evaluating /\ Top.op = op
  BY DEF FinishMutation
<1>2. Len(frames) \in 1..Len(frames)
  BY <1>1, StateTyped DEF Evaluating, FInv
<1> QED
  BY <1>1, <1>2 DEF FInv, NoMutation, Top

LEMMA NextKept ==
  ASSUME FInv, [Next]_vars
  PROVE  FieldsAfter
<1>1. CASE Writes
  <2>1. ASSUME NEW n, BeginReassign(n) \/ BeginWriteThrough(n)
                      \/ \E op \in {"set", "add", "remove"} : BeginMutation(op, n)
        PROVE  FieldsAfter
    BY <2>1, SameHeapKept DEF BeginReassign, BeginWriteThrough, BeginMutation, BeginEval
  <2>2. ASSUME NEW value, FinishReassign(value) \/ FinishWriteThrough(value)
        PROVE  FieldsAfter
    BY <2>2, ReassignKept, WriteThroughKept DEF FInv
  <2>3. ASSUME NEW chain, NEW value, NEW key, NEW slot,
               \/ FinishSetIndex(chain, value) \/ FinishInsert(chain, key, value)
               \/ FinishAdd(value) \/ FinishRemove(slot)
        PROVE  FieldsAfter
    <3>1. \E op \in {"set", "add", "remove"} : \E contents : FinishMutation(op, contents)
      BY <2>3 DEF FinishSetIndex, FinishInsert, FinishAdd, FinishRemove
    <3> QED
      BY <3>1, MutationKept DEF Mutations
  <2>4. ASSUME NEW values, DestructureReassign(values)
        PROVE  FieldsAfter
    BY <2>4, DestructureKept
  <2> QED
    BY <1>1, <2>1, <2>2, <2>3, <2>4 DEF Writes
<1>2. CASE heap' = heap
  BY <1>2, SameHeapKept
<1>3. CASE References
  <2>1. heap' = heap
    BY <1>3 DEF References, Borrow, BeginBorrow, ReadSegment, FinishBorrow, MakeReference
  <2> QED
    BY <1>2, <2>1
<1>4. CASE Calls
  <2>1. heap' = heap
    BY <1>4 DEF Calls, Call, Dispatch, BeginCall, BindValueParameter, BindReferenceParameter,
         RejectReferenceParameter, EnterBody
  <2> QED
    BY <1>2, <2>1
<1>5. CASE Loops
  <2>1. heap' = heap
    BY <1>5 DEF Loops, BeginForRef, BeginMatchRef, OpenShared, BeginFor, NextReferenceItem, NextItem
  <2> QED
    BY <1>2, <2>1
<1>6. EnterBlock => heap' = heap
  BY DEF EnterBlock
<1>7. Leave => heap' = heap
  BY DEF Leave
<1>8. (\E n \in Name, mutable \in BOOLEAN, value \in Readable : Declare(n, mutable, value)) => heap' = heap
  BY DEF Declare
<1>9. UNCHANGED vars => heap' = heap
  BY DEF vars
<1> QED
  BY <1>1, <1>2, <1>3, <1>4, <1>5, <1>6, <1>7, <1>8, <1>9 DEF Next

\* Programs that change no collection in place: such a change saves the
\* message's copy of a field again, without the test of a lent field.
NoCollectionWrites == Construct \cap Mutations = {}

LEMMA StepFInv ==
  ASSUME NoCollectionWrites, FInv, [Next]_vars
  PROVE  FInv' /\ LentKept
<1>1. IInv' /\ FramesStep /\ LoansStep
  BY StepInv, NextFrames, NextLoans DEF FInv
<1>2. FieldsAfter
  BY NextKept
<1>3. FieldsLent'
  BY <1>1, <1>2, LoansLent DEF FieldsAfter
<1>4. NoMutation'
  <2> SUFFICES ASSUME NEW j \in 1..Len(frames') PROVE frames'[j].op \notin Mutations
    BY DEF NoMutation
  <2>1. CASE Stays(frames, frames', j)
    BY <2>1 DEF Stays, FInv, NoMutation
  <2>2. CASE Begins(frames'[j])
    BY <2>2 DEF Begins, NoCollectionWrites
  <2> QED
    BY <1>1, <2>1, <2>2 DEF FramesStep
<1> QED
  BY <1>1, <1>2, <1>3, <1>4 DEF FInv, FieldsAfter

\* In programs that change no collection in place, a field that is lent
\* changes only by a write through a reference (LentFieldsKept).
THEOREM LentFieldsStay == NoCollectionWrites => (Spec => LentFieldsKept)
<1> SUFFICES ASSUME NoCollectionWrites PROVE Spec => LentFieldsKept
  OBVIOUS
<1>1. Init => FInv
  <2>1. Init => Len(frames) = 0 /\ Len(active) = 0
    BY DEF Init
  <2> QED
    BY <2>1, InitInv DEF FInv, NoMutation, FieldsLent
<1>2. FInv /\ [Next]_vars => FInv'
  BY StepFInv
<1>3. FInv /\ [Next]_vars => [LentKept]_vars
  BY StepFInv
<1> QED
  BY <1>1, <1>2, <1>3, PTL DEF Spec, LentFieldsKept, LentKept

-----------------------------------------------------------------------------
(* Owners stay bound to what they lent.                                      *)

\* OwnerPinned, of one loan.
PinnedTo(sc, loan) ==
  loan.scope # NoScope => \E l \in loan.locations : l.identity = sc[loan.home][loan.owner].val
LoansPinned == \A k \in 1..Len(active) : PinnedTo(scopes, active[k])

\* Loan k is not of the binding of n in scope i.
NotOf(loans, k, i, n) ==
  loans[k].scope # NoScope => ~(loans[k].home = i /\ loans[k].owner = n)

\* The name that a half-evaluated assignment will assign has not been lent.
Unlent(sc, frame) ==
  \A k \in 1..Len(frame.loans) :
    NotOf(frame.loans, k, Highest({i \in 1..frame.depth : frame.name \in DOMAIN sc[i]}), frame.name)
AssignsUnlent ==
  \A j \in 1..Len(frames) : frames[j].op = "reassign" => Unlent(scopes, frames[j])

\* Nothing rebinds a name without the test of an assignment.
PlainFrames ==
  \A j \in 1..Len(frames) : frames[j].kind # "each" /\ frames[j].op \notin {"ref", "mut ref"}

\* The inductive invariant of the owners.
OInv == IInv /\ LoansPinned /\ AssignsUnlent /\ PlainFrames
OAfter == LoansPinned' /\ AssignsUnlent'

\* The names below a construct stay, and so do the values of owners.
NamesStay ==
  \A i \in 1..Len(scopes) :
    (i <= Len(scopes') /\ \E j \in 1..Len(frames) : i <= frames[j].depth) =>
      DOMAIN scopes'[i] = DOMAIN scopes[i]
OwnersStay ==
  \A i \in 1..Len(scopes) : i <= Len(scopes') =>
    \A n \in DOMAIN scopes[i] :
      \/ scopes'[i][n].val = scopes[i][n].val
      \/ active' = active /\ \A k \in 1..Len(active) : NotOf(active, k, i, n)

\* A new loan covers the object its owner is bound to.
LEMMA NewPinned ==
  ASSUME IInv, PlainFrames, NEW loan, ByChain(loan) \/ ByScan(loan) \/ ByParameter(loan)
  PROVE  \/ loan.scope = NoScope
         \/ /\ Bound(loan.owner) /\ loan.home = BindingScope(loan.owner)
            /\ \E l \in loan.locations : l.identity = Lookup(loan.owner).val
<1>1. CASE ByChain(loan)
  <2>1. ~(Evaluating /\ Top.op \in {"ref", "mut ref"})
    <3>1. frames # <<>> => Len(frames) \in 1..Len(frames)
      BY StateTyped
    <3> QED
      BY <3>1 DEF Evaluating, PlainFrames, Top
  <2>2. PICK chain : LET value == Lookup(loan.owner).val
                         tip == Tip(value, chain)
                     IN  /\ chain \in Chains(value) /\ Borrowable(chain, tip)
                         /\ loan.locations = ChainLocations(chain, tip)
    BY <1>1, <2>1 DEF ByChain
  <2> DEFINE value == Lookup(loan.owner).val
             tip == Tip(value, chain)
  <2>3. CASE chain = <<>>
    <3>1. value \in Object /\ tip = value
      BY <2>2, <2>3 DEF Borrowable, Tip
    <3>2. Whole(value) \in ChainLocations(chain, tip) /\ Whole(value).identity = value
      BY <3>1 DEF ChainLocations, Whole
    <3> QED
      BY <1>1, <2>2, <3>2 DEF ByChain
  <2>4. CASE chain # <<>>
    <3>1. PICK m \in 0..MaxPath : chain \in [1..m -> Links]
      BY <2>2 DEF Chains
    <3>2. 1 \in DOMAIN chain
      BY <2>4, <3>1, BoundsAssumption
    <3>3. chain[1].container = value
      BY <2>2, <3>2 DEF Chains
    <3> DEFINE l == [identity |-> chain[1].container, path |-> PathFrom(chain, 1)]
    <3>4. l \in ChainLocations(chain, tip) /\ l.identity = value
      BY <3>2, <3>3 DEF ChainLocations
    <3> QED
      BY <1>1, <2>2, <3>4 DEF ByChain
  <2> QED
    BY <2>3, <2>4
<1>2. CASE ByScan(loan)
  <2> DEFINE value == Lookup(loan.owner).val
  <2>1. value \in Object
    BY <1>2 DEF ByScan, Object
  <2>2. value \in Reachable({value})
    BY <2>1 DEF Reachable
  <2>3. Whole(value) \in loan.locations /\ Whole(value).identity = value
    BY <1>2, <2>2 DEF ByScan, Whole
  <2> QED
    BY <1>2, <2>3 DEF ByScan
<1>3. CASE ByParameter(loan)
  BY <1>3 DEF ByParameter
<1> QED
  BY <1>1, <1>2, <1>3

LEMMA KeepPinned ==
  ASSUME OInv, IInv', FramesStep, LoansStep, NamesStay, OwnersStay
  PROVE  OAfter
<1>1. ASSUME NEW k \in 1..Len(active'), active'[k].scope # NoScope
      PROVE  \E l \in active'[k].locations :
               l.identity = scopes'[active'[k].home][active'[k].owner].val
  <2> DEFINE i == active'[k].home
             n == active'[k].owner
  <2>1. i <= Len(scopes')
    <3>1. LoanHeld(scopes', active', frames', k)
      BY StateTyped DEF IInv, Nested
    <3>2. active'[k].scope \in Nat /\ i \in Nat /\ Len(scopes') \in Nat
      BY AfterTyped, SequenceTypes
    <3> QED
      BY <1>1, <3>1, <3>2 DEF LoanHeld
  <2>2. CASE Stayed(k)
    <3>1. k \in 1..Len(active) /\ active'[k] = active[k]
      BY <2>2 DEF Stayed
    <3>2. i \in 1..Len(scopes) /\ n \in DOMAIN scopes[i]
      <4>1. LoanHeld(scopes, active, frames, k)
        BY <3>1, StateTyped DEF OInv, Nested
      <4>2. active[k].scope \in Nat /\ active[k].home \in Nat /\ Len(scopes) \in Nat
        BY <3>1, StateTyped, SequenceTypes DEF OInv
      <4> QED
        BY <1>1, <3>1, <4>1, <4>2 DEF LoanHeld
    <3>3. ~NotOf(active, k, i, n)
      BY <1>1, <3>1 DEF NotOf
    <3>4. scopes'[i][n].val = scopes[i][n].val
      BY <2>1, <3>1, <3>2, <3>3 DEF OwnersStay
    <3>5. PinnedTo(scopes, active[k])
      BY <3>1 DEF OInv, LoansPinned
    <3> QED
      BY <1>1, <3>1, <3>4, <3>5 DEF PinnedTo
  <2>3. CASE ~Stayed(k)
    <3>1. ByChain(active'[k]) \/ ByScan(active'[k]) \/ ByParameter(active'[k])
      BY <2>3 DEF LoansStep
    <3>2. /\ Bound(n) /\ i = BindingScope(n)
          /\ \E l \in active'[k].locations : l.identity = Lookup(n).val
      BY <1>1, <3>1, NewPinned DEF OInv
    <3>3. i \in 1..Len(scopes) /\ n \in DOMAIN scopes[i] /\ Lookup(n) = scopes[i][n]
      BY <3>2, LookupTyped DEF OInv, IInv, WellTyped, Lookup
    <3>4. active' # active
      BY <2>3 DEF Stayed
    <3>5. scopes'[i][n].val = scopes[i][n].val
      BY <2>1, <3>3, <3>4 DEF OwnersStay
    <3> QED
      BY <3>2, <3>3, <3>5
  <2> QED
    BY <2>2, <2>3
<1>2. LoansPinned'
  BY <1>1 DEF LoansPinned, PinnedTo
<1>3. ASSUME NEW j \in 1..Len(frames'), frames'[j].op = "reassign"
      PROVE  Unlent(scopes', frames'[j])
  <2> DEFINE frame == frames'[j]
             d == frame.depth
             n == frame.name
  <2>1. CASE Stays(frames, frames', j)
    <3>1. /\ j \in 1..Len(frames) /\ frames[j].op = "reassign" /\ frames[j].name = n
          /\ frames[j].depth = d /\ frames[j].loans = frame.loans
      BY <1>3, <2>1 DEF Stays
    <3>2. d \in Nat /\ d <= Len(scopes) /\ d <= Len(scopes') /\ Len(scopes) \in Nat /\ Len(scopes') \in Nat
      <4>1. FrameNests(scopes, active, frames, j) /\ FrameNests(scopes', active', frames', j)
        BY <3>1 DEF OInv, IInv, Nested
      <4>2. /\ frames[j].depth \in Nat /\ Len(scopes) \in Nat /\ Len(scopes') \in Nat
        BY <3>1, StateTyped, AfterTyped, SequenceTypes DEF OInv
      <4> QED
        BY <3>1, <4>1, <4>2 DEF FrameNests
    <3>3. ASSUME NEW i \in 1..d PROVE DOMAIN scopes'[i] = DOMAIN scopes[i]
      <4>1. i \in 1..Len(scopes) /\ i <= Len(scopes') /\ i <= frames[j].depth
        BY <3>1, <3>2
      <4> QED
        BY <3>1, <4>1 DEF NamesStay
    <3>4. {i \in 1..d : n \in DOMAIN scopes'[i]} = {i \in 1..d : n \in DOMAIN scopes[i]}
      BY <3>3
    <3>5. Unlent(scopes, frames[j])
      BY <3>1 DEF OInv, AssignsUnlent
    <3> QED
      BY <3>1, <3>4, <3>5 DEF Unlent
  <2>2. CASE Begins(frame)
    <3>1. /\ d = Len(scopes) /\ frame.loans = active /\ scopes' = scopes
          /\ ReassignmentAllowed(n) /\ Bound(n)
      BY <1>3, <2>2 DEF Begins
    <3>2. Highest({i \in 1..d : n \in DOMAIN scopes[i]}) = BindingScope(n)
      BY <3>1 DEF BindingScope, Visible
    <3>3. ASSUME NEW k \in 1..Len(active), active[k].scope # NoScope,
                 active[k].home = BindingScope(n), active[k].owner = n
          PROVE  FALSE
      <4>1. \E l \in active[k].locations : l.identity = Lookup(n).val
        BY <3>3 DEF OInv, LoansPinned, PinnedTo, Lookup
      <4>2. k \in DOMAIN active
        BY StateTyped DEF OInv
      <4> QED
        BY <3>1, <4>1, <4>2 DEF ReassignmentAllowed
    <3> QED
      BY <3>1, <3>2, <3>3 DEF Unlent, NotOf
  <2> QED
    BY <2>1, <2>2 DEF FramesStep
<1>4. AssignsUnlent'
  BY <1>3 DEF AssignsUnlent
<1> QED
  BY <1>2, <1>4 DEF OAfter

\* Scopes that are opened, closed or left alone.
Agree(sc, sc2) == \A i \in 1..Len(sc) : i <= Len(sc2) => sc2[i] = sc[i]

LEMMA AgreeStay ==
  ASSUME Agree(scopes, scopes')
  PROVE  NamesStay /\ OwnersStay
BY DEF Agree, NamesStay, OwnersStay

LEMMA AppendAgree ==
  ASSUME NEW sc \in Seq(Scope), NEW outer \in Seq(Scope), NEW scope \in Scope,
         Len(outer) >= Len(sc), Agree(sc, outer)
  PROVE  /\ Append(outer, scope) \in Seq(Scope) /\ Agree(sc, Append(outer, scope))
         /\ Len(Append(outer, scope)) >= Len(sc)
<1> DEFINE sc2 == Append(outer, scope)
<1>1. /\ sc2 \in Seq(Scope) /\ Len(sc2) = Len(outer) + 1 /\ Len(outer) \in Nat /\ Len(sc) \in Nat
      /\ \A i \in 1..Len(outer) : sc2[i] = outer[i]
  BY AppendProperties
<1>2. \A i \in 1..Len(sc) : i \in 1..Len(outer)
  BY <1>1
<1> HIDE DEF sc2
<1>3. Agree(sc, sc2) /\ Len(sc2) >= Len(sc)
  BY <1>1, <1>2 DEF Agree
<1> QED
  BY <1>1, <1>3 DEF sc2

\* A name that is new in the innermost scope is no construct's and no loan's.
LEMMA DefineStays ==
  ASSUME IInv, InStatement, NEW n, n \notin DOMAIN scopes[Current], NEW binding,
         scopes' = Define(scopes, n, binding)
  PROVE  NamesStay /\ OwnersStay
<1> DEFINE last == scopes[Len(scopes)]
           grown == [m \in DOMAIN last \cup {n} |-> IF m = n THEN binding ELSE last[m]]
<1>1. Len(scopes) \in 1..Len(scopes)
  BY StateTyped
<1>2. \A i \in 1..Len(scopes) : scopes'[i] = IF i = Len(scopes) THEN grown ELSE scopes[i]
  BY <1>1, StateTyped DEF Define
<1>3. ASSUME NEW m \in DOMAIN last PROVE grown[m] = last[m]
  BY <1>3 DEF Current
<1> HIDE DEF grown
<1>4. \A j \in 1..Len(frames) : frames[j].depth < Len(scopes)
  BY StatementTop, DepthBelow, StateTyped
<1>5. \A j \in 1..Len(frames) : frames[j].depth \in Nat
  BY StateTyped, SequenceTypes
<1>6. NamesStay
  <2> SUFFICES ASSUME NEW i \in 1..Len(scopes), NEW j \in 1..Len(frames), i <= frames[j].depth
               PROVE  DOMAIN scopes'[i] = DOMAIN scopes[i]
    BY DEF NamesStay
  <2>1. i # Len(scopes)
    BY <1>1, <1>4, <1>5
  <2> QED
    BY <1>2, <2>1
<1>7. OwnersStay
  BY <1>2, <1>3 DEF OwnersStay
<1> QED
  BY <1>6, <1>7

\* One binding gets a new value: it owns no loan.
LEMMA AssignedStays ==
  ASSUME IInv, NEW n, Bound(n), NEW value, scopes' = Assigned(n, value), active' = active,
         \A k \in 1..Len(active) : NotOf(active, k, BindingScope(n), n)
  PROVE  NamesStay /\ OwnersStay
<1> DEFINE b == BindingScope(n)
           new == [scopes[b][n] EXCEPT !.val = value]
           changed == [scopes[b] EXCEPT ![n] = new]
<1>1. scopes' = [scopes EXCEPT ![b] = changed]
  BY DEF Assigned
<1>2. \A i \in 1..Len(scopes) : scopes'[i] = IF i = b THEN changed ELSE scopes[i]
  BY <1>1, StateTyped
<1>3. DOMAIN changed = DOMAIN scopes[b] /\ \A m \in DOMAIN scopes[b] : m # n => changed[m] = scopes[b][m]
  OBVIOUS
<1> HIDE DEF changed, b
<1>4. NamesStay
  BY <1>2, <1>3 DEF NamesStay
<1>5. ASSUME NEW i \in 1..Len(scopes), NEW m \in DOMAIN scopes[i]
      PROVE  \/ scopes'[i][m].val = scopes[i][m].val
             \/ \A k \in 1..Len(active) : NotOf(active, k, i, m)
  <2>1. CASE i # b
    BY <1>2, <2>1
  <2>2. CASE i = b /\ m # n
    BY <1>2, <1>3, <2>2
  <2>3. CASE i = b /\ m = n
    BY <2>3 DEF b
  <2> QED
    BY <2>1, <2>2, <2>3
<1>6. OwnersStay
  BY <1>5 DEF OwnersStay
<1> QED
  BY <1>4, <1>6

\* A name bound to something that no loan covers owns no loan.
LEMMA UncoveredOwnsNothing ==
  ASSUME OInv, NEW n,
         ~\E i \in DOMAIN active : \E l \in active[i].locations : l.identity = Lookup(n).val
  PROVE  \A k \in 1..Len(active) : NotOf(active, k, BindingScope(n), n)
<1> SUFFICES ASSUME NEW k \in 1..Len(active), active[k].scope # NoScope,
                    active[k].home = BindingScope(n), active[k].owner = n
             PROVE  FALSE
  BY DEF NotOf
<1>1. \E l \in active[k].locations : l.identity = Lookup(n).val
  BY DEF OInv, LoansPinned, PinnedTo, Lookup
<1>2. k \in DOMAIN active
  BY StateTyped DEF OInv
<1> QED
  BY <1>1, <1>2

LEMMA ReassignStays ==
  ASSUME OInv, NEW value, FinishReassign(value)
  PROVE  NamesStay /\ OwnersStay
<1> DEFINE n == Top.name
           last == Len(frames)
<1>1. /\ Evaluating /\ Top.op = "reassign" /\ Bound(n)
      /\ scopes' = Assigned(n, value) /\ active' = active
  BY DEF FinishReassign
<1>2. last \in 1..last /\ Top = frames[last]
  BY <1>1, StateTyped DEF OInv, Evaluating, Top
<1>3. Unlent(scopes, Top)
  BY <1>1, <1>2 DEF OInv, AssignsUnlent
<1>4. Top.depth = Len(scopes) /\ Top.checkpoint = Len(active)
  BY <1>1, EvalHoldsNothing DEF OInv
<1>5. Highest({i \in 1..Top.depth : n \in DOMAIN scopes[i]}) = BindingScope(n)
  BY <1>4 DEF BindingScope, Visible
<1>6. LoansKept(active, frames, last)
  BY <1>2, StateTyped DEF OInv, Nested
<1>7. Len(Top.loans) = Len(active) /\ \A k \in 1..Len(active) : Top.loans[k] = active[k]
  BY <1>2, <1>4, <1>6 DEF LoansKept
<1>8. \A k \in 1..Len(active) : NotOf(active, k, BindingScope(n), n)
  BY <1>3, <1>5, <1>7 DEF Unlent, NotOf
<1> QED
  BY <1>1, <1>8, AssignedStays DEF OInv

\* Where a reference to a slot is written through, its name is bound to the
\* slot's value, a scalar.
ScalarSlots == \A n \in Name : Bound(n) /\ WritableLoans(n) # {} => Lookup(n).val \notin Object

LEMMA WriteThroughStays ==
  ASSUME OInv, ScalarSlots, NEW value, FinishWriteThrough(value)
  PROVE  NamesStay /\ OwnersStay
<1> DEFINE n == Top.name
<1>1. Bound(n) /\ WritableLoans(n) # {} /\ scopes' = Assigned(n, value) /\ active' = active
  BY DEF FinishWriteThrough
<1>2. Lookup(n).val \notin Object
  BY <1>1, LookupTyped DEF ScalarSlots, OInv, IInv, WellTyped
<1>3. ASSUME NEW i \in DOMAIN active, NEW l \in active[i].locations PROVE l.identity \in Object
  <2>1. active[i] \in Loan
    BY StateTyped DEF OInv
  <2> QED
    BY <1>3, <2>1, ValuesAssumption DEF Loan, Location
<1>4. \A k \in 1..Len(active) : NotOf(active, k, BindingScope(n), n)
  BY <1>2, <1>3, UncoveredOwnsNothing
<1> QED
  BY <1>1, <1>4, AssignedStays DEF OInv

LEMMA DestructureStays ==
  ASSUME OInv, NEW values, DestructureReassign(values)
  PROVE  NamesStay /\ OwnersStay
<1> DEFINE changed(i, n) == [scopes[i][n] EXCEPT !.val = values[n]]
<1>1. /\ active' = active /\ \A n \in DOMAIN values : ReassignmentAllowed(n)
      /\ scopes' = [i \in DOMAIN scopes |->
                     [n \in DOMAIN scopes[i] |->
                        IF n \in DOMAIN values /\ i = BindingScope(n)
                        THEN changed(i, n) ELSE scopes[i][n]]]
  BY DEF DestructureReassign
<1> HIDE DEF changed
<1>2. \A i \in 1..Len(scopes) :
        scopes'[i] = [n \in DOMAIN scopes[i] |->
                        IF n \in DOMAIN values /\ i = BindingScope(n)
                        THEN changed(i, n) ELSE scopes[i][n]]
  BY <1>1, StateTyped DEF OInv
<1>3. NamesStay
  BY <1>2 DEF NamesStay
<1>4. ASSUME NEW i \in 1..Len(scopes), NEW n \in DOMAIN scopes[i]
      PROVE  \/ scopes'[i][n].val = scopes[i][n].val
             \/ \A k \in 1..Len(active) : NotOf(active, k, i, n)
  <2>1. CASE n \in DOMAIN values /\ i = BindingScope(n)
    BY <1>1, <2>1, UncoveredOwnsNothing DEF ReassignmentAllowed
  <2>2. CASE ~(n \in DOMAIN values /\ i = BindingScope(n))
    <3>1. scopes'[i][n] = scopes[i][n]
      BY <1>2, <2>2
    <3> QED
      BY <3>1
  <2> QED
    BY <2>1, <2>2
<1>5. OwnersStay
  BY <1>1, <1>4 DEF OwnersStay
<1> QED
  BY <1>3, <1>5

LEMMA AgreeSame == ASSUME scopes' = scopes PROVE Agree(scopes, scopes')
BY DEF Agree

LEMMA PushScope ==
  ASSUME IInv, IInv', NEW scope, scopes' = Append(scopes, scope)
  PROVE  Agree(scopes, scopes')
<1>1. scope \in Scope
  BY AfterTyped, AppendedTyped, StateTyped
<1>2. Agree(scopes, scopes)
  BY DEF Agree
<1> QED
  BY <1>1, <1>2, AppendAgree, StateTyped

LEMMA EnterBodyAgree ==
  ASSUME IInv, IInv', EnterBody
  PROVE  Agree(scopes, scopes')
<1> DEFINE captured == Captures(Top.function)
           first == [n \in DOMAIN captured |-> Plain(captured[n], FALSE)]
           outer == IF DOMAIN captured = {} THEN scopes ELSE Append(scopes, first)
<1>1. \E inner : scopes' = Append(outer, inner)
  BY DEF EnterBody
<1>2. PICK inner : scopes' = Append(outer, inner)
  BY <1>1
<1> HIDE DEF first
<1>3. CASE DOMAIN captured = {}
  BY <1>2, <1>3, PushScope
<1>4. CASE DOMAIN captured # {}
  <2>1. frames # <<>> /\ Top.kind = "bind"
    BY DEF EnterBody
  <2>2. Top.function \in Function
    BY <2>1, TopTyped DEF IInv, FrameOK
  <2>3. first \in Scope
    <3>1. DOMAIN captured \subseteq Name /\ \A n \in DOMAIN captured : captured[n] \in Value
      BY <2>2, SignatureAssumption DEF Captures
    <3>2. \A n \in DOMAIN captured : Plain(captured[n], FALSE) \in Binding
      BY <3>1 DEF Plain, Binding
    <3> HIDE DEF captured
    <3>3. first \in [DOMAIN captured -> Binding]
      BY <3>2 DEF first
    <3> QED
      BY <3>1, <3>3 DEF Scope
  <2>4. Agree(scopes, scopes) /\ Len(scopes) >= Len(scopes)
    BY StateTyped DEF Agree
  <2>5. outer \in Seq(Scope) /\ Agree(scopes, outer) /\ Len(outer) >= Len(scopes)
    BY <1>4, <2>3, <2>4, AppendAgree, StateTyped
  <2> HIDE DEF outer
  <2>6. inner \in Scope
    BY <1>2, <2>5, AfterTyped, AppendedTyped
  <2> QED
    BY <1>2, <2>5, <2>6, AppendAgree, StateTyped
<1> QED
  BY <1>3, <1>4

\* What a step does to the scopes: it opens or closes some, declares a name
\* in the innermost one, or assigns.
Declares ==
  InStatement /\ \E n, binding :
    n \notin DOMAIN scopes[Current] /\ scopes' = Define(scopes, n, binding)
Assigns ==
  \/ \E value : FinishReassign(value) \/ FinishWriteThrough(value)
  \/ \E values : DestructureReassign(values)

LEMMA NextScopes ==
  ASSUME OInv, IInv', [Next]_vars
  PROVE  Agree(scopes, scopes') \/ Declares \/ Assigns
<1>1. frames # <<>> => Top.kind # "each" /\ Top.op \notin {"ref", "mut ref"}
  <2>1. frames # <<>> => Len(frames) \in 1..Len(frames)
    BY StateTyped DEF OInv
  <2> QED
    BY <2>1 DEF OInv, PlainFrames, Top
<1>2. CASE EnterBlock
  BY <1>2, PushScope DEF EnterBlock, Pushed, OInv
<1>3. CASE Leave
  <2>1. frames # <<>> /\ scopes' = SubSeq(scopes, 1, Top.depth)
    BY <1>3 DEF Leave, PoppedScopes
  <2>2. Top.depth \in 0..Len(scopes)
    BY <2>1, RetainedIsPrefix, StateTyped DEF OInv
  <2>3. Len(scopes') = Top.depth /\ \A i \in 1..Top.depth : scopes'[i] = scopes[i]
    BY <2>1, <2>2, PrefixIs, StateTyped DEF OInv
  <2> QED
    BY <2>2, <2>3 DEF Agree
<1>4. ASSUME NEW n, NEW mutable, NEW value, Declare(n, mutable, value)
      PROVE  Declares
  BY <1>4 DEF Declare, Declares
<1>5. CASE References
  <2>1. ASSUME NEW n, NEW mutable, NEW owner, NEW chain, Borrow(n, mutable, owner, chain)
        PROVE  scopes' = scopes \/ Declares
    BY <2>1 DEF Borrow, MakeReference, Declares
  <2>2. ~\E chain : FinishBorrow(chain)
    BY <1>1 DEF FinishBorrow, Evaluating
  <2> QED
    BY <1>5, <2>1, <2>2, AgreeSame DEF References, BeginBorrow, ReadSegment
<1>6. CASE Writes
  BY <1>6, AgreeSame DEF Writes, BeginReassign, BeginWriteThrough, BeginMutation, BeginEval,
     FinishSetIndex, FinishInsert, FinishAdd, FinishRemove, FinishMutation, Assigns
<1>7. CASE Calls
  <2>1. EnterBody \/ scopes' = scopes
    BY <1>7 DEF Calls, Call, Dispatch, BeginCall, BindValueParameter, BindReferenceParameter,
         RejectReferenceParameter
  <2> QED
    BY <2>1, AgreeSame, EnterBodyAgree DEF OInv
<1>8. CASE Loops
  <2>1. (\E scope : scopes' = Append(scopes, scope)) \/ NextItem
    BY <1>8 DEF Loops, BeginForRef, Pushed, BeginMatchRef, BeginFor, NextReferenceItem
  <2>2. ~NextItem
    BY <1>1 DEF NextItem
  <2> QED
    BY <2>1, <2>2, PushScope DEF OInv
<1>9. CASE UNCHANGED vars
  BY <1>9, AgreeSame DEF vars
<1> QED
  BY <1>2, <1>3, <1>4, <1>5, <1>6, <1>7, <1>8, <1>9 DEF Next

LEMMA NextStays ==
  ASSUME OInv, IInv', ScalarSlots, [Next]_vars
  PROVE  NamesStay /\ OwnersStay
<1>1. CASE Agree(scopes, scopes')
  BY <1>1, AgreeStay
<1>2. CASE Declares
  BY <1>2, DefineStays DEF Declares, OInv
<1>3. CASE Assigns
  BY <1>3, ReassignStays, WriteThroughStays, DestructureStays DEF Assigns
<1> QED
  BY <1>1, <1>2, <1>3, NextScopes

\* Programs without the two steps that rebind or borrow without the test of an
\* assignment: a loop by value, and a reference whose path has calls in it.
NoRebinding == Construct \cap {"for", "borrow_call"} = {}

LEMMA StepOInv ==
  ASSUME NoRebinding, OInv, ScalarSlots, [Next]_vars
  PROVE  OInv'
<1>1. IInv' /\ FramesStep /\ LoansStep
  BY StepInv, NextFrames, NextLoans DEF OInv
<1>2. OAfter
  BY <1>1, NextStays, KeepPinned
<1>3. PlainFrames'
  <2> SUFFICES ASSUME NEW j \in 1..Len(frames')
               PROVE  frames'[j].kind # "each" /\ frames'[j].op \notin {"ref", "mut ref"}
    BY DEF PlainFrames
  <2>1. CASE Stays(frames, frames', j)
    BY <2>1 DEF Stays, OInv, PlainFrames
  <2>2. CASE Begins(frames'[j])
    BY <2>2 DEF Begins, NoRebinding
  <2> QED
    BY <1>1, <2>1, <2>2 DEF FramesStep
<1> QED
  BY <1>1, <1>2, <1>3 DEF OInv, OAfter

LEMMA InitOInv == Init => OInv
<1> SUFFICES ASSUME Init PROVE OInv
  OBVIOUS
<1>1. Len(frames) = 0 /\ Len(active) = 0
  BY DEF Init
<1>2. LoansPinned
  BY <1>1 DEF LoansPinned
<1>3. AssignsUnlent /\ PlainFrames
  BY <1>1 DEF AssignsUnlent, PlainFrames
<1> QED
  BY <1>2, <1>3, InitInv DEF OInv

LEMMA PinnedOwners == OInv => OwnerPinned
<1>1. OInv => DOMAIN active = 1..Len(active)
  BY StateTyped DEF OInv
<1> QED
  BY <1>1 DEF OInv, LoansPinned, PinnedTo, OwnerPinned

\* In programs whose slots are read and written as scalars, the owner of a
\* local loan stays bound to the object that was lent (OwnerPinned): neither a
\* half-evaluated assignment nor a destructuring nor a write through an alias
\* redirects it.
THEOREM OwnersPinned == NoRebinding => (Spec /\ []ScalarSlots => []OwnerPinned)
<1> SUFFICES ASSUME NoRebinding PROVE Spec /\ []ScalarSlots => []OwnerPinned
  OBVIOUS
<1>1. Init => OInv
  BY InitOInv
<1>2. OInv /\ ScalarSlots /\ [Next]_vars => OInv'
  BY StepOInv
<1>3. OInv => OwnerPinned
  BY PinnedOwners
<1> QED
  BY <1>1, <1>2, <1>3, PTL DEF Spec

-----------------------------------------------------------------------------
(* Slots stay scalar where no name is hidden by another.                     *)

\* No name of an open scope is hidden by one of another.
NoShadowing ==
  \A i, j \in DOMAIN scopes : DOMAIN scopes[i] \cap DOMAIN scopes[j] # {} => i = j

\* Programs from a file, without struct instances.
FlatPrograms ==
  /\ NoRebinding /\ "repl" \notin Construct /\ Struct = {}
  /\ \A v \in Scalar, w \in Object : SortOf[v] # SortOf[w]

\* The name of a local reference to a slot is bound to a scalar.
ScalarAt(sc, i, n) == n \in DOMAIN sc[i] /\ sc[i][n].val \notin Object
SlotsScalar ==
  \A k \in 1..Len(active) :
    (active[k].scope # NoScope /\ active[k].path # <<>>) =>
      ScalarAt(scopes, active[k].scope, active[k].parameter)
UInv == OInv /\ SlotsScalar

ScalarsStay ==
  \A i \in 1..Len(scopes) : i <= Len(scopes') =>
    \A n \in DOMAIN scopes[i] : ScalarAt(scopes, i, n) => ScalarAt(scopes', i, n)

LEMMA UnshadowedSlots ==
  ASSUME UInv, NoShadowing
  PROVE  ScalarSlots
<1> SUFFICES ASSUME NEW n \in Name, Bound(n), WritableLoans(n) # {}
             PROVE  Lookup(n).val \notin Object
  BY DEF ScalarSlots
<1>1. PICK k \in DOMAIN active : /\ active[k].parameter = n
                                /\ active[k].scope # NoScope /\ active[k].path # <<>>
  BY DEF WritableLoans
<1>2. k \in 1..Len(active)
  BY StateTyped DEF UInv, OInv
<1>3. ScalarAt(scopes, active[k].scope, n)
  BY <1>1, <1>2 DEF UInv, SlotsScalar
<1>4. active[k].scope \in 1..Len(scopes)
  <2>1. LoanHeld(scopes, active, frames, k)
    BY <1>2, StateTyped DEF UInv, OInv, Nested
  <2>2. active[k].scope \in Nat /\ Len(scopes) \in Nat
    BY <1>2, StateTyped, SequenceTypes DEF UInv, OInv
  <2> QED
    BY <1>1, <2>1, <2>2 DEF LoanHeld, NoScope
<1>5. BindingScope(n) \in 1..Len(scopes) /\ n \in DOMAIN scopes[BindingScope(n)]
  BY LookupTyped DEF UInv, OInv, IInv, WellTyped
<1>6. BindingScope(n) = active[k].scope
  <2>1. DOMAIN scopes = 1..Len(scopes)
    BY StateTyped DEF UInv, OInv
  <2> QED
    BY <1>3, <1>4, <1>5, <2>1 DEF NoShadowing, ScalarAt
<1> QED
  BY <1>3, <1>6 DEF ScalarAt, Lookup

LEMMA SameSortScalar ==
  ASSUME FlatPrograms, NEW v \in Value, NEW w \in Value, SameSort(v, w), w \notin Object
  PROVE  v \notin Object
BY DEF FlatPrograms, SameSort, Value

LEMMA AgreeScalars ==
  ASSUME Agree(scopes, scopes')
  PROVE  ScalarsStay
BY DEF Agree, ScalarsStay, ScalarAt

LEMMA DefinedAt ==
  ASSUME IInv, NEW n, NEW binding, scopes' = Define(scopes, n, binding)
  PROVE  n \in DOMAIN scopes'[Len(scopes)] /\ scopes'[Len(scopes)][n] = binding
<1> DEFINE last == scopes[Len(scopes)]
           grown == [m \in DOMAIN last \cup {n} |-> IF m = n THEN binding ELSE last[m]]
<1>1. Len(scopes) \in 1..Len(scopes)
  BY StateTyped
<1>2. \A i \in 1..Len(scopes) : scopes'[i] = IF i = Len(scopes) THEN grown ELSE scopes[i]
  BY <1>1, StateTyped DEF Define
<1>3. n \in DOMAIN grown /\ grown[n] = binding
  OBVIOUS
<1> HIDE DEF grown
<1> QED
  BY <1>1, <1>2, <1>3

LEMMA DefineScalars ==
  ASSUME IInv, NEW n, n \notin DOMAIN scopes[Current], NEW binding,
         scopes' = Define(scopes, n, binding)
  PROVE  ScalarsStay
<1> DEFINE last == scopes[Len(scopes)]
           grown == [m \in DOMAIN last \cup {n} |-> IF m = n THEN binding ELSE last[m]]
<1>1. Len(scopes) \in 1..Len(scopes)
  BY StateTyped
<1>2. \A i \in 1..Len(scopes) : scopes'[i] = IF i = Len(scopes) THEN grown ELSE scopes[i]
  BY <1>1, StateTyped DEF Define
<1>3. \A m \in DOMAIN last : m \in DOMAIN grown /\ grown[m] = last[m]
  BY DEF Current
<1> HIDE DEF grown
<1> QED
  BY <1>1, <1>2, <1>3 DEF ScalarsStay, ScalarAt

LEMMA AssignedScalars ==
  ASSUME FlatPrograms, IInv, NEW n, Bound(n), NEW value \in Readable, SameSort(value, Lookup(n).val),
         scopes' = Assigned(n, value)
  PROVE  ScalarsStay
<1> DEFINE b == BindingScope(n)
           new == [scopes[b][n] EXCEPT !.val = value]
           changed == [scopes[b] EXCEPT ![n] = new]
<1>1. scopes' = [scopes EXCEPT ![b] = changed]
  BY DEF Assigned
<1>2. \A i \in 1..Len(scopes) : scopes'[i] = IF i = b THEN changed ELSE scopes[i]
  BY <1>1, StateTyped
<1>3. /\ DOMAIN changed = DOMAIN scopes[b]
      /\ \A m \in DOMAIN scopes[b] : changed[m] = IF m = n THEN new ELSE scopes[b][m]
  OBVIOUS
<1>4. scopes[b][n] = Lookup(n) /\ Lookup(n) \in Binding /\ Lookup(n).val \in Value /\ value \in Value
  BY LookupTyped, ReadableTyped DEF Lookup, IInv, WellTyped
<1>5. new.val = value
  BY <1>4 DEF Binding
<1>6. Lookup(n).val \notin Object => value \notin Object
  BY <1>4, SameSortScalar
<1> HIDE DEF changed, b, new
<1>7. ASSUME NEW i \in 1..Len(scopes), NEW m \in DOMAIN scopes[i], ScalarAt(scopes, i, m)
      PROVE  ScalarAt(scopes', i, m)
  <2>1. CASE i # b
    BY <1>2, <1>7, <2>1 DEF ScalarAt
  <2>2. CASE i = b /\ m # n
    BY <1>2, <1>3, <1>7, <2>2 DEF ScalarAt
  <2>3. CASE i = b /\ m = n
    BY <1>2, <1>3, <1>4, <1>5, <1>6, <1>7, <2>3 DEF ScalarAt
  <2> QED
    BY <2>1, <2>2, <2>3
<1> QED
  BY <1>7 DEF ScalarsStay

LEMMA DestructureScalars ==
  ASSUME FlatPrograms, IInv, NEW values, DestructureReassign(values)
  PROVE  ScalarsStay
<1> DEFINE changed(i, n) == [scopes[i][n] EXCEPT !.val = values[n]]
<1>1. /\ \A n \in DOMAIN values : values[n] \in Readable /\ SameSort(values[n], Lookup(n).val) /\ Bound(n)
      /\ scopes' = [i \in DOMAIN scopes |->
                     [n \in DOMAIN scopes[i] |->
                        IF n \in DOMAIN values /\ i = BindingScope(n)
                        THEN changed(i, n) ELSE scopes[i][n]]]
  BY DEF DestructureReassign, IsMutable
<1>2. ASSUME NEW i \in 1..Len(scopes), NEW n \in DOMAIN scopes[i],
             n \in DOMAIN values, i = BindingScope(n), scopes[i][n].val \notin Object
      PROVE  changed(i, n).val \notin Object
  <2>1. /\ scopes[i][n] = Lookup(n) /\ Lookup(n) \in Binding /\ Lookup(n).val \in Value
        /\ values[n] \in Value
    BY <1>1, <1>2, LookupTyped, ReadableTyped DEF Lookup, IInv, WellTyped
  <2>2. changed(i, n).val = values[n]
    BY <2>1 DEF Binding
  <2> QED
    BY <1>1, <1>2, <2>1, <2>2, SameSortScalar
<1> HIDE DEF changed
<1>3. \A i \in 1..Len(scopes) :
        scopes'[i] = [n \in DOMAIN scopes[i] |->
                        IF n \in DOMAIN values /\ i = BindingScope(n)
                        THEN changed(i, n) ELSE scopes[i][n]]
  BY <1>1, StateTyped
<1>4. ASSUME NEW i \in 1..Len(scopes), NEW n \in DOMAIN scopes[i], ScalarAt(scopes, i, n)
      PROVE  ScalarAt(scopes', i, n)
  <2>1. CASE n \in DOMAIN values /\ i = BindingScope(n)
    <3>1. n \in DOMAIN scopes'[i] /\ scopes'[i][n] = changed(i, n)
      BY <1>3, <2>1
    <3> QED
      BY <1>2, <1>4, <2>1, <3>1 DEF ScalarAt
  <2>2. CASE ~(n \in DOMAIN values /\ i = BindingScope(n))
    <3>1. n \in DOMAIN scopes'[i] /\ scopes'[i][n] = scopes[i][n]
      BY <1>3, <2>2
    <3> QED
      BY <1>4, <3>1 DEF ScalarAt
  <2> QED
    BY <2>1, <2>2
<1> QED
  BY <1>4 DEF ScalarsStay

LEMMA NextScalars ==
  ASSUME FlatPrograms, OInv, IInv', [Next]_vars
  PROVE  ScalarsStay
<1>1. CASE Agree(scopes, scopes')
  BY <1>1, AgreeScalars
<1>2. CASE Declares
  BY <1>2, DefineScalars DEF Declares, OInv
<1>3. ASSUME NEW value, FinishReassign(value) \/ FinishWriteThrough(value)
      PROVE  ScalarsStay
  <2>1. /\ value \in Readable /\ Bound(Top.name) /\ SameSort(value, Lookup(Top.name).val)
        /\ scopes' = Assigned(Top.name, value)
    BY <1>3 DEF FinishReassign, FinishWriteThrough
  <2> QED
    BY <2>1, AssignedScalars DEF OInv
<1>4. ASSUME NEW values, DestructureReassign(values)
      PROVE  ScalarsStay
  BY <1>4, DestructureScalars DEF OInv
<1> QED
  BY <1>1, <1>2, <1>3, <1>4, NextScopes DEF Assigns

\* A loan of a slot comes with a name for its value.
LEMMA LoansScalar ==
  ASSUME FlatPrograms, UInv, IInv', LoansStep, ScalarsStay
  PROVE  SlotsScalar'
<1> SUFFICES ASSUME NEW k \in 1..Len(active'), active'[k].scope # NoScope, active'[k].path # <<>>
             PROVE  ScalarAt(scopes', active'[k].scope, active'[k].parameter)
  BY DEF SlotsScalar
<1> DEFINE i == active'[k].scope
           n == active'[k].parameter
<1>1. CASE Stayed(k)
  <2>1. k \in 1..Len(active) /\ active'[k] = active[k]
    BY <1>1 DEF Stayed
  <2>2. ScalarAt(scopes, i, n)
    BY <2>1 DEF UInv, SlotsScalar
  <2>3. i \in 1..Len(scopes) /\ i <= Len(scopes')
    <3>1. LoanHeld(scopes, active, frames, k) /\ LoanHeld(scopes', active', frames', k)
      BY <2>1, StateTyped DEF UInv, OInv, IInv, Nested
    <3>2. active[k].scope \in Nat /\ Len(scopes) \in Nat
      BY <2>1, StateTyped, SequenceTypes DEF UInv, OInv
    <3> QED
      BY <2>1, <3>1, <3>2 DEF LoanHeld, NoScope
  <2> QED
    BY <2>2, <2>3 DEF ScalarsStay, ScalarAt
<1>2. CASE ByChain(active'[k])
  <2>1. PICK value, chain, tip :
          /\ chain \in Chains(value) /\ Borrowable(chain, tip)
          /\ active'[k].path = PathFrom(chain, 1) /\ i = Len(scopes)
          /\ \E mutable : scopes' = Define(scopes, n, Reference(tip, mutable))
    BY <1>2 DEF ByChain, FlatPrograms
  <2>2. tip \notin Object
    <3>1. chain # <<>>
      BY <2>1 DEF PathFrom
    <3>2. PICK m \in 0..MaxPath : chain \in [1..m -> Links]
      BY <2>1 DEF Chains
    <3> QED
      BY <2>1, <3>1, ValuesAssumption DEF Borrowable, FlatPrograms
  <2>3. PICK mutable : scopes' = Define(scopes, n, Reference(tip, mutable))
    BY <2>1
  <2> DEFINE binding == Reference(tip, mutable)
  <2>4. binding.val \notin Object
    BY <2>2 DEF Reference
  <2> HIDE DEF binding
  <2>5. n \in DOMAIN scopes'[i] /\ scopes'[i][n] = binding
    BY <2>1, <2>3, DefinedAt DEF UInv, OInv, binding
  <2> QED
    BY <2>4, <2>5 DEF ScalarAt
<1>3. CASE ByScan(active'[k]) \/ ByParameter(active'[k])
  BY <1>3 DEF ByScan, ByParameter
<1> QED
  BY <1>1, <1>2, <1>3 DEF LoansStep

LEMMA StepUInv ==
  ASSUME FlatPrograms, UInv, NoShadowing, [Next]_vars
  PROVE  UInv'
<1>1. OInv'
  BY UnshadowedSlots, StepOInv DEF FlatPrograms, UInv
<1>2. IInv' /\ LoansStep /\ ScalarsStay
  BY <1>1, NextLoans, NextScalars DEF OInv, UInv
<1>3. SlotsScalar'
  BY <1>2, LoansScalar
<1> QED
  BY <1>1, <1>3 DEF UInv

\* In programs from a file that have no struct instances and hide no name,
\* whatever their calls and blocks, owners stay bound to what they lent.
THEOREM UnshadowedOwnersPinned == FlatPrograms => (Spec /\ []NoShadowing => []OwnerPinned)
<1> SUFFICES ASSUME FlatPrograms PROVE Spec /\ []NoShadowing => []OwnerPinned
  OBVIOUS
<1>1. Init => UInv
  <2>1. Init => Len(active) = 0
    BY DEF Init
  <2> QED
    BY <2>1, InitOInv DEF UInv, SlotsScalar
<1>2. UInv /\ NoShadowing /\ [Next]_vars => UInv'
  BY StepUInv
<1>3. UInv => OwnerPinned
  BY PinnedOwners DEF UInv
<1> QED
  BY <1>1, <1>2, <1>3, PTL DEF Spec
=============================================================================
