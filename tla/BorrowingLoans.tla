---------------------------- MODULE BorrowingLoans ----------------------------
(* Proofs that loans are a stack: the constructs of a program nest, and each  *)
(* loan ends with the scope or the call that holds it.  The inductive         *)
(* invariant is stated of a state's scopes, loans and constructs as plain     *)
(* sequences, so that a step which does two things at once is two lemmas.     *)
EXTENDS BorrowingProofs

\* The number of scopes when the construct above frame k was opened, or now.
ScopesAbove(sc, fr, k) == IF k = Len(fr) THEN Len(sc) ELSE fr[k + 1].depth

\* Constructs nest: an inner one starts with the scopes and the loans of the
\* outer ones; only blocks, loops, matches and calls open scopes; parameters
\* are bound by the innermost construct alone, and a half-evaluated statement
\* belongs to a construct that runs statements.
Inert(frame) == frame.kind \in {"bind", "eval"}
FrameNests(sc, ac, fr, k) ==
  /\ fr[k].depth >= 1 /\ fr[k].depth <= Len(sc) /\ fr[k].checkpoint <= Len(ac)
  /\ fr[k].kind = "bind" => k = Len(fr)
  /\ Inert(fr[k]) => ScopesAbove(sc, fr, k) = fr[k].depth
  /\ ~Inert(fr[k]) => ScopesAbove(sc, fr, k) > fr[k].depth
  /\ k < Len(fr) => ~(fr[k + 1].kind = "eval" /\ Inert(fr[k]))
  /\ \A j \in 1..k : fr[j].depth <= fr[k].depth /\ fr[j].checkpoint <= fr[k].checkpoint

\* Loan i belongs to a call that is open and is not frame k or one below it.
HeldByCall(fr, k, i) ==
  \E j \in k..Len(fr) : fr[j].kind \in {"bind", "call"} /\ fr[j].checkpoint < i

\* A construct's checkpoint splits the loans: those made before it hang on
\* scopes below its own, those made since on its own scopes or on a call.
LoanSplit(ac, fr, k, i) ==
  /\ i <= fr[k].checkpoint => ac[i].scope <= fr[k].depth
  /\ i > fr[k].checkpoint =>
       ac[i].scope > fr[k].depth \/ (ac[i].scope = NoScope /\ HeldByCall(fr, k, i))

\* What a loan hangs on (the body of NoDanglingLoan).
LoanHeld(sc, ac, fr, i) ==
  /\ ac[i].scope <= Len(sc)
  /\ ac[i].scope # NoScope =>
       /\ ac[i].home >= 1 /\ ac[i].home <= ac[i].scope
       /\ ac[i].owner \in DOMAIN sc[ac[i].home]
  /\ ac[i].scope = NoScope => HeldByCall(fr, 1, i)

\* The loans below a construct's checkpoint are the ones it started with.
LoansKept(ac, fr, k) ==
  /\ Len(fr[k].loans) = fr[k].checkpoint
  /\ \A i \in 1..fr[k].checkpoint : ac[i] = fr[k].loans[i]

Nested(sc, ac, fr) ==
  /\ \A k \in 1..Len(fr) : FrameNests(sc, ac, fr, k) /\ LoansKept(ac, fr, k)
  /\ \A k \in 1..Len(fr), i \in 1..Len(ac) : LoanSplit(ac, fr, k, i)
  /\ \A i \in 1..Len(ac) : LoanHeld(sc, ac, fr, i)

TopOf(fr) == fr[Len(fr)]

\* The bindings of the scopes that stay are still there.
Grown(sc, later) ==
  /\ Len(later) >= Len(sc)
  /\ \A i \in 1..Len(sc) : DOMAIN sc[i] \subseteq DOMAIN later[i]

\* The constructs are the same up to what they have left to do.
SameShape(fr, later) ==
  /\ Len(later) = Len(fr)
  /\ \A k \in 1..Len(fr) :
       /\ later[k].kind = fr[k].kind /\ later[k].depth = fr[k].depth
       /\ later[k].checkpoint = fr[k].checkpoint /\ later[k].loans = fr[k].loans

-----------------------------------------------------------------------------
(* What each kind of change does to the nesting.                             *)

\* The numbers of the stacks are natural numbers.
LEMMA SequenceTypes ==
  ASSUME NEW sc \in Seq(Scope), NEW ac \in Seq(Loan), NEW fr \in Seq(Frame)
  PROVE  /\ Len(sc) \in Nat /\ Len(ac) \in Nat /\ Len(fr) \in Nat
         /\ \A i \in 1..Len(ac) : ac[i].scope \in Nat /\ ac[i].home \in Nat
         /\ \A k \in 1..Len(fr) : fr[k].depth \in Nat /\ fr[k].checkpoint \in Nat
<1>1. \A i \in 1..Len(ac) : ac[i] \in Loan
  OBVIOUS
<1>2. \A k \in 1..Len(fr) : fr[k] \in Frame
  OBVIOUS
<1>3. \A l \in Loan : l.scope \in Nat /\ l.home \in Nat
  BY DEF Loan
<1>4. \A f \in Frame : f.depth \in Nat /\ f.checkpoint \in Nat
  BY DEF Frame
<1> QED
  BY <1>1, <1>2, <1>3, <1>4

\* The first m elements of a sequence.
LEMMA PrefixIs ==
  ASSUME NEW S, NEW s \in Seq(S), NEW m \in 0..Len(s)
  PROVE  /\ SubSeq(s, 1, m) \in Seq(S) /\ Len(SubSeq(s, 1, m)) = m
         /\ \A i \in 1..m : SubSeq(s, 1, m)[i] = s[i]
<1>1. Len(s) \in Nat /\ m \in (1 - 1)..Len(s) /\ 1 \in 1..(Len(s) + 1)
  OBVIOUS
<1> QED
  BY <1>1, SubSeqProperties

\* Bindings are added or assigned, and constructs go on.
LEMMA GrowNested ==
  ASSUME NEW sc \in Seq(Scope), NEW ac \in Seq(Loan), NEW fr \in Seq(Frame),
         Nested(sc, ac, fr),
         NEW sc2 \in Seq(Scope), Grown(sc, sc2), Len(sc2) = Len(sc),
         NEW fr2 \in Seq(Frame), SameShape(fr, fr2)
  PROVE  Nested(sc2, ac, fr2)
<1>1. /\ Len(sc) \in Nat /\ Len(ac) \in Nat /\ Len(fr) \in Nat
      /\ \A i \in 1..Len(ac) : ac[i].scope \in Nat /\ ac[i].home \in Nat
      /\ \A k \in 1..Len(fr) : fr[k].depth \in Nat /\ fr[k].checkpoint \in Nat
  BY SequenceTypes
<1>2. /\ Len(fr2) = Len(fr)
      /\ \A k \in 1..Len(fr) :
           /\ fr2[k].kind = fr[k].kind /\ fr2[k].depth = fr[k].depth
           /\ fr2[k].checkpoint = fr[k].checkpoint /\ fr2[k].loans = fr[k].loans
  BY DEF SameShape
<1>3. ASSUME NEW k \in 1..Len(fr) PROVE FrameNests(sc2, ac, fr2, k)
  <2>1. FrameNests(sc, ac, fr, k)
    BY DEF Nested
  <2>2. ScopesAbove(sc2, fr2, k) = ScopesAbove(sc, fr, k)
    BY <1>1, <1>2 DEF ScopesAbove
  <2>3. k < Len(fr) => k + 1 \in 1..Len(fr)
    BY <1>1
  <2>4. \A j \in 1..k : j \in 1..Len(fr)
    BY <1>1
  <2> QED
    BY <1>1, <1>2, <2>1, <2>2, <2>3, <2>4 DEF FrameNests, Inert
<1>4. ASSUME NEW k \in 1..Len(fr), NEW i PROVE HeldByCall(fr2, k, i) <=> HeldByCall(fr, k, i)
  <2>1. \A j \in k..Len(fr) : j \in 1..Len(fr)
    BY <1>1
  <2> QED
    BY <1>2, <2>1 DEF HeldByCall
<1>5. ASSUME NEW k \in 1..Len(fr), NEW i \in 1..Len(ac) PROVE LoanSplit(ac, fr2, k, i)
  <2>1. LoanSplit(ac, fr, k, i)
    BY DEF Nested
  <2> QED
    BY <1>2, <1>4, <2>1 DEF LoanSplit
<1>6. ASSUME NEW i \in 1..Len(ac) PROVE LoanHeld(sc2, ac, fr2, i)
  <2>1. LoanHeld(sc, ac, fr, i)
    BY DEF Nested
  <2>2. HeldByCall(fr, 1, i) => HeldByCall(fr2, 1, i)
    BY <1>1, <1>2 DEF HeldByCall
  <2>3. ac[i].scope # NoScope => ac[i].home \in 1..Len(sc)
    BY <1>1, <2>1 DEF LoanHeld
  <2> QED
    BY <2>1, <2>2, <2>3 DEF LoanHeld, Grown
<1>7. ASSUME NEW k \in 1..Len(fr) PROVE LoansKept(ac, fr2, k)
  <2>1. LoansKept(ac, fr, k)
    BY DEF Nested
  <2> QED
    BY <1>2, <2>1 DEF LoansKept
<1> QED
  BY <1>2, <1>3, <1>5, <1>6, <1>7 DEF Nested

\* The innermost construct ends: its scopes go, and the loans made in it.
LEMMA CloseNested ==
  ASSUME NEW sc \in Seq(Scope), NEW ac \in Seq(Loan), NEW fr \in Seq(Frame),
         Nested(sc, ac, fr), fr # <<>>
  PROVE  /\ TopOf(fr).depth \in 1..Len(sc) /\ TopOf(fr).checkpoint \in 0..Len(ac)
         /\ Nested(SubSeq(sc, 1, TopOf(fr).depth), SubSeq(ac, 1, TopOf(fr).checkpoint),
                   SubSeq(fr, 1, Len(fr) - 1))
<1> DEFINE n == Len(fr)
           d == fr[n].depth
           c == fr[n].checkpoint
           sc2 == SubSeq(sc, 1, d)
           ac2 == SubSeq(ac, 1, c)
           fr2 == SubSeq(fr, 1, n - 1)
<1>1. /\ Len(sc) \in Nat /\ Len(ac) \in Nat /\ n \in Nat /\ n > 0
      /\ \A i \in 1..Len(ac) : ac[i].scope \in Nat /\ ac[i].home \in Nat
      /\ \A k \in 1..n : fr[k].depth \in Nat /\ fr[k].checkpoint \in Nat
  BY SequenceTypes
<1>2. d \in 1..Len(sc) /\ c \in 0..Len(ac)
  <2>1. n \in 1..n /\ FrameNests(sc, ac, fr, n)
    BY <1>1 DEF Nested
  <2> QED
    BY <1>1, <2>1 DEF FrameNests
<1>3. Len(sc2) = d /\ \A i \in 1..d : sc2[i] = sc[i]
  <2>1. d \in 0..Len(sc)
    BY <1>1, <1>2
  <2> QED
    BY <2>1, PrefixIs
<1>4. Len(ac2) = c /\ \A i \in 1..c : ac2[i] = ac[i]
  BY <1>2, PrefixIs
<1>5. Len(fr2) = n - 1 /\ \A k \in 1..(n - 1) : fr2[k] = fr[k]
  <2>1. n - 1 \in 0..Len(fr)
    BY <1>1
  <2> QED
    BY <2>1, PrefixIs
<1>6. \A k \in 1..n : fr[k].depth <= d /\ fr[k].checkpoint <= c
  <2>1. FrameNests(sc, ac, fr, n)
    BY <1>1 DEF Nested
  <2> QED
    BY <2>1 DEF FrameNests
<1> HIDE DEF sc2, ac2, fr2
<1>7. ASSUME NEW k \in 1..(n - 1) PROVE FrameNests(sc2, ac2, fr2, k)
  <2>1. k \in 1..n /\ k + 1 \in 1..n /\ k # n
    BY <1>1
  <2>2. FrameNests(sc, ac, fr, k)
    BY <2>1 DEF Nested
  <2>3. fr2[k] = fr[k] /\ \A j \in 1..k : fr2[j] = fr[j]
    <3>1. \A j \in 1..k : j \in 1..(n - 1)
      BY <1>1
    <3> QED
      BY <1>5, <3>1
  <2>4. ScopesAbove(sc2, fr2, k) = ScopesAbove(sc, fr, k)
    <3>1. CASE k = n - 1
      <4>1. ScopesAbove(sc2, fr2, k) = d
        BY <1>3, <1>5, <3>1 DEF ScopesAbove
      <4>2. k + 1 = n
        BY <1>1, <3>1
      <4>3. ScopesAbove(sc, fr, k) = fr[k + 1].depth
        BY <2>1 DEF ScopesAbove
      <4> QED
        BY <4>1, <4>2, <4>3
    <3>2. CASE k # n - 1
      <4>1. k + 1 \in 1..(n - 1)
        BY <1>1, <3>2
      <4> QED
        BY <1>5, <2>1, <3>2, <4>1 DEF ScopesAbove
    <3> QED
      BY <3>1, <3>2
  <2>5. fr2[k].depth >= 1 /\ fr2[k].depth <= Len(sc2) /\ fr2[k].checkpoint <= Len(ac2)
    BY <1>3, <1>4, <1>6, <2>1, <2>2, <2>3 DEF FrameNests
  <2>6. fr2[k].kind # "bind"
    BY <2>1, <2>2, <2>3 DEF FrameNests
  <2>7. k < Len(fr2) => ~(fr2[k + 1].kind = "eval" /\ Inert(fr2[k]))
    <3>1. k < n - 1 => k < n /\ k + 1 \in 1..(n - 1)
      BY <1>1
    <3> QED
      BY <1>5, <2>2, <2>3, <3>1 DEF FrameNests
  <2> QED
    BY <2>2, <2>3, <2>4, <2>5, <2>6, <2>7 DEF FrameNests
<1>8. ASSUME NEW k \in 1..(n - 1), NEW i \in 1..c
      PROVE  HeldByCall(fr, k, i) => HeldByCall(fr2, k, i)
  <2> SUFFICES ASSUME NEW j \in k..n, fr[j].kind \in {"bind", "call"}, fr[j].checkpoint < i
               PROVE  HeldByCall(fr2, k, i)
    BY DEF HeldByCall
  <2>1. j # n
    BY <1>1, <1>2
  <2>2. j \in k..(n - 1) /\ j \in 1..(n - 1)
    BY <1>1, <2>1
  <2> QED
    BY <1>5, <2>2 DEF HeldByCall
<1>9. ASSUME NEW i \in 1..c
      PROVE  /\ i \in 1..Len(ac) /\ ac2[i] = ac[i]
             /\ ac[i].scope <= d
             /\ LoanHeld(sc, ac, fr, i)
  <2>1. i \in 1..Len(ac) /\ ac2[i] = ac[i]
    BY <1>1, <1>2, <1>4
  <2>2. n \in 1..n
    BY <1>1
  <2>3. LoanSplit(ac, fr, n, i) /\ LoanHeld(sc, ac, fr, i)
    BY <2>1, <2>2 DEF Nested
  <2>4. i <= c
    BY <1>1, <1>2
  <2> QED
    BY <2>1, <2>3, <2>4 DEF LoanSplit
<1>10. ASSUME NEW k \in 1..(n - 1), NEW i \in 1..c PROVE LoanSplit(ac2, fr2, k, i)
  <2>1. k \in 1..n /\ fr2[k] = fr[k]
    BY <1>1, <1>5
  <2>2. LoanSplit(ac, fr, k, i) /\ ac2[i] = ac[i]
    BY <1>9, <2>1 DEF Nested
  <2> QED
    BY <1>8, <2>1, <2>2 DEF LoanSplit
<1>11. ASSUME NEW i \in 1..c PROVE LoanHeld(sc2, ac2, fr2, i)
  <2>1. /\ i \in 1..Len(ac) /\ ac2[i] = ac[i] /\ ac[i].scope <= d
        /\ LoanHeld(sc, ac, fr, i)
    BY <1>9
  <2>2. ac[i].scope # NoScope => sc2[ac[i].home] = sc[ac[i].home]
    <3>1. ac[i].scope # NoScope => ac[i].home \in 1..d
      BY <1>1, <1>2, <2>1 DEF LoanHeld
    <3> QED
      BY <1>3, <3>1
  <2>3. ac[i].scope = NoScope => HeldByCall(fr2, 1, i)
    <3>1. ASSUME ac[i].scope = NoScope PROVE HeldByCall(fr2, 1, i)
      <4>1. PICK j \in 1..n : fr[j].kind \in {"bind", "call"} /\ fr[j].checkpoint < i
        BY <2>1, <3>1 DEF LoanHeld, HeldByCall
      <4>2. j # n
        BY <1>1, <1>2, <4>1
      <4>3. j \in 1..(n - 1)
        BY <1>1, <4>2
      <4> QED
        BY <1>5, <4>1, <4>3 DEF HeldByCall
    <3> QED
      BY <3>1
  <2> QED
    BY <1>3, <2>1, <2>2, <2>3 DEF LoanHeld
<1>12. ASSUME NEW k \in 1..(n - 1) PROVE LoansKept(ac2, fr2, k)
  <2>1. k \in 1..n /\ fr2[k] = fr[k]
    BY <1>1, <1>5
  <2>2. LoansKept(ac, fr, k)
    BY <2>1 DEF Nested
  <2>3. \A i \in 1..fr[k].checkpoint : i \in 1..c
    BY <1>1, <1>2, <1>6, <2>1
  <2> QED
    BY <1>4, <2>1, <2>2, <2>3 DEF LoansKept
<1>13. Nested(sc2, ac2, fr2)
  BY <1>4, <1>5, <1>7, <1>10, <1>11, <1>12 DEF Nested
<1> QED
  BY <1>2, <1>13 DEF sc2, ac2, fr2, TopOf

\* An index of an appended sequence that is not the last one was there before.
LEMMA NotLast ==
  ASSUME NEW m \in Nat, NEW i \in 1..(m + 1), i # m + 1
  PROVE  i \in 1..m
OBVIOUS

\* A loan of a local name is made in the innermost scope.
LEMMA LendNested ==
  ASSUME NEW sc \in Seq(Scope), NEW ac \in Seq(Loan), NEW fr \in Seq(Frame),
         Nested(sc, ac, fr), fr # <<>> => ~Inert(TopOf(fr)), sc # <<>>,
         NEW loan \in Loan, loan.scope = Len(sc),
         loan.home \in 1..Len(sc), loan.owner \in DOMAIN sc[loan.home]
  PROVE  Nested(sc, Append(ac, loan), fr)
<1> DEFINE n == Len(fr)
           m == Len(ac)
           ac2 == Append(ac, loan)
<1>1. /\ Len(sc) \in Nat /\ m \in Nat /\ n \in Nat /\ Len(sc) # 0
      /\ \A i \in 1..m : ac[i].scope \in Nat /\ ac[i].home \in Nat
      /\ \A k \in 1..n : fr[k].depth \in Nat /\ fr[k].checkpoint \in Nat
  BY SequenceTypes
<1>2. Len(ac2) = m + 1 /\ ac2[m + 1] = loan /\ \A i \in 1..m : ac2[i] = ac[i]
  BY AppendProperties
<1> HIDE DEF ac2
<1>3. ASSUME NEW k \in 1..n
      PROVE  FrameNests(sc, ac2, fr, k) /\ LoansKept(ac2, fr, k) /\ fr[k].checkpoint <= m
  <2>1. FrameNests(sc, ac, fr, k) /\ LoansKept(ac, fr, k)
    BY DEF Nested
  <2>2. fr[k].checkpoint <= m /\ fr[k].checkpoint \in Nat
    BY <1>1, <2>1 DEF FrameNests
  <2>3. FrameNests(sc, ac2, fr, k)
    BY <1>1, <1>2, <2>1, <2>2 DEF FrameNests
  <2>4. \A i \in 1..fr[k].checkpoint : ac2[i] = ac[i]
    <3> SUFFICES ASSUME NEW i \in 1..fr[k].checkpoint PROVE ac2[i] = ac[i]
      OBVIOUS
    <3>1. i \in 1..m
      BY <1>1, <2>2
    <3> QED
      BY <1>2, <3>1
  <2> QED
    BY <2>1, <2>2, <2>3, <2>4 DEF LoansKept
<1>4. ASSUME NEW k \in 1..n PROVE fr[k].depth < Len(sc)
  <2>1. n \in 1..n
    BY <1>1
  <2>2. FrameNests(sc, ac, fr, n) /\ ~Inert(fr[n])
    BY <1>1, <2>1 DEF Nested, TopOf
  <2>3. fr[n].depth < Len(sc)
    BY <1>1, <2>1, <2>2 DEF FrameNests, ScopesAbove
  <2>4. fr[k].depth <= fr[n].depth
    BY <2>2 DEF FrameNests
  <2> QED
    BY <1>1, <2>1, <2>3, <2>4
<1>5. ASSUME NEW k \in 1..n, NEW i \in 1..(m + 1) PROVE LoanSplit(ac2, fr, k, i)
  <2>1. CASE i = m + 1
    BY <1>1, <1>2, <1>3, <1>4, <2>1 DEF LoanSplit
  <2>2. CASE i # m + 1
    <3>1. i \in 1..m
      BY <1>1, <2>2, NotLast
    <3> QED
      BY <1>2, <3>1 DEF Nested, LoanSplit
  <2> QED
    BY <2>1, <2>2
<1>6. ASSUME NEW i \in 1..(m + 1) PROVE LoanHeld(sc, ac2, fr, i)
  <2>1. CASE i = m + 1
    BY <1>1, <1>2, <2>1 DEF LoanHeld, NoScope
  <2>2. CASE i # m + 1
    <3>1. i \in 1..m
      BY <1>1, <2>2, NotLast
    <3> QED
      BY <1>2, <3>1 DEF Nested, LoanHeld
  <2> QED
    BY <2>1, <2>2
<1>7. Nested(sc, ac2, fr)
  BY <1>2, <1>3, <1>5, <1>6 DEF Nested
<1> QED
  BY <1>7 DEF ac2

\* A loan of a parameter is made while its call is being set up.
LEMMA LendToCallNested ==
  ASSUME NEW sc \in Seq(Scope), NEW ac \in Seq(Loan), NEW fr \in Seq(Frame),
         Nested(sc, ac, fr), fr # <<>>, TopOf(fr).kind = "bind",
         NEW loan \in Loan, loan.scope = NoScope
  PROVE  Nested(sc, Append(ac, loan), fr)
<1> DEFINE n == Len(fr)
           m == Len(ac)
           ac2 == Append(ac, loan)
<1>1. /\ Len(sc) \in Nat /\ m \in Nat /\ n \in Nat /\ n # 0
      /\ \A i \in 1..m : ac[i].scope \in Nat /\ ac[i].home \in Nat
      /\ \A k \in 1..n : fr[k].depth \in Nat /\ fr[k].checkpoint \in Nat
  BY SequenceTypes
<1>2. Len(ac2) = m + 1 /\ ac2[m + 1] = loan /\ \A i \in 1..m : ac2[i] = ac[i]
  BY AppendProperties
<1> HIDE DEF ac2
<1>3. ASSUME NEW k \in 1..n
      PROVE  FrameNests(sc, ac2, fr, k) /\ LoansKept(ac2, fr, k) /\ fr[k].checkpoint <= m
  <2>1. FrameNests(sc, ac, fr, k) /\ LoansKept(ac, fr, k)
    BY DEF Nested
  <2>2. fr[k].checkpoint <= m /\ fr[k].checkpoint \in Nat
    BY <1>1, <2>1 DEF FrameNests
  <2>3. FrameNests(sc, ac2, fr, k)
    BY <1>1, <1>2, <2>1, <2>2 DEF FrameNests
  <2>4. \A i \in 1..fr[k].checkpoint : ac2[i] = ac[i]
    BY <1>1, <1>2, <2>2
  <2> QED
    BY <2>1, <2>2, <2>3, <2>4 DEF LoansKept
<1>4. ASSUME NEW k \in 1..n PROVE HeldByCall(fr, k, m + 1)
  <2>1. n \in k..n /\ n \in 1..n /\ fr[n].kind = "bind"
    BY <1>1 DEF TopOf
  <2>2. fr[n].checkpoint < m + 1
    BY <1>1, <1>3, <2>1
  <2> QED
    BY <2>1, <2>2 DEF HeldByCall
<1>5. ASSUME NEW k \in 1..n, NEW i \in 1..(m + 1) PROVE LoanSplit(ac2, fr, k, i)
  <2>1. CASE i = m + 1
    BY <1>1, <1>2, <1>3, <1>4, <2>1 DEF LoanSplit
  <2>2. CASE i # m + 1
    <3>1. i \in 1..m
      BY <1>1, <2>2, NotLast
    <3> QED
      BY <1>2, <3>1 DEF Nested, LoanSplit
  <2> QED
    BY <2>1, <2>2
<1>6. ASSUME NEW i \in 1..(m + 1) PROVE LoanHeld(sc, ac2, fr, i)
  <2>1. CASE i = m + 1
    <3>1. HeldByCall(fr, 1, m + 1)
      BY <1>1, <1>4
    <3> QED
      BY <1>1, <1>2, <2>1, <3>1 DEF LoanHeld, NoScope
  <2>2. CASE i # m + 1
    <3>1. i \in 1..m
      BY <1>1, <2>2, NotLast
    <3> QED
      BY <1>2, <3>1 DEF Nested, LoanHeld
  <2> QED
    BY <2>1, <2>2
<1>7. Nested(sc, ac2, fr)
  BY <1>2, <1>3, <1>5, <1>6 DEF Nested
<1> QED
  BY <1>7 DEF ac2

\* A construct opens on top of the others; it opens a scope, or it is inert.
Opens(sc, ac, fr, frame) ==
  /\ frame.depth = Len(sc) /\ frame.checkpoint = Len(ac) /\ frame.loans = ac
  /\ fr # <<>> => /\ TopOf(fr).kind # "bind"
                  /\ frame.kind = "eval" => ~Inert(TopOf(fr))

\* Opening a construct with the scopes it needs keeps the nesting.
LEMMA OpenNested ==
  ASSUME NEW sc \in Seq(Scope), NEW ac \in Seq(Loan), NEW fr \in Seq(Frame),
         Nested(sc, ac, fr), sc # <<>>,
         NEW frame \in Frame, Opens(sc, ac, fr, frame),
         NEW sc2 \in Seq(Scope), Grown(sc, sc2),
         Inert(frame) => Len(sc2) = Len(sc),
         ~Inert(frame) => Len(sc2) > Len(sc)
  PROVE  Nested(sc2, ac, Append(fr, frame))
<1> DEFINE n == Len(fr)
           m == Len(ac)
           fr2 == Append(fr, frame)
<1>1. /\ Len(sc) \in Nat /\ Len(sc) # 0 /\ m \in Nat /\ n \in Nat /\ Len(sc2) \in Nat
      /\ \A i \in 1..m : ac[i].scope \in Nat /\ ac[i].home \in Nat
      /\ \A k \in 1..n : fr[k].depth \in Nat /\ fr[k].checkpoint \in Nat
  <2> HIDE DEF fr2
  <2>1. Len(sc) # 0 /\ Len(sc2) \in Nat
    OBVIOUS
  <2> QED
    BY <2>1, SequenceTypes
<1>2. Len(fr2) = n + 1 /\ fr2[n + 1] = frame /\ \A k \in 1..n : fr2[k] = fr[k]
  BY AppendProperties
<1> HIDE DEF fr2
<1>3. ASSUME NEW k \in 1..n PROVE FrameNests(sc2, ac, fr2, k)
  <2>1. FrameNests(sc, ac, fr, k)
    BY DEF Nested
  <2>2. fr2[k] = fr[k] /\ \A j \in 1..k : fr2[j] = fr[j]
    BY <1>1, <1>2
  <2>3. ScopesAbove(sc2, fr2, k) = ScopesAbove(sc, fr, k)
    <3>1. k + 1 \in 1..(n + 1) /\ k # n + 1 /\ (k # n => k + 1 \in 1..n)
      BY <1>1
    <3>2. CASE k = n
      BY <1>2, <3>1, <3>2 DEF ScopesAbove, Opens
    <3>3. CASE k # n
      BY <1>2, <3>1, <3>3 DEF ScopesAbove
    <3> QED
      BY <3>2, <3>3
  <2>4. fr2[k].depth <= Len(sc2)
    <3>1. fr[k].depth \in Nat
      BY <1>1
    <3> QED
      BY <1>1, <2>1, <2>2, <3>1 DEF FrameNests, Grown
  <2>5. fr2[k].kind # "bind"
    <3>1. k # n => fr[k].kind # "bind"
      BY <2>1 DEF FrameNests
    <3>2. k = n => fr # <<>> /\ TopOf(fr) = fr[k]
      BY <1>1 DEF TopOf
    <3> QED
      BY <2>2, <3>1, <3>2 DEF Opens
  <2>6. ~(fr2[k + 1].kind = "eval" /\ Inert(fr2[k]))
    <3>1. CASE k = n
      <4>1. fr # <<>> /\ TopOf(fr) = fr[k] /\ fr2[k + 1] = frame
        BY <1>1, <1>2, <3>1 DEF TopOf
      <4> QED
        BY <2>2, <4>1 DEF Opens
    <3>2. CASE k # n
      <4>1. k < n /\ k + 1 \in 1..n
        BY <1>1, <3>2
      <4> QED
        BY <1>2, <2>1, <2>2, <4>1 DEF FrameNests
    <3> QED
      BY <3>1, <3>2
  <2> QED
    BY <2>1, <2>2, <2>3, <2>4, <2>5, <2>6 DEF FrameNests
<1>4. FrameNests(sc2, ac, fr2, n + 1)
  <2>1. /\ fr2[n + 1].depth = Len(sc) /\ fr2[n + 1].checkpoint = m
        /\ ScopesAbove(sc2, fr2, n + 1) = Len(sc2)
    BY <1>2 DEF Opens, ScopesAbove
  <2>2. ASSUME NEW j \in 1..(n + 1)
        PROVE  fr2[j].depth <= Len(sc) /\ fr2[j].checkpoint <= m
    <3>1. CASE j = n + 1
      BY <1>1, <2>1, <3>1
    <3>2. CASE j # n + 1
      <4>1. j \in 1..n
        BY <1>1, <3>2
      <4>2. FrameNests(sc, ac, fr, j) /\ fr2[j] = fr[j]
        BY <1>2, <4>1 DEF Nested
      <4> QED
        BY <4>2 DEF FrameNests
    <3> QED
      BY <3>1, <3>2
  <2> QED
    BY <1>1, <1>2, <2>1, <2>2 DEF FrameNests, Grown
<1>5. ASSUME NEW k \in 1..n, NEW i, HeldByCall(fr, k, i) PROVE HeldByCall(fr2, k, i)
  <2>1. PICK j \in k..n : fr[j].kind \in {"bind", "call"} /\ fr[j].checkpoint < i
    BY <1>5 DEF HeldByCall
  <2>2. j \in k..(n + 1) /\ j \in 1..n
    BY <1>1
  <2> QED
    BY <1>2, <2>1, <2>2 DEF HeldByCall
<1>6. ASSUME NEW k \in 1..(n + 1), NEW i \in 1..m PROVE LoanSplit(ac, fr2, k, i)
  <2>1. CASE k = n + 1
    <3>1. LoanHeld(sc, ac, fr, i)
      BY DEF Nested
    <3> QED
      BY <1>1, <1>2, <2>1, <3>1 DEF LoanSplit, LoanHeld, Opens
  <2>2. CASE k # n + 1
    <3>1. k \in 1..n
      BY <1>1, <2>2
    <3>2. LoanSplit(ac, fr, k, i) /\ fr2[k] = fr[k]
      BY <1>2, <3>1 DEF Nested
    <3> QED
      BY <1>5, <3>1, <3>2 DEF LoanSplit
  <2> QED
    BY <2>1, <2>2
<1>7. ASSUME NEW i \in 1..m PROVE LoanHeld(sc2, ac, fr2, i)
  <2>1. LoanHeld(sc, ac, fr, i)
    BY DEF Nested
  <2>2. ac[i].scope <= Len(sc2)
    BY <1>1, <2>1 DEF LoanHeld, Grown
  <2>3. ac[i].scope # NoScope => ac[i].home \in 1..Len(sc)
    BY <1>1, <2>1 DEF LoanHeld
  <2>4. HeldByCall(fr, 1, i) => HeldByCall(fr2, 1, i)
    <3>1. ASSUME HeldByCall(fr, 1, i) PROVE 1 \in 1..n
      BY <1>1, <3>1 DEF HeldByCall
    <3> QED
      BY <1>5, <3>1
  <2> QED
    BY <2>1, <2>2, <2>3, <2>4 DEF LoanHeld, Grown
<1>8. ASSUME NEW k \in 1..(n + 1) PROVE LoansKept(ac, fr2, k)
  <2>1. CASE k = n + 1
    BY <1>2, <2>1 DEF LoansKept, Opens
  <2>2. CASE k # n + 1
    <3>1. k \in 1..n
      BY <1>1, <2>2
    <3> QED
      BY <1>2, <3>1 DEF Nested, LoansKept
  <2> QED
    BY <2>1, <2>2
<1>9. ASSUME NEW k \in 1..(n + 1) PROVE FrameNests(sc2, ac, fr2, k)
  <2>1. k = n + 1 \/ k \in 1..n
    BY <1>1
  <2> QED
    BY <1>3, <1>4, <2>1
<1>10. Nested(sc2, ac, fr2)
  BY <1>2, <1>6, <1>7, <1>8, <1>9 DEF Nested
<1> QED
  BY <1>10 DEF fr2

\* A call whose parameters are bound starts its body in new scopes.
LEMMA StartNested ==
  ASSUME NEW sc \in Seq(Scope), NEW ac \in Seq(Loan), NEW fr \in Seq(Frame),
         Nested(sc, ac, fr), fr # <<>>, TopOf(fr).kind = "bind",
         NEW sc2 \in Seq(Scope), Grown(sc, sc2), Len(sc2) > Len(sc),
         NEW fr2 \in Seq(Frame), Len(fr2) = Len(fr),
         \A k \in 1..Len(fr) :
           /\ fr2[k].kind = IF k = Len(fr) THEN "call" ELSE fr[k].kind
           /\ fr2[k].depth = fr[k].depth /\ fr2[k].checkpoint = fr[k].checkpoint
           /\ fr2[k].loans = fr[k].loans
  PROVE  Nested(sc2, ac, fr2)
<1> DEFINE n == Len(fr)
           m == Len(ac)
<1>1. /\ Len(sc) \in Nat /\ m \in Nat /\ n \in Nat /\ n # 0 /\ Len(sc2) \in Nat
      /\ \A i \in 1..m : ac[i].scope \in Nat /\ ac[i].home \in Nat
      /\ \A k \in 1..n : fr[k].depth \in Nat /\ fr[k].checkpoint \in Nat
  BY SequenceTypes
<1>2. fr[n].kind = "bind" /\ fr2[n].kind = "call" /\ n \in 1..n
  BY <1>1 DEF TopOf
<1>3. ASSUME NEW k \in 1..n PROVE FrameNests(sc2, ac, fr2, k)
  <2>1. FrameNests(sc, ac, fr, k)
    BY DEF Nested
  <2>2. fr2[k].depth >= 1 /\ fr2[k].depth <= Len(sc2) /\ fr2[k].checkpoint <= m
    <3>1. fr[k].depth \in Nat /\ fr[k].depth <= Len(sc)
      BY <1>1, <2>1 DEF FrameNests
    <3> QED
      BY <1>1, <2>1, <3>1 DEF FrameNests
  <2>3. \A j \in 1..k : fr2[j].depth <= fr2[k].depth /\ fr2[j].checkpoint <= fr2[k].checkpoint
    <3>1. \A j \in 1..k : j \in 1..n
      BY <1>1
    <3> QED
      BY <2>1, <3>1 DEF FrameNests
  <2>4. CASE k = n
    <3>1. ScopesAbove(sc2, fr2, k) = Len(sc2)
      BY <2>4 DEF ScopesAbove
    <3>2. fr[k].depth <= Len(sc) /\ fr[k].depth \in Nat
      BY <1>1, <2>1 DEF FrameNests
    <3>3. ScopesAbove(sc2, fr2, k) > fr2[k].depth
      BY <1>1, <3>1, <3>2
    <3> QED
      BY <1>1, <1>2, <2>2, <2>3, <2>4, <3>3 DEF FrameNests, Inert
  <2>5. CASE k # n
    <3>1. k + 1 \in 1..n /\ k < n
      BY <1>1, <2>5
    <3>2. ScopesAbove(sc2, fr2, k) = ScopesAbove(sc, fr, k)
      BY <2>5, <3>1 DEF ScopesAbove
    <3>3. fr2[k].kind = fr[k].kind /\ (fr2[k + 1].kind = "eval" => fr[k + 1].kind = "eval")
      BY <1>2, <2>5, <3>1
    <3> QED
      BY <2>1, <2>2, <2>3, <2>5, <3>1, <3>2, <3>3 DEF FrameNests, Inert
  <2> QED
    BY <2>4, <2>5
<1>4. ASSUME NEW k \in 1..n, NEW i, HeldByCall(fr, k, i) PROVE HeldByCall(fr2, k, i)
  <2>1. PICK j \in k..n : fr[j].kind \in {"bind", "call"} /\ fr[j].checkpoint < i
    BY <1>4 DEF HeldByCall
  <2>2. j \in 1..n
    BY <1>1
  <2> QED
    BY <1>2, <2>1, <2>2 DEF HeldByCall
<1>5. ASSUME NEW k \in 1..n, NEW i \in 1..m PROVE LoanSplit(ac, fr2, k, i)
  <2>1. LoanSplit(ac, fr, k, i)
    BY DEF Nested
  <2> QED
    BY <1>4, <2>1 DEF LoanSplit
<1>6. ASSUME NEW i \in 1..m PROVE LoanHeld(sc2, ac, fr2, i)
  <2>1. LoanHeld(sc, ac, fr, i)
    BY DEF Nested
  <2>2. ac[i].scope <= Len(sc2)
    BY <1>1, <2>1 DEF LoanHeld
  <2>3. ac[i].scope # NoScope => ac[i].home \in 1..Len(sc)
    BY <1>1, <2>1 DEF LoanHeld
  <2>4. 1 \in 1..n
    BY <1>1
  <2>5. HeldByCall(fr, 1, i) => HeldByCall(fr2, 1, i)
    BY <1>4, <2>4
  <2> QED
    BY <2>1, <2>2, <2>3, <2>5 DEF LoanHeld, Grown
<1>7. ASSUME NEW k \in 1..n PROVE LoansKept(ac, fr2, k)
  <2>1. LoansKept(ac, fr, k)
    BY DEF Nested
  <2> QED
    BY <2>1 DEF LoansKept
<1> QED
  BY <1>3, <1>5, <1>6, <1>7 DEF Nested

-----------------------------------------------------------------------------
(* What is retained of the loans when scopes are popped.                     *)

\* Of the kept positions, the first i are 1..i when all of them are kept.
LEMMA UpTo ==
  ASSUME NEW m \in Nat, NEW kept \in SUBSET (1..m), NEW i \in Nat, 1..i \subseteq kept
  PROVE  {x \in kept : x <= i} = 1..i /\ Cardinality({x \in kept : x <= i}) = i
<1>1. \A x : x \in {y \in kept : y <= i} <=> x \in 1..i
  <2>1. \A x \in kept : x \in Nat /\ x >= 1
    OBVIOUS
  <2>2. \A x \in kept : x <= i => x \in 1..i
    BY <2>1
  <2>3. \A x \in 1..i : x \in kept /\ x <= i
    OBVIOUS
  <2> QED
    BY <2>2, <2>3
<1>2. {x \in kept : x <= i} = 1..i
  BY <1>1
<1>3. Cardinality(1..i) = i
  BY FS_Interval
<1> QED
  BY <1>2, <1>3

\* Filtering by positions that hold all of 1..c keeps the first c elements.
LEMMA FilteredPrefix ==
  ASSUME NEW S, NEW s \in Seq(S), NEW c \in 0..Len(s),
         NEW kept \in SUBSET (1..Len(s)), 1..c \subseteq kept
  PROVE  /\ c <= Len(Filtered(s, kept))
         /\ \A j \in 1..c : Filtered(s, kept)[j] = s[j]
         /\ kept = 1..c => Filtered(s, kept) = SubSeq(s, 1, c)
<1>1. Len(s) \in Nat /\ c \in Nat
  OBVIOUS
<1>2. IsFiniteSet(kept) /\ Cardinality(kept) \in Nat
  <2>1. IsFiniteSet(1..Len(s))
    BY <1>1, FS_Interval
  <2>2. IsFiniteSet(kept)
    BY <2>1, FS_Subset
  <2> QED
    BY <2>2, FS_CardinalityType
<1>3. \A k \in Nat : Cardinality(1..k) = k /\ IsFiniteSet(1..k)
  BY FS_Interval
<1>4. c <= Cardinality(kept)
  <2>1. Cardinality(1..c) <= Cardinality(kept)
    BY <1>2, FS_Subset
  <2> QED
    BY <1>1, <1>3, <2>1
<1>5. ASSUME NEW j \in 1..c
      PROVE  (CHOOSE i \in kept : Cardinality({m \in kept : m <= i}) = j) = j
  <2>1. j \in kept /\ j \in Nat /\ 1..j \subseteq kept
    <3>1. 1..j \subseteq 1..c /\ j \in 1..j
      BY <1>1
    <3> QED
      BY <3>1
  <2>2. Cardinality({m \in kept : m <= j}) = j
    BY <1>1, <2>1, UpTo
  <2>3. ASSUME NEW i \in kept, Cardinality({m \in kept : m <= i}) = j
        PROVE  i = j
    <3>1. i \in 1..Len(s)
      OBVIOUS
    <3>2. CASE i < j
      <4>1. i \in Nat /\ 1..i \subseteq kept
        <5>1. 1..i \subseteq 1..j
          BY <1>1, <3>1, <3>2
        <5> QED
          BY <2>1, <3>1, <5>1
      <4>2. Cardinality({m \in kept : m <= i}) = i
        BY <1>1, <4>1, UpTo
      <4> QED
        BY <2>3, <3>2, <4>2
    <3>3. CASE i > j
      <4> DEFINE T == {m \in kept : m <= i}
      <4>1. (1..j) \cup {i} \subseteq T
        BY <1>1, <2>1, <3>1, <3>3
      <4>2. IsFiniteSet(T)
        BY <1>2, FS_Subset
      <4>3. Cardinality((1..j) \cup {i}) = j + 1
        <5>1. i \notin 1..j
          BY <3>1, <3>3
        <5>2. IsFiniteSet(1..j) /\ Cardinality(1..j) = j
          BY <1>1, <1>3
        <5> QED
          BY <5>1, <5>2, FS_AddElement
      <4>4. Cardinality((1..j) \cup {i}) <= Cardinality(T)
        BY <4>1, <4>2, FS_Subset
      <4>5. Cardinality(T) = j
        BY <2>3
      <4> QED
        BY <1>1, <4>3, <4>4, <4>5
    <3> QED
      BY <1>1, <3>1, <3>2, <3>3
  <2> QED
    BY <2>1, <2>2, <2>3
<1>6. Len(Filtered(s, kept)) = Cardinality(kept)
  BY <1>2 DEF Filtered
<1>7. \A j \in 1..c : Filtered(s, kept)[j] = s[j]
  <2>1. \A j \in 1..c : j \in 1..Cardinality(kept)
    BY <1>1, <1>2, <1>4
  <2> QED
    BY <1>5, <2>1 DEF Filtered
<1>8. ASSUME kept = 1..c PROVE Filtered(s, kept) = SubSeq(s, 1, c)
  <2>1. /\ SubSeq(s, 1, c) \in Seq(S) /\ Len(SubSeq(s, 1, c)) = c
        /\ \A i \in 1..c : SubSeq(s, 1, c)[i] = s[i]
    BY PrefixIs
  <2>2. Cardinality(kept) = c
    BY <1>1, <1>3, <1>8
  <2>3. Filtered(s, kept) \in Seq(S)
    <3>1. Filtered(s, kept) = [j \in 1..c |-> Filtered(s, kept)[j]]
      BY <2>2 DEF Filtered
    <3>2. \A j \in 1..c : s[j] \in S
      OBVIOUS
    <3>3. Filtered(s, kept) \in [1..c -> S]
      BY <1>7, <3>1, <3>2
    <3> QED
      BY <1>1, <3>3
  <2> QED
    BY <1>6, <1>7, <2>1, <2>2, <2>3, SeqEqual
<1> QED
  BY <1>4, <1>6, <1>7, <1>8

-----------------------------------------------------------------------------
(* The inductive invariant, and what the actions do to it.                   *)

IInv == WellTyped /\ Nested(scopes, active, frames)

\* The loans after a step: a prefix of those before, or an extension.
Ordered(before, after) == IsPrefixOf(before, after) \/ IsPrefixOf(after, before)

\* Keeping the loans, adding one and cutting the stack all respect their order.
LEMMA OrderedCases ==
  ASSUME NEW ac \in Seq(Loan)
  PROVE  /\ Ordered(ac, ac)
         /\ \A loan \in Loan : Ordered(ac, Append(ac, loan))
         /\ \A c \in 0..Len(ac) : Ordered(ac, SubSeq(ac, 1, c))
<1>1. Len(ac) \in Nat
  OBVIOUS
<1>2. ac = SubSeq(ac, 1, Len(ac))
  <2>1. Len(ac) \in 0..Len(ac)
    BY <1>1
  <2> QED
    BY <1>1, <2>1, PrefixIs, SeqEqual
<1>3. ASSUME NEW loan \in Loan PROVE IsPrefixOf(ac, Append(ac, loan))
  <2>1. /\ Append(ac, loan) \in Seq(Loan) /\ Len(Append(ac, loan)) = Len(ac) + 1
        /\ \A i \in 1..Len(ac) : Append(ac, loan)[i] = ac[i]
    BY AppendProperties
  <2> DEFINE longer == Append(ac, loan)
  <2> HIDE DEF longer
  <2>2. Len(ac) \in 0..Len(longer)
    BY <1>1, <2>1 DEF longer
  <2>3. /\ SubSeq(longer, 1, Len(ac)) \in Seq(Loan) /\ Len(SubSeq(longer, 1, Len(ac))) = Len(ac)
        /\ \A i \in 1..Len(ac) : SubSeq(longer, 1, Len(ac))[i] = longer[i]
    BY <2>1, <2>2, PrefixIs DEF longer
  <2>4. ac = SubSeq(longer, 1, Len(ac))
    BY <2>1, <2>3, SeqEqual DEF longer
  <2>5. Len(ac) <= Len(longer)
    BY <1>1, <2>1 DEF longer
  <2> QED
    BY <2>4, <2>5 DEF IsPrefixOf, longer
<1>4. ASSUME NEW c \in 0..Len(ac) PROVE IsPrefixOf(SubSeq(ac, 1, c), ac)
  <2>1. Len(SubSeq(ac, 1, c)) = c
    BY PrefixIs
  <2> QED
    BY <1>1, <2>1 DEF IsPrefixOf
<1> QED
  BY <1>1, <1>2, <1>3, <1>4 DEF Ordered, IsPrefixOf

\* Statements and expressions run above constructs that can hold them.
LEMMA StatementTop ==
  /\ InStatement /\ frames # <<>> => ~Inert(TopOf(frames)) /\ TopOf(frames).kind # "bind"
  /\ InExpression /\ frames # <<>> => TopOf(frames).kind # "bind"
BY DEF InStatement, InExpression, Evaluating, Top, TopOf, Inert

\* A frame that OpenFrame makes, with its own fields, opens.
LEMMA OpensFrame ==
  ASSUME NEW frame, frame.depth = OpenFrame("block").depth,
         frame.checkpoint = OpenFrame("block").checkpoint,
         frame.loans = OpenFrame("block").loans,
         frames # <<>> => /\ TopOf(frames).kind # "bind"
                          /\ frame.kind = "eval" => ~Inert(TopOf(frames))
  PROVE  Opens(scopes, active, frames, frame)
BY DEF Opens, OpenFrame

\* A half-evaluated statement has opened no scope and holds no loan.
LEMMA EvalHoldsNothing ==
  ASSUME IInv, Evaluating
  PROVE  /\ Top.depth = Len(scopes) /\ Top.checkpoint = Len(active)
         /\ SubSeq(frames, 1, Len(frames) - 1) \in Seq(Frame)
         /\ Nested(scopes, active, SubSeq(frames, 1, Len(frames) - 1))
         /\ SubSeq(frames, 1, Len(frames) - 1) # <<>> =>
              ~Inert(TopOf(SubSeq(frames, 1, Len(frames) - 1)))
<1> DEFINE n == Len(frames)
           m == Len(active)
<1>1. /\ scopes \in Seq(Scope) /\ active \in Seq(Loan) /\ frames \in Seq(Frame)
      /\ scopes # <<>> /\ frames # <<>> /\ Nested(scopes, active, frames)
  BY SameScopesTyped DEF IInv, Evaluating
<1>2. /\ Len(scopes) \in Nat /\ m \in Nat /\ n \in Nat /\ n # 0
      /\ \A i \in 1..m : active[i].scope \in Nat /\ active[i].home \in Nat
      /\ \A k \in 1..n : frames[k].depth \in Nat /\ frames[k].checkpoint \in Nat
  BY <1>1, SequenceTypes
<1>3. n \in 1..n /\ frames[n].kind = "eval" /\ Top = frames[n]
  BY <1>2 DEF Evaluating, Top
<1>4. FrameNests(scopes, active, frames, n)
  BY <1>1, <1>3 DEF Nested
<1>5. frames[n].depth = Len(scopes)
  BY <1>3, <1>4 DEF FrameNests, Inert, ScopesAbove
<1>6. frames[n].checkpoint = m
  <2> SUFFICES ASSUME frames[n].checkpoint # m PROVE FALSE
    OBVIOUS
  <2>1. m \in 1..m /\ m > frames[n].checkpoint
    BY <1>2, <1>3, <1>4 DEF FrameNests
  <2>2. LoanSplit(active, frames, n, m) /\ LoanHeld(scopes, active, frames, m)
    BY <1>1, <1>3, <2>1 DEF Nested
  <2>3. ~HeldByCall(frames, n, m)
    BY <1>2, <1>3 DEF HeldByCall
  <2>4. active[m].scope > Len(scopes) /\ active[m].scope <= Len(scopes)
    BY <1>5, <2>1, <2>2, <2>3 DEF LoanSplit, LoanHeld
  <2> QED
    BY <1>2, <2>1, <2>4
<1> DEFINE fr2 == SubSeq(frames, 1, n - 1)
<1>7. /\ fr2 \in Seq(Frame) /\ Len(fr2) = n - 1
      /\ \A k \in 1..(n - 1) : fr2[k] = frames[k]
  <2>1. n - 1 \in 0..n
    BY <1>2
  <2> QED
    BY <1>1, <2>1, PrefixIs
<1>8. Nested(SubSeq(scopes, 1, Len(scopes)), SubSeq(active, 1, m), fr2)
  BY <1>1, <1>3, <1>5, <1>6, CloseNested DEF TopOf
<1>9. SubSeq(scopes, 1, Len(scopes)) = scopes /\ SubSeq(active, 1, m) = active
  <2>1. Len(scopes) \in 0..Len(scopes) /\ m \in 0..m
    BY <1>2
  <2> QED
    BY <1>1, <2>1, PrefixIs, SeqEqual
<1>10. ASSUME fr2 # <<>> PROVE ~Inert(TopOf(fr2))
  <2>1. n - 1 \in 1..n /\ (n - 1) + 1 = n /\ n - 1 < n /\ n - 1 \in 1..(n - 1)
    BY <1>2, <1>7, <1>10
  <2>2. FrameNests(scopes, active, frames, n - 1)
    BY <1>1, <2>1 DEF Nested
  <2>3. ~Inert(frames[n - 1])
    BY <1>3, <2>1, <2>2 DEF FrameNests
  <2> QED
    BY <1>7, <2>1, <2>3 DEF TopOf
<1> QED
  BY <1>3, <1>5, <1>6, <1>7, <1>8, <1>9, <1>10

-----------------------------------------------------------------------------
(* Each action keeps the nesting and the order of the loans.                 *)

NestedAfter == Nested(scopes', active', frames') /\ Ordered(active, active')

\* What the invariant says of the three stacks, unfolded once.
LEMMA StateTyped ==
  ASSUME IInv
  PROVE  /\ scopes \in Seq(Scope) /\ active \in Seq(Loan) /\ frames \in Seq(Frame)
         /\ scopes # <<>> /\ Nested(scopes, active, frames)
         /\ Len(scopes) \in Nat /\ Len(active) \in Nat /\ Len(frames) \in Nat
         /\ Len(scopes) \in 1..Len(scopes)
BY SameScopesTyped DEF IInv

\* Scopes that do not change have grown.
LEMMA GrownSame ==
  ASSUME NEW sc \in Seq(Scope)
  PROVE  Grown(sc, sc)
BY DEF Grown

\* Constructs that do not change keep their shape.
LEMMA ShapeSame == \A fr : SameShape(fr, fr)
BY DEF SameShape

\* Steps that leave the loans alone and open or close nothing.
LEMMA QuietStep ==
  ASSUME IInv, WellTyped', Grown(scopes, scopes'), Len(scopes') = Len(scopes),
         SameShape(frames, frames'), active' = active
  PROVE  NestedAfter
<1>1. scopes' \in Seq(Scope) /\ frames' \in Seq(Frame)
  BY DEF WellTyped, Typed
<1>2. Nested(scopes', active, frames')
  BY <1>1, StateTyped, GrowNested
<1>3. Ordered(active, active')
  BY StateTyped, OrderedCases
<1> QED
  BY <1>2, <1>3 DEF NestedAfter

\* Changing what the innermost construct has left to do keeps its shape.
LEMMA SetTopShape ==
  ASSUME IInv, frames # <<>>, NEW frame, SetTop(frame),
         frame.kind = Top.kind, frame.depth = Top.depth,
         frame.checkpoint = Top.checkpoint, frame.loans = Top.loans
  PROVE  SameShape(frames, frames')
BY StateTyped DEF SetTop, SameShape, Top

\* Defining a name only adds a binding.
LEMMA DefineGrown ==
  ASSUME IInv, NEW n, NEW binding
  PROVE  Grown(scopes, Define(scopes, n, binding)) /\ Len(Define(scopes, n, binding)) = Len(scopes)
BY StateTyped DEF Define, Grown

\* A declaration keeps the nesting.
LEMMA DeclareNested ==
  ASSUME IInv, NEW n \in Name, NEW mutable \in BOOLEAN, NEW value, Declare(n, mutable, value)
  PROVE  WellTyped' /\ NestedAfter
<1>1. WellTyped'
  BY DeclareTyped DEF IInv
<1>2. Grown(scopes, scopes') /\ Len(scopes') = Len(scopes)
  BY DefineGrown DEF Declare
<1> QED
  BY <1>1, <1>2, QuietStep, ShapeSame DEF Declare

\* A destructuring assignment keeps the nesting.
LEMMA DestructureNested ==
  ASSUME IInv, NEW values, DestructureReassign(values)
  PROVE  WellTyped' /\ NestedAfter
<1>1. WellTyped'
  BY DestructureReassignTyped DEF IInv
<1>2. Grown(scopes, scopes') /\ Len(scopes') = Len(scopes)
  <2>1. DOMAIN scopes' = DOMAIN scopes /\ \A i \in DOMAIN scopes : DOMAIN scopes'[i] = DOMAIN scopes[i]
    BY DEF DestructureReassign
  <2>2. scopes' \in Seq(Scope) /\ scopes \in Seq(Scope)
    BY <1>1, StateTyped DEF WellTyped, Typed
  <2>3. Len(scopes') = Len(scopes) /\ DOMAIN scopes = 1..Len(scopes)
    BY <2>1, <2>2
  <2> QED
    BY <2>1, <2>3, StateTyped DEF Grown
<1> QED
  BY <1>1, <1>2, QuietStep, ShapeSame DEF DestructureReassign

\* The next element of a loop by value keeps the nesting.
LEMMA NextItemNested ==
  ASSUME IInv, NextItem
  PROVE  WellTyped' /\ NestedAfter
<1>1. /\ WellTyped' /\ Len(scopes') = Len(scopes)
      /\ \A i \in 1..Len(scopes) : DOMAIN scopes'[i] = DOMAIN scopes[i]
  BY NextItemTyped DEF IInv
<1>2. Grown(scopes, scopes')
  BY <1>1, StateTyped DEF Grown
<1>3. Top \in Frame /\ frames # <<>>
  BY TopTyped DEF NextItem, IInv
<1>4. SameShape(frames, frames')
  <2> DEFINE frame == [Top EXCEPT !.items = Tail(@)]
  <2>1. frame.kind = Top.kind /\ frame.depth = Top.depth
        /\ frame.checkpoint = Top.checkpoint /\ frame.loans = Top.loans
    BY <1>3 DEF Frame
  <2>2. SetTop(frame)
    BY DEF NextItem
  <2> QED
    BY <1>3, <2>1, <2>2, SetTopShape
<1> QED
  BY <1>1, <1>2, <1>4, QuietStep DEF NextItem

\* The next segment of a path does.
LEMMA ReadSegmentNested ==
  ASSUME IInv, Top.items # <<>>, ReadSegment
  PROVE  WellTyped' /\ NestedAfter
<1>1. WellTyped' /\ scopes' = scopes /\ active' = active
  BY ReadSegmentTyped DEF ReadSegment, IInv
<1>2. Grown(scopes, scopes')
  BY <1>1, StateTyped, GrownSame
<1>3. Top \in Frame /\ frames # <<>>
  BY TopTyped DEF ReadSegment, Evaluating, IInv
<1>4. SameShape(frames, frames')
  <2>1. PICK items, segment : SetTop([Top EXCEPT !.items = items, !.path = Append(@, segment)])
    BY DEF ReadSegment
  <2> DEFINE frame == [Top EXCEPT !.items = items, !.path = Append(@, segment)]
  <2>2. frame.kind = Top.kind /\ frame.depth = Top.depth
        /\ frame.checkpoint = Top.checkpoint /\ frame.loans = Top.loans
    BY <1>3 DEF Frame
  <2> QED
    BY <1>3, <2>1, <2>2, SetTopShape
<1> QED
  BY <1>1, <1>2, <1>4, QuietStep

\* The next parameter keeps the shape of the constructs.
LEMMA AdvanceShape ==
  ASSUME IInv, BindingParameter, Advance
  PROVE  SameShape(frames, frames')
<1>1. Top \in Frame /\ frames # <<>>
  BY TopTyped DEF BindingParameter, IInv
<1> DEFINE frame == [Top EXCEPT !.next = @ + 1]
<1>2. frame.kind = Top.kind /\ frame.depth = Top.depth
      /\ frame.checkpoint = Top.checkpoint /\ frame.loans = Top.loans
  BY <1>1 DEF Frame
<1>3. SetTop(frame)
  BY DEF Advance
<1> QED
  BY <1>1, <1>2, <1>3, SetTopShape

\* A parameter's loan hangs on the call that is being made.
LEMMA BindParameterNested ==
  ASSUME IInv, BindValueParameter \/ BindReferenceParameter
  PROVE  WellTyped' /\ NestedAfter
<1>1. WellTyped'
  BY BindParameterTyped DEF IInv
<1>2. BindingParameter /\ Advance /\ scopes' = scopes
  BY DEF BindValueParameter, BindReferenceParameter
<1>3. SameShape(frames, frames')
  BY <1>2, AdvanceShape
<1>4. Grown(scopes, scopes)
  BY StateTyped, GrownSame
<1>5. CASE BindValueParameter
  BY <1>1, <1>2, <1>3, <1>4, <1>5, QuietStep DEF BindValueParameter
<1>6. CASE BindReferenceParameter
  <2> DEFINE loan == ParameterLoan(NextParam.name, ParameterMode, NextArgument.val)
  <2>1. active' = Append(active, loan) /\ loan.scope = NoScope
    BY <1>6 DEF BindReferenceParameter, ParameterLoan, ScopedLoan
  <2>2. loan \in Loan
    <3>1. active' \in Seq(Loan)
      BY <1>1 DEF WellTyped, Typed
    <3>2. Len(active') = Len(active) + 1 /\ active'[Len(active) + 1] = loan
      BY <2>1, StateTyped, AppendProperties
    <3>3. Len(active) + 1 \in 1..Len(active')
      BY <3>2, StateTyped
    <3> QED
      BY <3>1, <3>2, <3>3, ElementOfSeq
  <2>3. frames # <<>> /\ TopOf(frames).kind = "bind"
    BY <1>2 DEF BindingParameter, Top, TopOf
  <2>4. Nested(scopes, active', frames) /\ Ordered(active, active')
    <3> HIDE DEF loan
    <3> QED
      BY <2>1, <2>2, <2>3, StateTyped, LendToCallNested, OrderedCases
  <2>5. active' \in Seq(Loan) /\ frames' \in Seq(Frame)
    BY <1>1 DEF WellTyped, Typed
  <2>6. Nested(scopes, active', frames')
    BY <1>3, <1>4, <2>4, <2>5, StateTyped, GrowNested
  <2> QED
    BY <1>1, <1>2, <2>4, <2>6 DEF NestedAfter
<1> QED
  BY <1>5, <1>6

\* Statements that begin to evaluate an expression, and calls.
LEMMA BeginEvalNested ==
  ASSUME IInv, InStatement, NEW op \in Operation, NEW n \in Name, BeginEval(op, n)
  PROVE  WellTyped' /\ NestedAfter
<1>1. WellTyped'
  BY BeginEvalTyped DEF IInv
<1> DEFINE frame == [OpenFrame("eval") EXCEPT !.op = op, !.name = n]
<1>2. frames' = Append(frames, frame) /\ scopes' = scopes /\ active' = active
  BY DEF BeginEval, PushFrame
<1>3. frame.kind = "eval" /\ Opens(scopes, active, frames, frame)
  BY StatementTop DEF OpenFrame, Opens
<1>4. frame \in Frame
  <2>1. OpenFrame("eval") \in Frame
    BY OpenFrameTyped DEF FrameKind, IInv, WellTyped
  <2> QED
    BY <2>1 DEF Frame
<1> HIDE DEF frame
<1>5. Inert(frame) /\ Grown(scopes, scopes)
  BY <1>3, GrownSame, StateTyped DEF Inert
<1>6. Nested(scopes, active, Append(frames, frame))
  BY <1>3, <1>4, <1>5, StateTyped, OpenNested
<1>7. Ordered(active, active)
  BY StateTyped, OrderedCases
<1> QED
  BY <1>1, <1>2, <1>6, <1>7 DEF NestedAfter

\* The start of a writing statement keeps the nesting.
LEMMA BeginWriteNested ==
  ASSUME IInv, NEW n \in Name, NEW op \in {"set", "add", "remove"},
         BeginReassign(n) \/ BeginWriteThrough(n) \/ BeginMutation(op, n)
  PROVE  WellTyped' /\ NestedAfter
<1>1. InStatement /\ (BeginEval("reassign", n) \/ BeginEval("write", n) \/ BeginEval(op, n))
  BY DEF BeginReassign, BeginWriteThrough, BeginMutation
<1>2. {"reassign", "write", "set", "add", "remove"} \subseteq Operation
  BY DEF Operation
<1> QED
  BY <1>1, <1>2, BeginEvalNested

\* The start of a reference whose path has calls keeps the nesting.
LEMMA BeginBorrowNested ==
  ASSUME IInv, NEW n \in Name, NEW mutable \in BOOLEAN, NEW owner, BeginBorrow(n, mutable, owner)
  PROVE  WellTyped' /\ NestedAfter
<1>1. WellTyped'
  BY BeginBorrowTyped DEF IInv
<1> DEFINE frame == [OpenFrame("eval") EXCEPT
                       !.op = IF mutable THEN "mut ref" ELSE "ref", !.name = n,
                       !.args = <<[source |-> owner, val |-> Lookup(owner).val]>>,
                       !.items = <<Lookup(owner).val>>]
<1>2. frames' = Append(frames, frame) /\ scopes' = scopes /\ active' = active
  BY DEF BeginBorrow, PushFrame
<1>3. frame.kind = "eval" /\ Opens(scopes, active, frames, frame)
  BY StatementTop DEF BeginBorrow, OpenFrame, Opens
<1>4. frame \in Frame
  <2>1. frames' \in Seq(Frame)
    BY <1>1 DEF WellTyped, Typed
  <2> HIDE DEF frame
  <2>2. Len(frames') = Len(frames) + 1 /\ frames'[Len(frames) + 1] = frame
    BY <1>2, StateTyped, AppendProperties
  <2>3. Len(frames) + 1 \in 1..Len(frames')
    BY <2>2, StateTyped
  <2> QED
    BY <2>1, <2>2, <2>3, ElementOfSeq
<1> HIDE DEF frame
<1>5. Inert(frame) /\ Grown(scopes, scopes)
  BY <1>3, GrownSame, StateTyped DEF Inert
<1>6. Nested(scopes, active, Append(frames, frame))
  BY <1>3, <1>4, <1>5, StateTyped, OpenNested
<1>7. Ordered(active, active)
  BY StateTyped, OrderedCases
<1> QED
  BY <1>1, <1>2, <1>6, <1>7 DEF NestedAfter

\* The start of a call keeps the nesting.
LEMMA BeginCallNested ==
  ASSUME IInv, InExpression, NEW f \in Function, NEW args \in Seq(Argument),
         NEW instance \in Struct \cup {None}, BeginCall(f, args, instance)
  PROVE  WellTyped' /\ NestedAfter
<1>1. WellTyped'
  BY BeginCallTyped DEF IInv
<1> DEFINE frame == [OpenFrame("bind") EXCEPT !.function = f, !.args = args, !.instance = instance]
<1>2. frames' = Append(frames, frame) /\ scopes' = scopes /\ active' = active
  BY DEF BeginCall, PushFrame
<1>3. frame.kind = "bind" /\ Opens(scopes, active, frames, frame)
  BY StatementTop DEF OpenFrame, Opens
<1>4. frame \in Frame
  <2>1. OpenFrame("bind") \in Frame
    BY OpenFrameTyped DEF FrameKind, IInv, WellTyped
  <2> QED
    BY <2>1 DEF Frame
<1> HIDE DEF frame
<1>5. Inert(frame) /\ Grown(scopes, scopes)
  BY <1>3, GrownSame, StateTyped DEF Inert
<1>6. Nested(scopes, active, Append(frames, frame))
  BY <1>3, <1>4, <1>5, StateTyped, OpenNested
<1>7. Ordered(active, active)
  BY StateTyped, OrderedCases
<1> QED
  BY <1>1, <1>2, <1>6, <1>7 DEF NestedAfter

\* A function call keeps the nesting.
LEMMA CallNested ==
  ASSUME IInv, NEW f \in Function, NEW args \in [1..Arity(f) -> Arguments], Call(f, args)
  PROVE  WellTyped' /\ NestedAfter
<1>1. InExpression /\ args \in Seq(Argument) /\ BeginCall(f, args, None)
  BY CallBegins DEF IInv
<1> QED
  BY <1>1, BeginCallNested

\* A message keeps the nesting.
LEMMA DispatchNested ==
  ASSUME IInv, NEW s \in Struct, NEW m \in Message,
         NEW supplied \in [1..(Arity(m) - Signature[m].fields) -> Readable], Dispatch(s, m, supplied)
  PROVE  WellTyped' /\ NestedAfter
<1>1. /\ InExpression /\ m \in Function
      /\ \E args \in Seq(Argument) : BeginCall(m, args, s)
  BY DispatchBegins DEF IInv
<1> QED
  BY <1>1, BeginCallNested

\* Constructs that open a scope.
LEMMA AppendGrown ==
  ASSUME NEW sc \in Seq(Scope), NEW scope \in Scope
  PROVE  /\ Append(sc, scope) \in Seq(Scope) /\ Len(Append(sc, scope)) = Len(sc) + 1
         /\ Grown(sc, Append(sc, scope)) /\ Len(Append(sc, scope)) > Len(sc)
<1>1. /\ Append(sc, scope) \in Seq(Scope) /\ Len(Append(sc, scope)) = Len(sc) + 1
      /\ \A i \in 1..Len(sc) : Append(sc, scope)[i] = sc[i]
  BY AppendProperties
<1>2. Len(sc) \in Nat
  OBVIOUS
<1> QED
  BY <1>1, <1>2 DEF Grown

\* A construct with a new scope, and perhaps a new loan held in that scope.
LEMMA OpenScopeStep ==
  ASSUME IInv, WellTyped', NEW scope \in Scope, scopes' = Append(scopes, scope),
         NEW frame \in Frame, Opens(scopes, active, frames, frame), ~Inert(frame),
         frames' = Append(frames, frame),
         \/ active' = active
         \/ \E loan \in Loan :
              /\ active' = Append(active, loan) /\ loan.scope = Len(scopes) + 1
              /\ loan.home \in 1..Len(scopes) /\ loan.owner \in DOMAIN scopes[loan.home]
  PROVE  NestedAfter
<1>1. /\ scopes' \in Seq(Scope) /\ Len(scopes') = Len(scopes) + 1 /\ Grown(scopes, scopes')
      /\ Len(scopes') > Len(scopes)
  BY AppendGrown, StateTyped
<1>2. frames' \in Seq(Frame) /\ frames' # <<>> /\ TopOf(frames') = frame
  <2>1. /\ frames' \in Seq(Frame) /\ Len(frames') = Len(frames) + 1
        /\ frames'[Len(frames) + 1] = frame
    BY StateTyped, AppendProperties
  <2> QED
    BY <2>1, StateTyped DEF TopOf
<1>3. Nested(scopes', active, frames')
  BY <1>1, StateTyped, OpenNested
<1>4. CASE active' = active
  BY <1>3, <1>4, StateTyped, OrderedCases DEF NestedAfter
<1>5. CASE active' # active
  <2>1. PICK loan \in Loan :
          /\ active' = Append(active, loan) /\ loan.scope = Len(scopes) + 1
          /\ loan.home \in 1..Len(scopes) /\ loan.owner \in DOMAIN scopes[loan.home]
    BY <1>5
  <2>2. /\ loan.scope = Len(scopes') /\ loan.home \in 1..Len(scopes')
        /\ loan.owner \in DOMAIN scopes'[loan.home] /\ scopes' # <<>>
    BY <1>1, <2>1, StateTyped DEF Grown
  <2>3. Nested(scopes', Append(active, loan), frames')
    BY <1>1, <1>2, <1>3, <2>2, StateTyped, LendNested
  <2> QED
    BY <2>1, <2>3, StateTyped, OrderedCases DEF NestedAfter
<1> QED
  BY <1>4, <1>5

\* A block keeps the nesting.
LEMMA EnterBlockNested ==
  ASSUME IInv, EnterBlock
  PROVE  WellTyped' /\ NestedAfter
<1>1. WellTyped'
  BY EnterBlockTyped DEF IInv
<1>2. scopes' = Append(scopes, EmptyScope) /\ frames' = Append(frames, OpenFrame("block"))
        /\ active' = active
  BY DEF EnterBlock, Pushed, PushFrame
<1>3. OpenFrame("block") \in Frame /\ ~Inert(OpenFrame("block"))
        /\ Opens(scopes, active, frames, OpenFrame("block"))
  <2>1. OpenFrame("block") \in Frame
    BY PlainFrameOK DEF IInv, WellTyped
  <2> QED
    BY <2>1, StatementTop DEF OpenFrame, Opens, Inert, EnterBlock
<1> QED
  BY <1>1, <1>2, <1>3, EmptyScopeTyped, OpenScopeStep

\* A loop or match with its elements opens on the current stacks.
LEMMA ItemsFrameOpens ==
  ASSUME IInv, NEW kind \in {"loop", "each", "match"}, NEW n \in Name, NEW items \in Seq(Value),
         InStatement \/ InExpression
  PROVE  LET frame == [OpenFrame(kind) EXCEPT !.name = n, !.items = items]
         IN  frame \in Frame /\ ~Inert(frame) /\ Opens(scopes, active, frames, frame)
<1> DEFINE frame == [OpenFrame(kind) EXCEPT !.name = n, !.items = items]
<1>1. frame \in Frame
  BY ItemsFrameTyped DEF IInv, WellTyped
<1>2. frame.kind = kind /\ Opens(scopes, active, frames, frame)
  BY StatementTop DEF OpenFrame, Opens
<1> QED
  BY <1>1, <1>2 DEF Inert

\* A loop by reference and a match hold their loan in their own scope.
LEMMA OpenSharedNested ==
  ASSUME IInv, NEW n \in Name, NEW source, BeginForRef(n, source) \/ BeginMatchRef(n, source)
  PROVE  WellTyped' /\ NestedAfter
<1>1. WellTyped'
  BY BeginForRefTyped, BeginMatchRefTyped DEF IInv
<1>2. PICK kind \in {"loop", "match"}, escape \in EscapeKind : OpenShared(kind, escape, n, source)
  BY DEF BeginForRef, BeginMatchRef, EscapeKind
<1>3. InStatement \/ InExpression
  BY DEF BeginForRef, BeginMatchRef
<1>4. Bound(source) /\ Lookup(source).val \in Collection
  BY <1>2 DEF OpenShared
<1>5. PICK scope \in Scope : scopes' = Append(scopes, scope)
  <2>1. CASE BeginForRef(n, source)
    BY <2>1, EmptyScopeTyped DEF BeginForRef, Pushed
  <2>2. CASE BeginMatchRef(n, source)
    <3>1. Reference(Lookup(source).val, FALSE) \in Binding
      BY <1>4, LookupTyped, PlainTyped DEF IInv, WellTyped
    <3>2. [m \in {n} |-> Reference(Lookup(source).val, FALSE)] \in Scope
      BY <3>1, SingleScopeTyped
    <3> QED
      BY <2>2, <3>2 DEF BeginMatchRef
  <2> QED
    BY <2>1, <2>2
<1>6. PICK items \in Elements(Lookup(source).val) :
        PushFrame([OpenFrame(kind) EXCEPT !.name = n, !.items = items])
  BY <1>2 DEF OpenShared
<1>7. items \in Seq(Value)
  BY <1>4, ElementsTyped, SameScopesTyped DEF IInv
<1> DEFINE frame == [OpenFrame(kind) EXCEPT !.name = n, !.items = items]
           loan == ScopedLoan({Whole(id) : id \in Reachable({Lookup(source).val})}, "Shared", n,
                              source, <<>>, Current + 1, escape, BindingScope(source))
<1>8. frame \in Frame /\ ~Inert(frame) /\ Opens(scopes, active, frames, frame)
  BY <1>3, <1>7, ItemsFrameOpens
<1>9. frames' = Append(frames, frame)
  BY <1>6 DEF PushFrame
<1>10. active' = Append(active, loan)
  BY <1>2 DEF OpenShared
<1>11. loan \in Loan
  <2>1. active' \in Seq(Loan)
    BY <1>1 DEF WellTyped, Typed
  <2> HIDE DEF loan
  <2>2. Len(active') = Len(active) + 1 /\ active'[Len(active) + 1] = loan
    BY <1>10, StateTyped, AppendProperties
  <2>3. Len(active) + 1 \in 1..Len(active')
    BY <2>2, StateTyped
  <2> QED
    BY <2>1, <2>2, <2>3, ElementOfSeq
<1>12. /\ loan.scope = Len(scopes) + 1 /\ loan.home \in 1..Len(scopes)
       /\ loan.owner \in DOMAIN scopes[loan.home]
  BY <1>4, LookupTyped DEF ScopedLoan, Current, IInv, WellTyped
<1> HIDE DEF loan, frame
<1> QED
  BY <1>1, <1>5, <1>8, <1>9, <1>10, <1>11, <1>12, OpenScopeStep

\* A loop by value keeps the nesting.
LEMMA BeginForNested ==
  ASSUME IInv, NEW n \in Name, NEW mutable \in BOOLEAN, NEW source, BeginFor(n, mutable, source)
  PROVE  WellTyped' /\ NestedAfter
<1>1. WellTyped'
  BY BeginForTyped DEF IInv
<1>2. PICK items \in Elements(Lookup(source).val) :
        /\ scopes' = Append(scopes, [m \in {n} |-> Plain(Head(items), mutable)])
        /\ PushFrame([OpenFrame("each") EXCEPT !.name = n, !.items = Tail(items)])
  BY DEF BeginFor
<1> DEFINE scope == [m \in {n} |-> Plain(Head(items), mutable)]
           frame == [OpenFrame("each") EXCEPT !.name = n, !.items = Tail(items)]
<1>3. frames' = Append(frames, frame) /\ active' = active /\ scopes' = Append(scopes, scope)
  BY <1>2 DEF PushFrame, BeginFor
<1>4. scope \in Scope
  <2>1. scopes' \in Seq(Scope)
    BY <1>1 DEF WellTyped, Typed
  <2> HIDE DEF scope
  <2>2. Len(scopes') = Len(scopes) + 1 /\ scopes'[Len(scopes) + 1] = scope
    BY <1>3, StateTyped, AppendProperties
  <2>3. Len(scopes) + 1 \in 1..Len(scopes')
    BY <2>2, StateTyped
  <2> QED
    BY <2>1, <2>2, <2>3, ElementOfSeq
<1>5. frame \in Frame
  <2>1. frames' \in Seq(Frame)
    BY <1>1 DEF WellTyped, Typed
  <2> HIDE DEF frame
  <2>2. Len(frames') = Len(frames) + 1 /\ frames'[Len(frames) + 1] = frame
    BY <1>3, StateTyped, AppendProperties
  <2>3. Len(frames) + 1 \in 1..Len(frames')
    BY <2>2, StateTyped
  <2> QED
    BY <2>1, <2>2, <2>3, ElementOfSeq
<1>6. ~Inert(frame) /\ Opens(scopes, active, frames, frame)
  BY StatementTop DEF OpenFrame, Opens, Inert, BeginFor
<1> HIDE DEF frame, scope
<1> QED
  BY <1>1, <1>3, <1>4, <1>5, <1>6, OpenScopeStep

\* The next element of a loop by reference opens a scope of its own.
LEMMA NextReferenceItemNested ==
  ASSUME IInv, NextReferenceItem
  PROVE  WellTyped' /\ NestedAfter
<1>1. WellTyped'
  BY NextReferenceItemTyped DEF IInv
<1>2. Top \in Frame /\ FrameOK(Top) /\ frames # <<>> /\ Top.kind = "loop" /\ Top.items # <<>>
  BY TopTyped DEF NextReferenceItem, IInv
<1>3. Top.name \in Name /\ Head(Top.items) \in Value /\ Tail(Top.items) \in Seq(Value)
  BY <1>2, HeadTailProperties DEF FrameOK, Frame
<1> DEFINE scope == [n \in {Top.name} |-> Reference(Head(Top.items), FALSE)]
           top == [Top EXCEPT !.items = Tail(@)]
           walked == [frames EXCEPT ![Len(frames)] = top]
           frame == OpenFrame("block")
<1>4. scope \in Scope /\ scopes' = Append(scopes, scope)
  BY <1>3, PlainTyped, SingleScopeTyped DEF NextReferenceItem
<1>5. top \in Frame /\ top.kind = Top.kind /\ top.depth = Top.depth
        /\ top.checkpoint = Top.checkpoint /\ top.loans = Top.loans
  BY <1>2, <1>3 DEF Frame
<1>6. /\ walked \in Seq(Frame) /\ Len(walked) = Len(frames) /\ Len(frames) \in 1..Len(frames)
      /\ \A k \in 1..Len(frames) : walked[k] = IF k = Len(frames) THEN top ELSE frames[k]
  <2>1. Len(frames) \in 1..Len(frames)
    BY <1>2, StateTyped
  <2> HIDE DEF top
  <2> QED
    BY <1>5, <2>1, ExceptSeq, StateTyped
<1>7. frames' = Append(walked, frame) /\ active' = active
  BY DEF NextReferenceItem, Top
<1> HIDE DEF scope, walked, top
<1>8. SameShape(frames, walked) /\ TopOf(walked) = top
  BY <1>5, <1>6 DEF SameShape, TopOf, Top
<1>9. Nested(scopes, active, walked)
  BY <1>6, <1>8, StateTyped, GrownSame, GrowNested
<1>10. frame \in Frame /\ ~Inert(frame) /\ Opens(scopes, active, walked, frame)
  <2>1. frame \in Frame
    BY PlainFrameOK DEF IInv, WellTyped
  <2>2. TopOf(walked).kind = "loop"
    BY <1>2, <1>5, <1>8
  <2> QED
    BY <2>1, <2>2 DEF OpenFrame, Opens, Inert
<1>11. /\ scopes' \in Seq(Scope) /\ Len(scopes') > Len(scopes) /\ Grown(scopes, scopes')
  BY <1>4, AppendGrown, StateTyped
<1>12. Nested(scopes', active, frames')
  BY <1>6, <1>7, <1>9, <1>10, <1>11, StateTyped, OpenNested
<1>13. Ordered(active, active)
  BY StateTyped, OrderedCases
<1> QED
  BY <1>1, <1>7, <1>12, <1>13 DEF NestedAfter

\* Entering a body opens the scopes of the call and keeps its loans.
LEMMA EnterBodyNested ==
  ASSUME IInv, EnterBody
  PROVE  WellTyped' /\ NestedAfter
<1>1. WellTyped' /\ Len(scopes') > Len(scopes)
  BY EnterBodyTyped DEF IInv
<1>2. Top \in Frame /\ frames # <<>> /\ Top.kind = "bind" /\ active' = active
  BY TopTyped DEF EnterBody, IInv
<1> DEFINE captured == Captures(Top.function)
           outer == IF DOMAIN captured = {} THEN scopes
                    ELSE Append(scopes, [n \in DOMAIN captured |-> Plain(captured[n], FALSE)])
<1>3. PICK inner : scopes' = Append(outer, inner)
  BY DEF EnterBody
<1>4. SetTop([Top EXCEPT !.kind = "call", !.body = Len(outer) + 1])
  BY DEF EnterBody
<1>5. \A i \in 1..Len(scopes) : scopes'[i] = scopes[i]
  <2>1. CASE DOMAIN captured = {}
    BY <1>3, <2>1, StateTyped
  <2>2. CASE DOMAIN captured # {}
    BY <1>3, <2>2, StateTyped
  <2> QED
    BY <2>1, <2>2
<1>6. Grown(scopes, scopes') /\ scopes' \in Seq(Scope) /\ frames' \in Seq(Frame)
  BY <1>1, <1>5, StateTyped DEF Grown, WellTyped, Typed
<1>7. /\ Len(frames') = Len(frames)
      /\ \A k \in 1..Len(frames) :
           /\ frames'[k].kind = IF k = Len(frames) THEN "call" ELSE frames[k].kind
           /\ frames'[k].depth = frames[k].depth /\ frames'[k].checkpoint = frames[k].checkpoint
           /\ frames'[k].loans = frames[k].loans
  <2> DEFINE body == Len(outer) + 1
             frame == [Top EXCEPT !.kind = "call", !.body = body]
  <2>1. /\ frame.kind = "call" /\ frame.depth = Top.depth
        /\ frame.checkpoint = Top.checkpoint /\ frame.loans = Top.loans
    <3> HIDE DEF body
    <3> QED
      BY <1>2 DEF Frame
  <2>2. frames' = [frames EXCEPT ![Len(frames)] = frame]
    BY <1>4 DEF SetTop
  <2> HIDE DEF frame
  <2> QED
    BY <2>1, <2>2, StateTyped DEF Top
<1>8. TopOf(frames).kind = "bind"
  BY <1>2 DEF Top, TopOf
<1>9. Nested(scopes', active, frames')
  BY <1>1, <1>2, <1>6, <1>7, <1>8, StateTyped, StartNested
<1>10. Ordered(active, active)
  BY StateTyped, OrderedCases
<1> QED
  BY <1>1, <1>2, <1>9, <1>10 DEF NestedAfter

\* Local references, made at once or after an expression was evaluated: both
\* append one loan, held in the innermost scope, and may define its name there.
Lends(owner) ==
  /\ \E loan : /\ active' = Append(active, loan) /\ loan.scope = Len(scopes)
               /\ loan.home = BindingScope(owner) /\ loan.owner = owner
  /\ Grown(scopes, scopes') /\ Len(scopes') = Len(scopes)

\* A local loan made while statements run hangs on the current scope.
LEMMA LendsNested ==
  ASSUME IInv, NEW fr \in Seq(Frame), Nested(scopes, active, fr),
         fr # <<>> => ~Inert(TopOf(fr)), WellTyped', NEW owner, Bound(owner), Lends(owner)
  PROVE  Nested(scopes', active', fr) /\ Ordered(active, active')
<1>1. PICK loan : /\ active' = Append(active, loan) /\ loan.scope = Len(scopes)
                  /\ loan.home = BindingScope(owner) /\ loan.owner = owner
  BY DEF Lends
<1>2. active' \in Seq(Loan) /\ scopes' \in Seq(Scope)
  BY DEF WellTyped, Typed
<1>3. loan \in Loan
  <2>1. Len(active') = Len(active) + 1 /\ active'[Len(active) + 1] = loan
    BY <1>1, StateTyped
  <2>2. Len(active) + 1 \in 1..Len(active')
    BY <2>1, StateTyped
  <2> QED
    BY <1>2, <2>1, <2>2, ElementOfSeq
<1>4. loan.home \in 1..Len(scopes) /\ loan.owner \in DOMAIN scopes[loan.home]
  BY <1>1, LookupTyped DEF IInv, WellTyped
<1>5. Nested(scopes, active', fr)
  BY <1>1, <1>3, <1>4, StateTyped, LendNested
<1>6. Nested(scopes', active', fr)
  BY <1>2, <1>5, StateTyped, ShapeSame, GrowNested DEF Lends
<1> QED
  BY <1>1, <1>3, <1>6, StateTyped, OrderedCases

\* A reference with a literal path keeps the nesting.
LEMMA BorrowNested ==
  ASSUME IInv, NEW n \in Name, NEW mutable \in BOOLEAN, NEW owner,
         NEW chain \in Chains(Lookup(owner).val), Borrow(n, mutable, owner, chain)
  PROVE  WellTyped' /\ NestedAfter
<1>1. WellTyped'
  BY BorrowTyped DEF IInv
<1>2. InStatement /\ Bound(owner) /\ frames' = frames
  BY DEF Borrow
<1>3. Lends(owner)
  <2>1. \E loan : /\ active' = Append(active, loan) /\ loan.scope = Len(scopes)
                 /\ loan.home = BindingScope(owner) /\ loan.owner = owner
    BY DEF Borrow, MakeReference, ScopedLoan, Current
  <2>2. Grown(scopes, scopes') /\ Len(scopes') = Len(scopes)
    BY DefineGrown, GrownSame, StateTyped DEF Borrow, MakeReference
  <2> QED
    BY <2>1, <2>2 DEF Lends
<1>4. Nested(scopes', active', frames) /\ Ordered(active, active')
  BY <1>1, <1>2, <1>3, StateTyped, StatementTop, LendsNested
<1> QED
  BY <1>1, <1>2, <1>4 DEF NestedAfter

\* A reference whose path had calls keeps the nesting.
LEMMA FinishBorrowNested ==
  ASSUME IInv, Evaluating, Top.args # <<>>, Top.items # <<>>,
         NEW chain \in Chains(Top.args[1].val), FinishBorrow(chain)
  PROVE  WellTyped' /\ NestedAfter
<1>1. WellTyped'
  BY FinishBorrowTyped DEF IInv
<1> DEFINE fr == SubSeq(frames, 1, Len(frames) - 1)
           owner == Top.args[1].source
<1>2. frames' = fr /\ Bound(owner)
  BY DEF FinishBorrow, PopFrame
<1>3. Lends(owner)
  <2>1. \E loan : /\ active' = Append(active, loan) /\ loan.scope = Len(scopes)
                 /\ loan.home = BindingScope(owner) /\ loan.owner = owner
    <3>1. \E locations, mode, path :
            active' = Append(active, ScopedLoan(locations, mode, Top.name, owner, path, Current,
                                                "None", BindingScope(owner)))
      BY Zenon DEF FinishBorrow, MakeReference
    <3> HIDE DEF owner
    <3> QED
      BY <3>1 DEF ScopedLoan, Current
  <2>2. Grown(scopes, scopes') /\ Len(scopes') = Len(scopes)
    BY DefineGrown, GrownSame, StateTyped DEF FinishBorrow, MakeReference
  <2> QED
    BY <2>1, <2>2 DEF Lends
<1>4. /\ fr \in Seq(Frame) /\ Nested(scopes, active, fr)
      /\ fr # <<>> => ~Inert(TopOf(fr))
  BY EvalHoldsNothing
<1> HIDE DEF fr, owner
<1>5. Nested(scopes', active', fr) /\ Ordered(active, active')
  BY <1>1, <1>2, <1>3, <1>4, LendsNested
<1> QED
  BY <1>1, <1>2, <1>5 DEF NestedAfter

\* Writes end the evaluation that they began with.
LEMMA FinishWriteStep ==
  ASSUME IInv, Evaluating, WellTyped', PopFrame, active' = active,
         Grown(scopes, scopes'), Len(scopes') = Len(scopes)
  PROVE  NestedAfter
<1> DEFINE fr == SubSeq(frames, 1, Len(frames) - 1)
<1>1. frames' = fr /\ fr \in Seq(Frame) /\ Nested(scopes, active, fr)
  BY EvalHoldsNothing DEF PopFrame
<1>2. scopes' \in Seq(Scope)
  BY DEF WellTyped, Typed
<1> HIDE DEF fr
<1>3. Nested(scopes', active, fr)
  BY <1>1, <1>2, StateTyped, ShapeSame, GrowNested
<1>4. Ordered(active, active)
  BY StateTyped, OrderedCases
<1> QED
  BY <1>1, <1>3, <1>4 DEF NestedAfter

\* An assignment keeps the names of every scope.
LEMMA AssignedGrown ==
  ASSUME IInv, NEW n, Bound(n), NEW value \in Value
  PROVE  Grown(scopes, Assigned(n, value)) /\ Len(Assigned(n, value)) = Len(scopes)
BY AssignedTyped, StateTyped DEF Grown, IInv, WellTyped

\* A reassignment and a write through a reference keep the nesting.
LEMMA FinishAssignNested ==
  ASSUME IInv, NEW value, FinishReassign(value) \/ FinishWriteThrough(value)
  PROVE  WellTyped' /\ NestedAfter
<1>1. WellTyped'
  BY FinishReassignTyped, FinishWriteThroughTyped DEF IInv
<1>2. value \in Value
  BY ReadableTyped DEF FinishReassign, FinishWriteThrough, IInv, WellTyped
<1>3. /\ Evaluating /\ PopFrame /\ active' = active
      /\ Bound(Top.name) /\ scopes' = Assigned(Top.name, value)
  BY DEF FinishReassign, FinishWriteThrough
<1> QED
  BY <1>1, <1>2, <1>3, AssignedGrown, FinishWriteStep

\* A mutation keeps the nesting.
LEMMA FinishMutationNested ==
  ASSUME IInv, WellTyped', NEW op, NEW contents, FinishMutation(op, contents)
  PROVE  NestedAfter
<1>1. Evaluating /\ PopFrame /\ active' = active /\ scopes' = scopes
  BY DEF FinishMutation
<1> QED
  BY <1>1, GrownSame, StateTyped, FinishWriteStep

\* The end of a construct: what is retained of the loans is what the
\* construct began with.
LEMMA RetainedIsPrefix ==
  ASSUME IInv, frames # <<>>
  PROVE  /\ Top.depth \in 1..Len(scopes) /\ Top.checkpoint \in 0..Len(active)
         /\ Top.kind \notin {"bind", "call"} =>
              Retained(Top.depth) = SubSeq(active, 1, Top.checkpoint)
         /\ SubSeq(Retained(Top.depth), 1, Top.checkpoint) = SubSeq(active, 1, Top.checkpoint)
<1> DEFINE n == Len(frames)
           m == Len(active)
           d == frames[n].depth
           c == frames[n].checkpoint
           kept == {i \in DOMAIN active : active[i].scope <= d}
<1>1. /\ Len(scopes) \in Nat /\ m \in Nat /\ n \in Nat /\ n # 0
      /\ \A i \in 1..m : active[i].scope \in Nat /\ active[i].home \in Nat
      /\ \A k \in 1..n : frames[k].depth \in Nat /\ frames[k].checkpoint \in Nat
  BY StateTyped, SequenceTypes
<1>2. Top = frames[n] /\ n \in 1..n /\ DOMAIN active = 1..m
  BY <1>1, StateTyped DEF Top
<1>3. d \in 1..Len(scopes) /\ c \in 0..m /\ c \in Nat
  <2>1. FrameNests(scopes, active, frames, n)
    BY <1>2, StateTyped DEF Nested
  <2> QED
    BY <1>1, <1>2, <2>1 DEF FrameNests
<1>4. \A i \in 1..m : LoanSplit(active, frames, n, i)
  BY <1>2, StateTyped DEF Nested
<1>5. 1..c \subseteq kept
  <2>1. ASSUME NEW i \in 1..c PROVE i \in kept
    <3>1. i \in 1..m /\ i <= c
      BY <1>1, <1>3
    <3> QED
      BY <1>2, <1>4, <3>1 DEF LoanSplit
  <2> QED
    BY <2>1
<1>6. ASSUME Top.kind \notin {"bind", "call"} PROVE kept = 1..c
  <2>1. ASSUME NEW i \in kept PROVE i \in 1..c
    <3>1. i \in 1..m /\ active[i].scope <= d /\ active[i].scope \in Nat
      BY <1>1, <1>2
    <3>2. ~HeldByCall(frames, n, i)
      <4>1. \A j \in n..Len(frames) : j = n
        BY <1>1
      <4> QED
        BY <1>2, <1>6, <4>1 DEF HeldByCall
    <3>3. ~(i > c)
      BY <1>1, <1>2, <1>4, <3>1, <3>2 DEF LoanSplit
    <3> QED
      BY <1>3, <3>1, <3>3
  <2> QED
    BY <1>5, <2>1
<1>7. Retained(Top.depth) = Filtered(active, kept)
  BY <1>2 DEF Retained
<1>8. kept \in SUBSET (1..m)
  BY <1>2
<1> HIDE DEF kept
<1>9. /\ c <= Len(Filtered(active, kept))
      /\ \A j \in 1..c : Filtered(active, kept)[j] = active[j]
      /\ kept = 1..c => Filtered(active, kept) = SubSeq(active, 1, c)
  BY <1>3, <1>5, <1>8, StateTyped, FilteredPrefix
<1>10. SubSeq(Filtered(active, kept), 1, c) = SubSeq(active, 1, c)
  BY <1>3, <1>9 DEF SubSeq
<1> QED
  BY <1>2, <1>3, <1>6, <1>7, <1>9, <1>10

\* A construct that ends gives its scopes and loans back.
LEMMA CloseStep ==
  ASSUME IInv, frames # <<>>, PopFrame, UNCHANGED heap,
         scopes' = SubSeq(scopes, 1, Top.depth), active' = SubSeq(active, 1, Top.checkpoint)
  PROVE  WellTyped' /\ NestedAfter
<1>1. Top.depth \in 1..Len(scopes) /\ Top.checkpoint \in 0..Len(active)
  BY RetainedIsPrefix
<1>2. scopes' \in Seq(Scope) /\ Len(scopes') = Top.depth
  <2>1. Top.depth \in 0..Len(scopes)
    BY <1>1, StateTyped
  <2> QED
    BY <2>1, StateTyped, PrefixIs
<1>3. scopes' # <<>>
  BY <1>1, <1>2
<1>4. active' \in Seq(Loan)
  BY <1>1, StateTyped, PrefixIs
<1>5. frames' \in Seq(Frame) /\ \A k \in DOMAIN frames' : FrameOK(frames'[k])
  BY PopTyped DEF IInv
<1>6. WellTyped'
  BY <1>2, <1>3, <1>4, <1>5, SameScopesTyped DEF IInv, WellTyped, Typed
<1>7. Nested(scopes', active', frames')
  BY StateTyped, CloseNested DEF TopOf, Top, PopFrame
<1>8. Ordered(active, active')
  BY <1>1, StateTyped, OrderedCases
<1> QED
  BY <1>6, <1>7, <1>8 DEF NestedAfter

\* The end of a construct ends its loans and no other's.
LEMMA LeaveNested ==
  ASSUME IInv, Leave
  PROVE  WellTyped' /\ NestedAfter
<1>1. frames # <<>> /\ Top.kind # "bind" /\ PopFrame /\ UNCHANGED heap
        /\ scopes' = SubSeq(scopes, 1, Top.depth)
  BY DEF Leave, PoppedScopes
<1>2. active' = SubSeq(active, 1, Top.checkpoint)
  BY <1>1, RetainedIsPrefix DEF Leave
<1> QED
  BY <1>1, <1>2, CloseStep

\* A refused parameter ends the loans of the call it was for and no other's.
LEMMA RejectNested ==
  ASSUME IInv, RejectReferenceParameter
  PROVE  WellTyped' /\ NestedAfter
<1>1. frames # <<>> /\ Top.kind = "bind" /\ PopFrame /\ UNCHANGED heap /\ scopes' = scopes
        /\ active' = SubSeq(active, 1, Top.checkpoint)
  BY DEF RejectReferenceParameter, BindingParameter
<1>2. Top.depth = Len(scopes)
  <2>1. Len(frames) \in 1..Len(frames)
    BY <1>1, StateTyped
  <2>2. FrameNests(scopes, active, frames, Len(frames))
    BY <2>1, StateTyped DEF Nested
  <2> QED
    BY <1>1, <2>2 DEF FrameNests, ScopesAbove, Inert, Top
<1>3. scopes = SubSeq(scopes, 1, Top.depth)
  <2>1. Len(scopes) \in 0..Len(scopes)
    BY StateTyped
  <2> QED
    BY <1>2, <2>1, StateTyped, PrefixIs, SeqEqual
<1> QED
  BY <1>1, <1>3, CloseStep

-----------------------------------------------------------------------------
(* The invariant is inductive.                                               *)

\* The invariant holds before the program starts.
LEMMA InitInv == Init => IInv
<1> SUFFICES ASSUME Init PROVE IInv
  OBVIOUS
<1>1. WellTyped
  BY InitTyped
<1>2. Len(active) = 0 /\ Len(frames) = 0
  BY DEF Init
<1>3. Nested(scopes, active, frames)
  BY <1>2 DEF Nested
<1> QED
  BY <1>1, <1>3 DEF IInv

\* Every step of a reference declaration keeps the invariant's parts.
LEMMA ReferencesStep ==
  ASSUME IInv, References
  PROVE  WellTyped' /\ NestedAfter
<1>1. ASSUME NEW n \in Name, NEW owner \in Name, NEW mutable \in BOOLEAN,
             \/ Bound(owner) /\ \E chain \in Chains(Lookup(owner).val) : Borrow(n, mutable, owner, chain)
             \/ BeginBorrow(n, mutable, owner)
      PROVE  WellTyped' /\ NestedAfter
  BY <1>1, BorrowNested, BeginBorrowNested
<1>2. ASSUME Evaluating, Top.args # <<>>, Top.items # <<>>,
             ReadSegment \/ \E chain \in Chains(Top.args[1].val) : FinishBorrow(chain)
      PROVE  WellTyped' /\ NestedAfter
  BY <1>2, ReadSegmentNested, FinishBorrowNested
<1> QED
  BY <1>1, <1>2 DEF References

\* Every step of a writing statement does.
LEMMA WritesStep ==
  ASSUME IInv, Writes
  PROVE  WellTyped' /\ NestedAfter
<1>1. ASSUME NEW n \in Name,
             \/ BeginReassign(n)
             \/ BeginWriteThrough(n)
             \/ \E op \in {"set", "add", "remove"} : BeginMutation(op, n)
      PROVE  WellTyped' /\ NestedAfter
  BY <1>1, BeginWriteNested
<1>2. ASSUME NEW value, FinishReassign(value) \/ FinishWriteThrough(value)
      PROVE  WellTyped' /\ NestedAfter
  BY <1>2, FinishAssignNested
<1>3. ASSUME NEW chain, NEW value, FinishSetIndex(chain, value)
      PROVE  WellTyped' /\ NestedAfter
  <2>1. WellTyped' /\ \E op, contents : FinishMutation(op, contents)
    BY <1>3, FinishSetIndexTyped DEF FinishSetIndex, IInv
  <2> QED
    BY <2>1, FinishMutationNested
<1>4. ASSUME NEW chain, NEW value, NEW key \in Key, FinishInsert(chain, key, value)
      PROVE  WellTyped' /\ NestedAfter
  <2>1. WellTyped' /\ \E op, contents : FinishMutation(op, contents)
    BY <1>4, FinishInsertTyped DEF FinishInsert, IInv
  <2> QED
    BY <2>1, FinishMutationNested
<1>5. ASSUME NEW value, FinishAdd(value)
      PROVE  WellTyped' /\ NestedAfter
  <2>1. WellTyped' /\ \E op, contents : FinishMutation(op, contents)
    BY <1>5, FinishAddTyped DEF FinishAdd, IInv
  <2> QED
    BY <2>1, FinishMutationNested
<1>6. ASSUME NEW slot, FinishRemove(slot)
      PROVE  WellTyped' /\ NestedAfter
  <2>1. WellTyped' /\ \E op, contents : FinishMutation(op, contents)
    BY <1>6, FinishRemoveTyped DEF FinishRemove, IInv
  <2> QED
    BY <2>1, FinishMutationNested
<1>7. ASSUME NEW values, DestructureReassign(values)
      PROVE  WellTyped' /\ NestedAfter
  BY <1>7, DestructureNested
<1> QED
  BY <1>1, <1>2, <1>3, <1>4, <1>5, <1>6, <1>7 DEF Writes

\* Every step of a call does.
LEMMA CallsStep ==
  ASSUME IInv, Calls
  PROVE  WellTyped' /\ NestedAfter
BY CallNested, DispatchNested, BindParameterNested, RejectNested, EnterBodyNested DEF Calls

\* Every step of a loop or match does.
LEMMA LoopsStep ==
  ASSUME IInv, Loops
  PROVE  WellTyped' /\ NestedAfter
BY OpenSharedNested, BeginForNested, NextReferenceItemNested, NextItemNested DEF Loops

\* A step that changes nothing does.
LEMMA StutterStep ==
  ASSUME IInv, UNCHANGED vars
  PROVE  WellTyped' /\ NestedAfter
<1>1. WellTyped'
  BY DEF IInv, WellTyped, Typed, vars
<1>2. Ordered(active, active)
  BY StateTyped, OrderedCases
<1> QED
  BY <1>1, <1>2, StateTyped DEF NestedAfter, vars

\* The invariant is inductive, and every step respects the order of the loans.
LEMMA StepInv ==
  ASSUME IInv, [Next]_vars
  PROVE  IInv' /\ Ordered(active, active')
<1>1. WellTyped' /\ NestedAfter
  <2>1. CASE EnterBlock
    BY <2>1, EnterBlockNested
  <2>2. CASE Leave
    BY <2>2, LeaveNested
  <2>3. CASE \E n \in Name, mutable \in BOOLEAN, value \in Readable : Declare(n, mutable, value)
    BY <2>3, DeclareNested
  <2>4. CASE References
    BY <2>4, ReferencesStep
  <2>5. CASE Writes
    BY <2>5, WritesStep
  <2>6. CASE Calls
    BY <2>6, CallsStep
  <2>7. CASE Loops
    BY <2>7, LoopsStep
  <2>8. CASE UNCHANGED vars
    BY <2>8, StutterStep
  <2> QED
    BY <2>1, <2>2, <2>3, <2>4, <2>5, <2>6, <2>7, <2>8 DEF Next
<1> QED
  BY <1>1 DEF IInv, NestedAfter

\* In every program, loans and constructs nest in every reachable state.
THEOREM LoansNest == Spec => []IInv
<1>1. Init => IInv
  BY InitInv
<1>2. IInv /\ [Next]_vars => IInv'
  BY StepInv
<1> QED
  BY <1>1, <1>2, PTL DEF Spec

-----------------------------------------------------------------------------
(* What follows from it.                                                     *)

\* The state always has the types of the interpreter's structures.
THEOREM TypesHold == Spec => []TypeOK
<1>1. IInv => TypeOK
  BY TypedImpliesTypeOK DEF IInv, WellTyped
<1> QED
  BY <1>1, LoansNest, PTL

\* However calls end, errors included, every open construct still has exactly
\* the loans it began with below its checkpoint (CallsPreserveLoans).
THEOREM CallsKeepLoans == Spec => []CallsPreserveLoans
<1>1. ASSUME IInv PROVE CallsPreserveLoans
  <2> SUFFICES ASSUME NEW k \in DOMAIN frames
               PROVE  /\ frames[k].checkpoint <= Len(active)
                      /\ SubSeq(active, 1, frames[k].checkpoint) = frames[k].loans
    BY DEF CallsPreserveLoans
  <2>1. k \in 1..Len(frames) /\ frames[k] \in Frame
    BY <1>1, StateTyped
  <2>2. frames[k].checkpoint \in Nat /\ frames[k].loans \in Seq(Loan)
    BY <2>1 DEF Frame
  <2>3. FrameNests(scopes, active, frames, k) /\ LoansKept(active, frames, k)
    BY <1>1, <2>1, StateTyped DEF Nested
  <2>4. frames[k].checkpoint \in 0..Len(active)
    BY <1>1, <2>2, <2>3, StateTyped DEF FrameNests
  <2>5. SubSeq(active, 1, frames[k].checkpoint) = frames[k].loans
    <3>1. /\ SubSeq(active, 1, frames[k].checkpoint) \in Seq(Loan)
          /\ Len(SubSeq(active, 1, frames[k].checkpoint)) = frames[k].checkpoint
          /\ \A i \in 1..frames[k].checkpoint :
               SubSeq(active, 1, frames[k].checkpoint)[i] = active[i]
      BY <1>1, <2>4, StateTyped, PrefixIs
    <3> QED
      BY <2>2, <2>3, <3>1, SeqEqual DEF LoansKept
  <2> QED
    BY <2>4, <2>5
<1> QED
  BY <1>1, LoansNest, PTL

\* No loan outlives the scope, the owner or the call it hangs on.
THEOREM NoLoanDangles == Spec => []NoDanglingLoan
<1>1. ASSUME IInv PROVE NoDanglingLoan
  <2>1. \A i \in DOMAIN active : i \in 1..Len(active) /\ active[i].scope \in Nat /\ active[i].home \in Nat
    BY <1>1, StateTyped, SequenceTypes
  <2>2. \A i \in DOMAIN active : LoanHeld(scopes, active, frames, i)
    BY <1>1, <2>1, StateTyped DEF Nested
  <2>3. DOMAIN frames = 1..Len(frames)
    BY <1>1, StateTyped
  <2> QED
    BY <2>1, <2>2, <2>3 DEF NoDanglingLoan, LoanHeld, HeldByCall
<1> QED
  BY <1>1, LoansNest, PTL

\* No step takes a loan out of the middle of the stack (ReleasedInOrder).
THEOREM LoansEndInOrder == Spec => ReleasedInOrder
<1>1. IInv /\ [Next]_vars => [IsPrefixOf(active, active') \/ IsPrefixOf(active', active)]_vars
  BY StepInv DEF Ordered
<1> QED
  BY <1>1, LoansNest, PTL DEF Spec, ReleasedInOrder
=============================================================================
