--------------------------- MODULE BorrowingProofs ---------------------------
(* Machine-checked proofs about the loans of module Borrowing.               *)
EXTENDS Borrowing, FiniteSetTheorems, SequenceTheorems, WellFoundedInduction, TLAPS

-----------------------------------------------------------------------------
(* Facts about the operators.                                                *)

\* The largest element of a bounded set of positions is one of them.
LEMMA HighestIn ==
  ASSUME NEW m \in Nat, NEW P \in SUBSET (1..m), P # {}
  PROVE  /\ Highest(P) \in P
         /\ \A j \in P : j <= Highest(P)
<1> DEFINE T == {m - i : i \in P}
<1>1. T \subseteq Nat /\ T # {}
  <2>1. PICK i \in P : TRUE
    OBVIOUS
  <2>2. m - i \in T
    OBVIOUS
  <2>3. \A j \in P : m - j \in Nat
    OBVIOUS
  <2> QED
    BY <2>2, <2>3
<1>2. PICK x \in T : \A y \in T : ~(<<y, x>> \in OpToRel(<, Nat))
  BY <1>1, NatLessThanWellFounded, WFMin
<1>3. \A y \in T : ~(y < x)
  <2>1. \A y \in T : y < x => <<y, x>> \in OpToRel(<, Nat)
    BY <1>1 DEF OpToRel
  <2> QED
    BY <1>2, <2>1
<1>4. PICK i \in P : x = m - i
  BY <1>2
<1>5. \A j \in P : j <= i
  <2> SUFFICES ASSUME NEW j \in P PROVE j <= i
    OBVIOUS
  <2>1. m - j \in T
    OBVIOUS
  <2>2. ~(m - j < x)
    BY <1>3, <2>1
  <2> QED
    BY <1>4, <2>2
<1> QED
  BY <1>4, <1>5 DEF Highest

-----------------------------------------------------------------------------
(* The types of the state.                                                   *)

Scope == UNION {[names -> Binding] : names \in SUBSET Name}

Typed ==
  /\ scopes \in Seq(Scope) /\ scopes # <<>>
  /\ active \in Seq(Loan)
  /\ HeapOK(heap)
  /\ frames \in Seq(Frame)

\* A set-valued form of ScopeOK, which sequences of scopes are typed with.
LEMMA ScopeIsScopeOK ==
  ASSUME NEW scope
  PROVE  scope \in Scope <=> ScopeOK(scope)
BY DEF Scope, ScopeOK

\* The strengthened typing gives the type invariant.
LEMMA TypedImpliesTypeOK == Typed => TypeOK
BY ScopeIsScopeOK DEF Typed, TypeOK

\* A visible name is bound in the scope where it is found.
LEMMA LookupTyped ==
  ASSUME Typed, NEW n, Bound(n)
  PROVE  /\ BindingScope(n) \in 1..Len(scopes)
         /\ n \in DOMAIN scopes[BindingScope(n)] /\ n \in Name
         /\ Lookup(n) \in Binding /\ Lookup(n).val \in Value
<1>1. Len(scopes) \in Nat
  BY DEF Typed
<1>2. Visible(n) \in SUBSET (1..Len(scopes)) /\ Visible(n) # {}
  BY DEF Visible, Bound
<1>3. BindingScope(n) \in Visible(n)
  BY <1>1, <1>2, HighestIn DEF BindingScope
<1>4. BindingScope(n) \in 1..Len(scopes) /\ n \in DOMAIN scopes[BindingScope(n)]
  BY <1>3 DEF Visible
<1>5. scopes[BindingScope(n)] \in Scope
  BY <1>4 DEF Typed
<1>6. n \in Name /\ scopes[BindingScope(n)][n] \in Binding
  BY <1>4, <1>5 DEF Scope
<1> QED
  BY <1>4, <1>6 DEF Lookup, Binding

\* What an object holds is a value, and its slots make segments of a path.
LEMMA ContentsTyped ==
  ASSUME HeapOK(heap), NEW id \in Object, NEW s \in DOMAIN heap[id]
  PROVE  heap[id][s] \in Value /\ <<KindOf(id), s>> \in Segment
<1>1. CASE id \in List
  <2>1. PICK n \in 0..MaxList : heap[id] \in [1..n -> Value]
    BY <1>1 DEF HeapOK
  <2>2. s \in 1..MaxList /\ heap[id][s] \in Value
    BY <2>1, BoundsAssumption
  <2>3. KindOf(id) = "Index"
    BY <1>1 DEF KindOf
  <2> QED
    BY <2>2, <2>3, ValuesAssumption
<1>2. CASE id \in Hash
  <2>1. PICK keys \in SUBSET Key : heap[id] \in [keys -> Value]
    BY <1>2 DEF HeapOK
  <2>2. KindOf(id) = "Key"
    BY <1>2, ValuesAssumption DEF KindOf
  <2> QED
    BY <2>1, <2>2, ValuesAssumption
<1>3. CASE id \in Struct
  <2>1. PICK fields \in SUBSET Name : heap[id] \in [fields -> Value]
    BY <1>3 DEF HeapOK
  <2>2. KindOf(id) = "Field"
    BY <1>3, ValuesAssumption DEF KindOf, Collection
  <2> QED
    BY <2>1, <2>2, ValuesAssumption
<1> QED
  BY <1>1, <1>2, <1>3 DEF Object, Collection

\* Expressions over visible bindings yield values.
LEMMA ReadableTyped ==
  ASSUME Typed
  PROVE  Readable \subseteq Value /\ VisibleValues \subseteq Value
<1>1. VisibleValues \subseteq Value
  BY LookupTyped DEF VisibleValues
<1>2. \A v : Contents(v) \subseteq Value
  BY ContentsTyped DEF Contents, Typed
<1>3. Fresh \subseteq Value
  BY DEF Fresh, Value, Object
<1>4. UNION {Contents(v) : v \in VisibleValues} \subseteq Value
  BY <1>2
<1> QED
  BY <1>1, <1>3, <1>4 DEF Readable, Value

\* Only objects are reachable.
LEMMA ReachableTyped == \A values : Reachable(values) \subseteq Object
BY DEF Reachable

\* The slots of a chain are there: each container is an object that has it.
LEMMA LinkTyped ==
  ASSUME Typed, NEW value, NEW chain \in Chains(value), NEW i \in 1..Len(chain)
  PROVE  /\ chain[i].container \in Object
         /\ chain[i].slot \in DOMAIN heap[chain[i].container]
         /\ heap[chain[i].container][chain[i].slot] \in Value
         /\ <<KindOf(chain[i].container), chain[i].slot>> \in Segment
<1>1. PICK m \in 0..MaxPath : chain \in [1..m -> Links]
  BY DEF Chains
<1>2. chain[i] \in Links
  BY <1>1, BoundsAssumption
<1>3. chain[i].container \in Object /\ chain[i].slot \in DOMAIN heap[chain[i].container]
  BY <1>2 DEF Links
<1> QED
  BY <1>3, ContentsTyped DEF Typed

\* A chain below a value crosses objects and ends at a value, and its segments
\* are segments of locations, whatever value was read at its end.
LEMMA ChainTyped ==
  ASSUME Typed, NEW value \in Value, NEW chain \in Chains(value)
  PROVE  /\ chain \in Seq(Links)
         /\ Tip(value, chain) \in Value
         /\ \A i \in 1..Len(chain) : PathFrom(chain, i) \in Seq(Segment)
         /\ PathFrom(chain, 1) \in Seq(Segment)
         /\ \A tip : ChainLocations(chain, tip) \in SUBSET Location
<1>1. PICK m \in 0..MaxPath : chain \in [1..m -> Links]
  BY DEF Chains
<1>2. chain \in Seq(Links) /\ Len(chain) = m /\ m \in Nat
  BY <1>1, BoundsAssumption
<1>3. \A i \in 1..Len(chain) :
        /\ chain[i].container \in Object /\ chain[i].slot \in DOMAIN heap[chain[i].container]
        /\ heap[chain[i].container][chain[i].slot] \in Value
        /\ <<KindOf(chain[i].container), chain[i].slot>> \in Segment
  BY LinkTyped
<1>4. Tip(value, chain) \in Value
  <2>1. chain # <<>> => Len(chain) \in 1..Len(chain)
    BY <1>2
  <2> QED
    BY <2>1, <1>3 DEF Tip
<1>5. ASSUME NEW i \in 1..(Len(chain) + 1)
      PROVE  PathFrom(chain, i) \in Seq(Segment)
  <2>1. Len(chain) + 1 - i \in Nat
    BY <1>2
  <2>2. \A j \in 1..(Len(chain) + 1 - i) :
          /\ i + j - 1 \in 1..Len(chain)
          /\ <<KindOf(chain[i + j - 1].container), chain[i + j - 1].slot>> \in Segment
    BY <1>2, <1>3
  <2> QED
    BY <2>1, <2>2 DEF PathFrom
<1>6. PathFrom(chain, 1) \in Seq(Segment)
  BY <1>2, <1>5
<1>7. ASSUME NEW tip
      PROVE  ChainLocations(chain, tip) \in SUBSET Location
  <2>1. \A i \in DOMAIN chain :
          [identity |-> chain[i].container, path |-> PathFrom(chain, i)] \in Location
    <3> SUFFICES ASSUME NEW i \in 1..Len(chain)
                 PROVE  [identity |-> chain[i].container, path |-> PathFrom(chain, i)] \in Location
      BY <1>2
    <3>1. chain[i].container \in Identity
      BY <1>3, ValuesAssumption
    <3>2. i \in 1..(Len(chain) + 1)
      BY <1>2
    <3>3. PathFrom(chain, i) \in Seq(Segment)
      BY <1>5, <3>2
    <3> QED
      BY <3>1, <3>3 DEF Location
  <2>2. tip \in Object => Whole(tip) \in Location
    BY ValuesAssumption DEF Location, Whole
  <2> QED
    BY <2>1, <2>2 DEF ChainLocations
<1> QED
  BY <1>2, <1>4, <1>5, <1>6, <1>7

\* Replacing one value of a function keeps it in its function set.
LEMMA ExceptTyped ==
  ASSUME NEW D, NEW R, NEW f \in [D -> R], NEW s, NEW v \in R
  PROVE  [f EXCEPT ![s] = v] \in [D -> R]
OBVIOUS

\* Writing a value into a slot that exists keeps the contents well formed.
LEMMA WriteTyped ==
  ASSUME NEW contents, HeapOK(contents), NEW id, NEW s, NEW value \in Value
  PROVE  HeapOK([contents EXCEPT ![id][s] = value])
<1> DEFINE after == [contents EXCEPT ![id][s] = value]
<1>1. after = [o \in Object |-> after[o]]
  BY DEF HeapOK
<1>2. \A o \in Object :
        /\ DOMAIN after[o] = DOMAIN contents[o] \/ after[o] = contents[o]
        /\ after[o] = IF o = id THEN [contents[o] EXCEPT ![s] = value] ELSE contents[o]
  BY DEF HeapOK
<1>3. ASSUME NEW o \in List
      PROVE  after[o] \in UNION {[1..n -> Value] : n \in 0..MaxList}
  <2>1. PICK n \in 0..MaxList : contents[o] \in [1..n -> Value]
    BY DEF HeapOK
  <2>2. [contents[o] EXCEPT ![s] = value] \in [1..n -> Value]
    BY <2>1, ExceptTyped
  <2>3. after[o] \in [1..n -> Value]
    BY <1>2, <2>1, <2>2 DEF Object, Collection
  <2> QED
    BY <2>3
<1>4. ASSUME NEW o \in Hash
      PROVE  after[o] \in UNION {[keys -> Value] : keys \in SUBSET Key}
  <2>1. PICK keys \in SUBSET Key : contents[o] \in [keys -> Value]
    BY DEF HeapOK
  <2>2. [contents[o] EXCEPT ![s] = value] \in [keys -> Value]
    BY <2>1, ExceptTyped
  <2>3. after[o] \in [keys -> Value]
    BY <1>2, <2>1, <2>2 DEF Object, Collection
  <2> QED
    BY <2>3
<1>5. ASSUME NEW o \in Struct
      PROVE  after[o] \in UNION {[fields -> Value] : fields \in SUBSET Name}
  <2>1. PICK fields \in SUBSET Name : contents[o] \in [fields -> Value]
    BY DEF HeapOK
  <2>2. [contents[o] EXCEPT ![s] = value] \in [fields -> Value]
    BY <2>1, ExceptTyped
  <2>3. after[o] \in [fields -> Value]
    BY <1>2, <2>1, <2>2 DEF Object
  <2> QED
    BY <2>3
<1> QED
  BY <1>1, <1>3, <1>4, <1>5 DEF HeapOK

\* Saving a message's field keeps the contents of every object well typed.
LEMMA PersistedTyped ==
  ASSUME NEW contents, HeapOK(contents), NEW n, NEW value \in Value
  PROVE  HeapOK(Persisted(contents, n, value))
BY WriteTyped DEF Persisted

-----------------------------------------------------------------------------
(* The types after each action.                                              *)

\* What each kind of frame carries.
FrameOK(frame) ==
  /\ frame.kind \in {"eval", "loop", "each"} => frame.name \in Name
  /\ frame.kind \in {"bind", "call"} =>
       /\ frame.function \in Function
       /\ Len(frame.args) = Len(Signature[frame.function].params)

WellTyped ==
  /\ Typed
  /\ \A k \in DOMAIN frames : FrameOK(frames[k])

\* A new construct records the scopes and loans of its moment.
LEMMA OpenFrameTyped ==
  ASSUME Typed, NEW kind \in FrameKind
  PROVE  OpenFrame(kind) \in Frame
<1>1. Len(scopes) \in Nat /\ Len(active) \in Nat /\ active \in Seq(Loan)
  BY DEF Typed
<1>2. <<>> \in Seq(Value) /\ <<>> \in Seq(Segment) /\ <<>> \in Seq(Argument)
  OBVIOUS
<1> QED
  BY <1>1, <1>2 DEF OpenFrame, Frame, Operation

\* Pushing, popping and replacing frames.
LEMMA PushTyped ==
  ASSUME WellTyped, NEW frame \in Frame, FrameOK(frame), PushFrame(frame)
  PROVE  frames' \in Seq(Frame) /\ \A k \in DOMAIN frames' : FrameOK(frames'[k])
<1>1. /\ frames' \in Seq(Frame) /\ Len(frames') = Len(frames) + 1
      /\ \A k \in 1..Len(frames) : frames'[k] = frames[k]
      /\ frames'[Len(frames) + 1] = frame
  BY AppendProperties DEF PushFrame, WellTyped, Typed
<1>2. DOMAIN frames' = 1..(Len(frames) + 1) /\ DOMAIN frames = 1..Len(frames) /\ Len(frames) \in Nat
  BY <1>1 DEF WellTyped, Typed
<1>3. \A k \in DOMAIN frames' : FrameOK(frames'[k])
  <2> SUFFICES ASSUME NEW k \in 1..(Len(frames) + 1) PROVE FrameOK(frames'[k])
    BY <1>2
  <2>1. CASE k = Len(frames) + 1
    BY <2>1, <1>1
  <2>2. CASE k \in 1..Len(frames)
    BY <2>2, <1>1, <1>2 DEF WellTyped
  <2> QED
    BY <2>1, <2>2, <1>2
<1> QED
  BY <1>1, <1>3

\* Closing the innermost construct leaves the outer ones well typed.
LEMMA PopTyped ==
  ASSUME WellTyped, frames # <<>>, PopFrame
  PROVE  frames' \in Seq(Frame) /\ \A k \in DOMAIN frames' : FrameOK(frames'[k])
<1>1. /\ Len(frames) \in Nat /\ Len(frames) > 0 /\ DOMAIN frames = 1..Len(frames)
      /\ \A k \in 1..(Len(frames) - 1) : frames[k] \in Frame
  BY DEF WellTyped, Typed
<1>2. /\ frames' \in Seq(Frame) /\ Len(frames') = Len(frames) - 1
      /\ \A k \in 1..(Len(frames) - 1) : frames'[k] = frames[k]
  BY <1>1, SubSeqProperties DEF PopFrame
<1>3. DOMAIN frames' = 1..(Len(frames) - 1)
  BY <1>2
<1> QED
  BY <1>1, <1>2, <1>3 DEF WellTyped

\* Replacing the innermost construct keeps the stack well typed.
LEMMA SetTopTyped ==
  ASSUME WellTyped, frames # <<>>, NEW frame \in Frame, FrameOK(frame), SetTop(frame)
  PROVE  frames' \in Seq(Frame) /\ \A k \in DOMAIN frames' : FrameOK(frames'[k])
<1>1. Len(frames) \in 1..Len(frames) /\ DOMAIN frames = 1..Len(frames)
  BY DEF WellTyped, Typed
<1>2. /\ frames' \in Seq(Frame) /\ Len(frames') = Len(frames)
      /\ \A k \in 1..Len(frames) : frames'[k] = IF k = Len(frames) THEN frame ELSE frames[k]
  BY <1>1, ExceptSeq DEF SetTop, WellTyped, Typed
<1>3. DOMAIN frames' = 1..Len(frames)
  BY <1>2
<1> QED
  BY <1>1, <1>2, <1>3 DEF WellTyped

\* The innermost construct is well typed.
LEMMA TopTyped ==
  ASSUME WellTyped, frames # <<>>
  PROVE  Top \in Frame /\ FrameOK(Top)
<1>1. Len(frames) \in DOMAIN frames /\ frames[Len(frames)] \in Frame
  BY DEF WellTyped, Typed
<1> QED
  BY <1>1 DEF Top, WellTyped

\* One more scope, and one more or a changed binding.
LEMMA PlainTyped ==
  ASSUME NEW value \in Value, NEW flag \in BOOLEAN
  PROVE  Plain(value, flag) \in Binding /\ Reference(value, flag) \in Binding
BY DEF Plain, Reference, Binding

\* Defining a name keeps the scope stack well typed.
LEMMA DefineTyped ==
  ASSUME Typed, NEW n \in Name, NEW binding \in Binding
  PROVE  Define(scopes, n, binding) \in Seq(Scope) /\ Define(scopes, n, binding) # <<>>
<1>1. Len(scopes) \in 1..Len(scopes) /\ scopes[Len(scopes)] \in Scope
  BY DEF Typed
<1> DEFINE scope == scopes[Len(scopes)]
           larger == [m \in DOMAIN scope \cup {n} |-> IF m = n THEN binding ELSE scope[m]]
<1>2. larger \in Scope
  <2>1. PICK names \in SUBSET Name : scope \in [names -> Binding]
    BY <1>1 DEF Scope
  <2>2. larger \in [names \cup {n} -> Binding] /\ names \cup {n} \in SUBSET Name
    BY <2>1
  <2> QED
    BY <2>2 DEF Scope
<1>3. Define(scopes, n, binding) = [scopes EXCEPT ![Len(scopes)] = larger]
  BY DEF Define
<1>4. [scopes EXCEPT ![Len(scopes)] = larger] \in Seq(Scope)
        /\ Len([scopes EXCEPT ![Len(scopes)] = larger]) = Len(scopes)
  BY <1>1, <1>2, ExceptSeq DEF Typed
<1> QED
  BY <1>1, <1>3, <1>4

\* Assigning a visible name keeps the scope stack and its names.
LEMMA AssignedTyped ==
  ASSUME Typed, NEW n, Bound(n), NEW value \in Value
  PROVE  /\ Assigned(n, value) \in Seq(Scope) /\ Assigned(n, value) # <<>>
         /\ Len(Assigned(n, value)) = Len(scopes)
         /\ \A i \in 1..Len(scopes) : DOMAIN Assigned(n, value)[i] = DOMAIN scopes[i]
<1> DEFINE b == BindingScope(n)
           scope == scopes[b]
           changed == [scope EXCEPT ![n].val = value]
<1>1. b \in 1..Len(scopes) /\ n \in DOMAIN scope /\ Lookup(n) \in Binding
  BY LookupTyped
<1>2. scope \in Scope
  BY <1>1 DEF Typed
<1>3. changed \in Scope /\ DOMAIN changed = DOMAIN scope
  <2>1. PICK names \in SUBSET Name : scope \in [names -> Binding]
    BY <1>2 DEF Scope
  <2>2. [scope[n] EXCEPT !.val = value] \in Binding
    BY <1>1, <2>1 DEF Binding
  <2>3. changed \in [names -> Binding] /\ DOMAIN changed = DOMAIN scope
    BY <2>1, <2>2
  <2> QED
    BY <2>3 DEF Scope
<1>4. Assigned(n, value) = [scopes EXCEPT ![b] = changed]
  BY DEF Assigned
<1>5. /\ [scopes EXCEPT ![b] = changed] \in Seq(Scope)
      /\ Len([scopes EXCEPT ![b] = changed]) = Len(scopes)
      /\ \A i \in 1..Len(scopes) :
           [scopes EXCEPT ![b] = changed][i] = IF i = b THEN changed ELSE scopes[i]
  BY <1>1, <1>3, ExceptSeq DEF Typed
<1> QED
  BY <1>1, <1>3, <1>4, <1>5

\* The state's sequences, unfolded once for the steps that follow.
LEMMA SameScopesTyped ==
  ASSUME WellTyped
  PROVE  /\ scopes \in Seq(Scope) /\ scopes # <<>> /\ active \in Seq(Loan)
         /\ HeapOK(heap) /\ frames \in Seq(Frame)
         /\ Len(scopes) \in Nat /\ Len(scopes) > 0 /\ Len(active) \in Nat /\ Len(frames) \in Nat
         /\ DOMAIN scopes = 1..Len(scopes) /\ DOMAIN active = 1..Len(active)
         /\ DOMAIN frames = 1..Len(frames)
BY DEF WellTyped, Typed

\* Pushing a scope adds one to the stack and keeps the others.
LEMMA MoreScopesTyped ==
  ASSUME WellTyped, NEW scope \in Scope
  PROVE  /\ Append(scopes, scope) \in Seq(Scope) /\ Append(scopes, scope) # <<>>
         /\ Len(Append(scopes, scope)) = Len(scopes) + 1
         /\ \A i \in 1..Len(scopes) : Append(scopes, scope)[i] = scopes[i]
BY SameScopesTyped, AppendProperties

\* push_scope opens a scope without bindings.
LEMMA EmptyScopeTyped == EmptyScope \in Scope
<1>1. EmptyScope \in [{} -> Binding]
  BY DEF EmptyScope
<1> QED
  BY <1>1 DEF Scope

\* A loop or a match opens a scope with one binding.
LEMMA SingleScopeTyped ==
  ASSUME NEW n \in Name, NEW binding \in Binding
  PROVE  [m \in {n} |-> binding] \in Scope
<1>1. [m \in {n} |-> binding] \in [{n} -> Binding] /\ {n} \in SUBSET Name
  OBVIOUS
<1> QED
  BY <1>1 DEF Scope

\* Blocks and matches need no more than what OpenFrame records.
LEMMA PlainFrameOK ==
  ASSUME Typed, NEW kind \in {"block", "match"}
  PROVE  OpenFrame(kind) \in Frame /\ FrameOK(OpenFrame(kind))
<1>1. OpenFrame(kind) \in Frame
  BY OpenFrameTyped DEF FrameKind
<1>2. OpenFrame(kind).kind = kind
  BY DEF OpenFrame
<1> QED
  BY <1>1, <1>2 DEF FrameOK

\* A block's scope is well typed.
LEMMA EnterBlockTyped ==
  ASSUME WellTyped, EnterBlock
  PROVE  WellTyped'
<1>1. OpenFrame("block") \in Frame /\ FrameOK(OpenFrame("block"))
  BY PlainFrameOK DEF WellTyped
<1>2. frames' \in Seq(Frame) /\ \A k \in DOMAIN frames' : FrameOK(frames'[k])
  BY <1>1, PushTyped DEF EnterBlock
<1>3. scopes' \in Seq(Scope) /\ scopes' # <<>>
  BY EmptyScopeTyped, MoreScopesTyped DEF EnterBlock, Pushed
<1> QED
  BY <1>2, <1>3 DEF EnterBlock, WellTyped, Typed

\* A declaration binds a value.
LEMMA DeclareTyped ==
  ASSUME WellTyped, NEW n \in Name, NEW mutable \in BOOLEAN, NEW value, Declare(n, mutable, value)
  PROVE  WellTyped'
<1>1. value \in Value
  BY ReadableTyped DEF Declare, WellTyped
<1>2. scopes' \in Seq(Scope) /\ scopes' # <<>>
  BY <1>1, PlainTyped, DefineTyped DEF Declare, WellTyped
<1> QED
  BY <1>2 DEF Declare, WellTyped, Typed

\* A loan built from typed parts is a loan.
LEMMA ScopedLoanTyped ==
  ASSUME NEW locations \in SUBSET Location, NEW mode \in Mode, NEW n \in Name,
         NEW source \in Name \cup {None}, NEW path \in Seq(Segment), NEW scope \in Nat,
         NEW escape \in EscapeKind, NEW home \in Nat
  PROVE  ScopedLoan(locations, mode, n, source, path, scope, escape, home) \in Loan
BY DEF ScopedLoan, Loan

\* A local reference adds a typed loan and a typed binding.
LEMMA MakeReferenceTyped ==
  ASSUME WellTyped, NEW n \in Name, NEW mutable \in BOOLEAN, NEW owner, Bound(owner),
         NEW value \in Value, NEW chain \in Chains(value), NEW tip \in Value,
         MakeReference(n, mutable, owner, value, chain, tip)
  PROVE  /\ scopes' \in Seq(Scope) /\ scopes' # <<>> /\ active' \in Seq(Loan)
         /\ HeapOK(heap')
<1> DEFINE mode == IF mutable THEN "Exclusive" ELSE "Shared"
           loan == ScopedLoan(ChainLocations(chain, tip), mode, n, owner,
                              PathFrom(chain, 1), Current, "None", BindingScope(owner))
<1>1. loan \in Loan
  <2>1. mode \in Mode /\ "None" \in EscapeKind
    BY DEF Mode, EscapeKind
  <2>2. ChainLocations(chain, tip) \in SUBSET Location /\ PathFrom(chain, 1) \in Seq(Segment)
    BY ChainTyped DEF WellTyped
  <2>3. owner \in Name \cup {None} /\ BindingScope(owner) \in Nat
    BY LookupTyped, SameScopesTyped DEF WellTyped
  <2>4. Current \in Nat
    BY SameScopesTyped DEF Current
  <2> QED
    BY <2>1, <2>2, <2>3, <2>4, ScopedLoanTyped
<1>2. active' = Append(active, loan)
  BY DEF MakeReference
<1>3. active' \in Seq(Loan)
  BY <1>1, <1>2, SameScopesTyped, AppendProperties
<1>4. scopes' \in Seq(Scope) /\ scopes' # <<>>
  BY PlainTyped, DefineTyped, SameScopesTyped DEF MakeReference, WellTyped
<1> QED
  BY <1>3, <1>4, SameScopesTyped DEF MakeReference

\* A reference with a literal path keeps the types.
LEMMA BorrowTyped ==
  ASSUME WellTyped, NEW n \in Name, NEW mutable \in BOOLEAN, NEW owner,
         NEW chain \in Chains(Lookup(owner).val), Borrow(n, mutable, owner, chain)
  PROVE  WellTyped'
<1>1. Bound(owner) /\ Lookup(owner).val \in Value /\ Tip(Lookup(owner).val, chain) \in Value
  BY LookupTyped, ChainTyped DEF Borrow, WellTyped
<1>2. /\ scopes' \in Seq(Scope) /\ scopes' # <<>> /\ active' \in Seq(Loan)
      /\ HeapOK(heap')
  BY <1>1, MakeReferenceTyped DEF Borrow
<1> QED
  BY <1>2 DEF Borrow, WellTyped, Typed

\* A half-evaluated statement is a well-typed construct.
LEMMA EvalFrameTyped ==
  ASSUME Typed, NEW op \in Operation, NEW n \in Name, NEW args \in Seq(Argument),
         NEW items \in Seq(Value)
  PROVE  LET frame == [OpenFrame("eval") EXCEPT !.op = op, !.name = n, !.args = args,
                                                 !.items = items]
         IN  frame \in Frame /\ FrameOK(frame)
<1>1. OpenFrame("eval") \in Frame
  BY OpenFrameTyped DEF FrameKind
<1>2. OpenFrame("eval").kind = "eval"
  BY DEF OpenFrame
<1> QED
  BY <1>1, <1>2 DEF Frame, FrameOK

\* Reading the owner of a reference keeps the types.
LEMMA BeginBorrowTyped ==
  ASSUME WellTyped, NEW n \in Name, NEW mutable \in BOOLEAN, NEW owner,
         BeginBorrow(n, mutable, owner)
  PROVE  WellTyped'
<1> DEFINE op == IF mutable THEN "mut ref" ELSE "ref"
           args == <<[source |-> owner, val |-> Lookup(owner).val]>>
           items == <<Lookup(owner).val>>
<1>1. args \in Seq(Argument) /\ items \in Seq(Value)
  BY LookupTyped DEF BeginBorrow, WellTyped, Argument
<1>2. op \in Operation
  BY DEF Operation
<1>3. frames' \in Seq(Frame) /\ \A k \in DOMAIN frames' : FrameOK(frames'[k])
  BY <1>1, <1>2, EvalFrameTyped, PushTyped DEF BeginBorrow, WellTyped
<1> QED
  BY <1>3 DEF BeginBorrow, WellTyped, Typed

\* The value that was read so far, and the one in a slot of it.
LEMMA ReadTyped ==
  ASSUME WellTyped, Evaluating, Top.items # <<>>, Top.items[1] \in Object,
         NEW slot \in DOMAIN heap[Top.items[1]]
  PROVE  /\ heap[Top.items[1]][slot] \in Value
         /\ <<KindOf(Top.items[1]), slot>> \in Segment
BY ContentsTyped DEF WellTyped, Typed

\* Reading a segment of the path keeps the types.
LEMMA ReadSegmentTyped ==
  ASSUME WellTyped, Top.items # <<>>, ReadSegment
  PROVE  WellTyped'
<1>1. Top \in Frame /\ FrameOK(Top) /\ frames # <<>> /\ Evaluating
  BY TopTyped DEF ReadSegment, Evaluating
<1>2. PICK slot \in DOMAIN heap[Top.items[1]] :
        SetTop([Top EXCEPT !.items = <<heap[Top.items[1]][slot]>>,
                           !.path = Append(@, <<KindOf(Top.items[1]), slot>>)])
  BY DEF ReadSegment
<1> DEFINE items == <<heap[Top.items[1]][slot]>>
           path == Append(Top.path, <<KindOf(Top.items[1]), slot>>)
           frame == [Top EXCEPT !.items = items, !.path = path]
<1>3. heap[Top.items[1]][slot] \in Value /\ <<KindOf(Top.items[1]), slot>> \in Segment
  BY <1>1, ReadTyped DEF ReadSegment
<1>4. Top.path \in Seq(Segment)
  BY <1>1 DEF Frame
<1>5. items \in Seq(Value) /\ path \in Seq(Segment)
  BY <1>3, <1>4
<1> HIDE DEF items, path
<1>6. frame \in Frame /\ FrameOK(frame)
  <2>1. frame \in Frame /\ frame.kind = "eval" /\ frame.name = Top.name
    BY <1>1, <1>5 DEF Frame, Evaluating
  <2> QED
    BY <1>1, <2>1 DEF FrameOK, Evaluating
<1>7. SetTop(frame)
  BY <1>2 DEF items, path
<1> HIDE DEF frame
<1>8. frames' \in Seq(Frame) /\ \A k \in DOMAIN frames' : FrameOK(frames'[k])
  BY <1>1, <1>6, <1>7, SetTopTyped
<1> QED
  BY <1>8 DEF ReadSegment, WellTyped, Typed

\* Finishing a reference whose path had calls keeps the types.
LEMMA FinishBorrowTyped ==
  ASSUME WellTyped, Evaluating, Top.args # <<>>, Top.items # <<>>, NEW chain \in Chains(Top.args[1].val),
         FinishBorrow(chain)
  PROVE  WellTyped'
<1>1. Top \in Frame /\ FrameOK(Top) /\ frames # <<>>
  BY TopTyped DEF Evaluating
<1>2. Top.name \in Name /\ Top.args[1].val \in Value
  <2>1. Top.name \in Name
    BY <1>1 DEF Evaluating, FrameOK
  <2>2. Top.args \in Seq(Argument)
    BY <1>1 DEF Frame
  <2>3. Top.args[1] \in Argument
    BY <2>2
  <2> QED
    BY <2>1, <2>3 DEF Argument
<1> DEFINE tip == heap[Top.items[1]][chain[Len(chain)].slot]
<1>3. tip \in Value
  BY ReadTyped DEF FinishBorrow
<1>4. /\ Bound(Top.args[1].source)
      /\ MakeReference(Top.name, Top.op = "mut ref", Top.args[1].source, Top.args[1].val,
                       chain, tip)
  BY DEF FinishBorrow
<1> HIDE DEF tip
<1>5. /\ scopes' \in Seq(Scope) /\ scopes' # <<>> /\ active' \in Seq(Loan)
      /\ HeapOK(heap')
  BY <1>2, <1>3, <1>4, MakeReferenceTyped
<1>6. frames' \in Seq(Frame) /\ \A k \in DOMAIN frames' : FrameOK(frames'[k])
  BY <1>1, PopTyped DEF FinishBorrow
<1> QED
  BY <1>5, <1>6 DEF WellTyped, Typed

\* Starting to evaluate a statement keeps the types.
LEMMA BeginEvalTyped ==
  ASSUME WellTyped, NEW op \in Operation, NEW n \in Name, BeginEval(op, n)
  PROVE  WellTyped'
<1>1. /\ [OpenFrame("eval") EXCEPT !.op = op, !.name = n] \in Frame
      /\ FrameOK([OpenFrame("eval") EXCEPT !.op = op, !.name = n])
  <2>1. OpenFrame("eval") \in Frame /\ OpenFrame("eval").kind = "eval"
    BY OpenFrameTyped DEF FrameKind, OpenFrame, WellTyped
  <2> QED
    BY <2>1 DEF Frame, FrameOK
<1>2. frames' \in Seq(Frame) /\ \A k \in DOMAIN frames' : FrameOK(frames'[k])
  BY <1>1, PushTyped DEF BeginEval
<1> QED
  BY <1>2 DEF BeginEval, WellTyped, Typed

\* The guards of the writing statements keep the types.
LEMMA BeginWriteTyped ==
  ASSUME WellTyped, NEW n \in Name, NEW op \in {"set", "add", "remove"},
         BeginReassign(n) \/ BeginWriteThrough(n) \/ BeginMutation(op, n)
  PROVE  WellTyped'
<1>1. BeginEval("reassign", n) \/ BeginEval("write", n) \/ BeginEval(op, n)
  BY DEF BeginReassign, BeginWriteThrough, BeginMutation
<1>2. {"reassign", "write", "set", "add", "remove"} \subseteq Operation
  BY DEF Operation
<1> QED
  BY <1>1, <1>2, BeginEvalTyped

\* A reassignment binds a value and saves it in the running message.
LEMMA FinishReassignTyped ==
  ASSUME WellTyped, NEW value, FinishReassign(value)
  PROVE  WellTyped'
<1>1. value \in Value /\ frames # <<>>
  BY ReadableTyped DEF FinishReassign, WellTyped, Evaluating
<1>2. scopes' \in Seq(Scope) /\ scopes' # <<>>
  BY <1>1, AssignedTyped DEF FinishReassign, WellTyped
<1>3. HeapOK(heap')
  BY <1>1, PersistedTyped, SameScopesTyped DEF FinishReassign
<1>4. frames' \in Seq(Frame) /\ \A k \in DOMAIN frames' : FrameOK(frames'[k])
  BY <1>1, PopTyped DEF FinishReassign
<1> QED
  BY <1>2, <1>3, <1>4 DEF FinishReassign, WellTyped, Typed

\* A write through a reference stores a value in an existing slot.
LEMMA FinishWriteThroughTyped ==
  ASSUME WellTyped, NEW value, FinishWriteThrough(value)
  PROVE  WellTyped'
<1> DEFINE loan == active[Highest(WritableLoans(Top.name))]
           owner == Lookup(loan.owner).val
<1>1. value \in Value /\ frames # <<>>
  BY ReadableTyped DEF FinishWriteThrough, WellTyped, Evaluating
<1>2. scopes' \in Seq(Scope) /\ scopes' # <<>>
  BY <1>1, AssignedTyped DEF FinishWriteThrough, WellTyped
<1>3. owner \in Value
  BY LookupTyped DEF FinishWriteThrough, WellTyped
<1>4. HeapOK(heap')
  <2>1. PICK chain \in Chains(owner) :
          heap' = Persisted([heap EXCEPT ![chain[Len(chain)].container]
                                           [chain[Len(chain)].slot] = value], loan.owner, owner)
    BY DEF FinishWriteThrough
  <2>2. HeapOK([heap EXCEPT ![chain[Len(chain)].container][chain[Len(chain)].slot] = value])
    BY <1>1, WriteTyped, SameScopesTyped
  <2> QED
    BY <2>1, <2>2, <1>3, PersistedTyped
<1>5. frames' \in Seq(Frame) /\ \A k \in DOMAIN frames' : FrameOK(frames'[k])
  BY <1>1, PopTyped DEF FinishWriteThrough
<1> QED
  BY <1>2, <1>4, <1>5 DEF FinishWriteThrough, WellTyped, Typed

\* A mutation that keeps the contents well typed keeps the state so.
LEMMA FinishMutationTyped ==
  ASSUME WellTyped, NEW op, NEW contents, HeapOK(contents), FinishMutation(op, contents)
  PROVE  WellTyped'
<1>1. Lookup(Top.name).val \in Value
  BY LookupTyped DEF FinishMutation, WellTyped
<1>2. HeapOK(heap')
  BY <1>1, PersistedTyped DEF FinishMutation
<1>3. frames' \in Seq(Frame) /\ \A k \in DOMAIN frames' : FrameOK(frames'[k])
  BY PopTyped DEF FinishMutation, Evaluating
<1> QED
  BY <1>2, <1>3 DEF FinishMutation, WellTyped, Typed

\* An object of each kind gets new contents of its kind.
LEMMA ReplaceTyped ==
  ASSUME HeapOK(heap), NEW id, NEW new,
         \/ id \in List /\ \E n \in 0..MaxList : new \in [1..n -> Value]
         \/ id \in Hash /\ \E keys \in SUBSET Key : new \in [keys -> Value]
  PROVE  HeapOK([heap EXCEPT ![id] = new])
<1> DEFINE after == [heap EXCEPT ![id] = new]
<1>1. after = [o \in Object |-> after[o]]
  BY DEF HeapOK
<1>2. \A o \in Object : after[o] = IF o = id THEN new ELSE heap[o]
  BY DEF HeapOK
<1>3. id \in List => id \notin Hash /\ id \notin Struct
  BY ValuesAssumption DEF Collection
<1>4. id \in Hash => id \notin List /\ id \notin Struct
  BY ValuesAssumption DEF Collection
<1>5. \A o \in List : after[o] \in UNION {[1..n -> Value] : n \in 0..MaxList}
  BY <1>2, <1>4 DEF HeapOK, Object, Collection
<1>6. \A o \in Hash : after[o] \in UNION {[keys -> Value] : keys \in SUBSET Key}
  BY <1>2, <1>3 DEF HeapOK, Object, Collection
<1>7. \A o \in Struct : after[o] \in UNION {[fields -> Value] : fields \in SUBSET Name}
  BY <1>2, <1>3, <1>4 DEF HeapOK, Object, Collection
<1> QED
  BY <1>1, <1>5, <1>6, <1>7 DEF HeapOK

\* A list holds values at 1..n and n is its number of slots.
LEMMA ListTyped ==
  ASSUME HeapOK(heap), NEW id \in List
  PROVE  \E n \in 0..MaxList : /\ heap[id] \in [1..n -> Value]
                               /\ Cardinality(DOMAIN heap[id]) = n
<1>1. PICK n \in 0..MaxList : heap[id] \in [1..n -> Value]
  BY DEF HeapOK
<1>2. Cardinality(1..n) = n
  BY FS_Interval, BoundsAssumption
<1> QED
  BY <1>1, <1>2

\* Replacing an indexed slot keeps the types.
LEMMA FinishSetIndexTyped ==
  ASSUME WellTyped, NEW chain, NEW value, FinishSetIndex(chain, value)
  PROVE  WellTyped'
<1>1. value \in Value
  BY ReadableTyped DEF FinishSetIndex, WellTyped
<1>2. HeapOK([heap EXCEPT ![chain[Len(chain)].container][chain[Len(chain)].slot] = value])
  BY <1>1, WriteTyped, SameScopesTyped
<1> QED
  BY <1>2, FinishMutationTyped DEF FinishSetIndex

\* A new key of a hash keeps the types.
LEMMA FinishInsertTyped ==
  ASSUME WellTyped, NEW chain, NEW key \in Key, NEW value, FinishInsert(chain, key, value)
  PROVE  WellTyped'
<1> DEFINE hash == Tip(Lookup(Top.name).val, chain)
           old == heap[hash]
           new == [k \in DOMAIN old \cup {key} |-> IF k = key THEN value ELSE old[k]]
<1>1. value \in Value /\ hash \in Hash
  BY ReadableTyped DEF FinishInsert, WellTyped
<1>2. PICK keys \in SUBSET Key : old \in [keys -> Value]
  <2>1. HeapOK(heap)
    BY SameScopesTyped
  <2> QED
    BY <1>1, <2>1 DEF HeapOK
<1>3. new \in [keys \cup {key} -> Value] /\ keys \cup {key} \in SUBSET Key
  BY <1>1, <1>2
<1>4. HeapOK([heap EXCEPT ![hash] = new])
  BY <1>1, <1>3, ReplaceTyped, SameScopesTyped
<1>5. FinishMutation("set", [heap EXCEPT ![hash] = new])
  BY DEF FinishInsert
<1> QED
  BY <1>4, <1>5, FinishMutationTyped

\* Appending to a list below its bound keeps the types.
LEMMA FinishAddTyped ==
  ASSUME WellTyped, NEW value, FinishAdd(value)
  PROVE  WellTyped'
<1> DEFINE list == Lookup(Top.name).val
           old == heap[list]
           length == Cardinality(DOMAIN heap[list])
           new == [s \in 1..(length + 1) |-> IF s <= length THEN old[s] ELSE value]
<1>1. value \in Value /\ list \in List /\ length < MaxList
  BY ReadableTyped DEF FinishAdd, WellTyped
<1>2. length \in 0..MaxList /\ old \in [1..length -> Value]
  BY <1>1, ListTyped, SameScopesTyped
<1>3. length + 1 \in 0..MaxList
  BY <1>1, <1>2, BoundsAssumption
<1>4. new \in [1..(length + 1) -> Value]
  BY <1>1, <1>2
<1>5. HeapOK([heap EXCEPT ![list] = new])
  BY <1>1, <1>3, <1>4, ReplaceTyped, SameScopesTyped
<1>6. FinishMutation("add", [heap EXCEPT ![list] = new])
  BY DEF FinishAdd
<1> QED
  BY <1>5, <1>6, FinishMutationTyped

\* Removing an element closes the gap, so the rest is a list again.
LEMMA FinishRemoveTyped ==
  ASSUME WellTyped, NEW slot, FinishRemove(slot)
  PROVE  WellTyped'
<1> DEFINE list == Lookup(Top.name).val
           old == heap[list]
           new == [s \in 1..(Cardinality(DOMAIN old) - 1) |->
                     IF s < slot THEN old[s] ELSE old[s + 1]]
<1>1. list \in List /\ slot \in DOMAIN old \cup {0}
  BY DEF FinishRemove
<1>2. PICK n \in 0..MaxList : old \in [1..n -> Value] /\ Cardinality(DOMAIN old) = n
  BY <1>1, ListTyped, SameScopesTyped
<1>3. CASE slot = 0
  <2>1. FinishMutation("remove", heap)
    BY <1>3 DEF FinishRemove
  <2> QED
    BY <2>1, FinishMutationTyped, SameScopesTyped
<1>4. CASE slot # 0
  <2>1. slot \in 1..n /\ n \in Nat
    BY <1>1, <1>2, <1>4, BoundsAssumption
  <2>2. n - 1 \in 0..MaxList
    BY <2>1, BoundsAssumption
  <2>3. new \in [1..(n - 1) -> Value]
    BY <1>2, <2>1
  <2>4. HeapOK([heap EXCEPT ![list] = new])
    BY <1>1, <2>2, <2>3, ReplaceTyped, SameScopesTyped
  <2>5. FinishMutation("remove", [heap EXCEPT ![list] = new])
    BY <1>4 DEF FinishRemove
  <2> QED
    BY <2>4, <2>5, FinishMutationTyped
<1> QED
  BY <1>3, <1>4

\* Assigning several names together keeps the types.
LEMMA DestructureReassignTyped ==
  ASSUME WellTyped, NEW values, DestructureReassign(values)
  PROVE  WellTyped'
<1>1. \A n \in DOMAIN values : values[n] \in Value
  BY ReadableTyped DEF DestructureReassign, WellTyped
<1> DEFINE changed(i) ==
             [n \in DOMAIN scopes[i] |->
                IF n \in DOMAIN values /\ i = BindingScope(n)
                THEN [scopes[i][n] EXCEPT !.val = values[n]] ELSE scopes[i][n]]
           rewritten(id) ==
             [s \in DOMAIN heap[id] |->
                IF id \in Struct /\ s \in DOMAIN values /\ MessageFrames(s) # {}
                   /\ MessageInstance(s) = id
                THEN values[s] ELSE heap[id][s]]
<1>2. \A i \in DOMAIN scopes : changed(i) \in Scope
  <2> SUFFICES ASSUME NEW i \in DOMAIN scopes PROVE changed(i) \in Scope
    OBVIOUS
  <2>1. scopes[i] \in Scope
    BY SameScopesTyped
  <2>2. PICK names \in SUBSET Name : scopes[i] \in [names -> Binding]
    BY <2>1 DEF Scope
  <2>3. \A n \in names : /\ scopes[i][n] \in Binding
                         /\ n \in DOMAIN values => [scopes[i][n] EXCEPT !.val = values[n]] \in Binding
    BY <1>1, <2>2 DEF Binding
  <2>4. changed(i) \in [names -> Binding]
    BY <2>2, <2>3
  <2> QED
    BY <2>4 DEF Scope
<1>3. scopes' = [i \in DOMAIN scopes |-> changed(i)]
  BY DEF DestructureReassign
<1>4. scopes' \in Seq(Scope) /\ scopes' # <<>>
  <2>1. scopes' \in [1..Len(scopes) -> Scope]
    BY <1>2, <1>3, SameScopesTyped
  <2>2. scopes' \in Seq(Scope) /\ DOMAIN scopes' = 1..Len(scopes)
    BY <2>1, SameScopesTyped
  <2> QED
    BY <2>2, SameScopesTyped
<1>5. heap' = [id \in DOMAIN heap |-> rewritten(id)]
  BY DEF DestructureReassign
<1>6. HeapOK(heap) /\ DOMAIN heap = Object
  <2>1. HeapOK(heap)
    BY SameScopesTyped
  <2> QED
    BY <2>1 DEF HeapOK
<1>7. \A id \in Object : heap'[id] = rewritten(id)
  BY <1>5, <1>6
<1>8. HeapOK(heap')
  <2>1. heap' = [id \in Object |-> heap'[id]]
    BY <1>5, <1>6
  <2>2. ASSUME NEW id \in Object, NEW D, heap[id] \in [D -> Value]
        PROVE  heap'[id] \in [D -> Value]
    BY <1>1, <1>7, <2>2
  <2>3. ASSUME NEW id \in List
        PROVE  heap'[id] \in UNION {[1..n -> Value] : n \in 0..MaxList}
    <3>1. PICK n \in 0..MaxList : heap[id] \in [1..n -> Value]
      BY <1>6 DEF HeapOK
    <3> QED
      BY <2>2, <3>1 DEF Object, Collection
  <2>4. ASSUME NEW id \in Hash
        PROVE  heap'[id] \in UNION {[keys -> Value] : keys \in SUBSET Key}
    <3>1. PICK keys \in SUBSET Key : heap[id] \in [keys -> Value]
      BY <1>6 DEF HeapOK
    <3> QED
      BY <2>2, <3>1 DEF Object, Collection
  <2>5. ASSUME NEW id \in Struct
        PROVE  heap'[id] \in UNION {[fields -> Value] : fields \in SUBSET Name}
    <3>1. PICK fields \in SUBSET Name : heap[id] \in [fields -> Value]
      BY <1>6 DEF HeapOK
    <3> QED
      BY <2>2, <3>1 DEF Object
  <2> QED
    BY <2>1, <2>3, <2>4, <2>5 DEF HeapOK
<1> QED
  BY <1>4, <1>8 DEF DestructureReassign, WellTyped, Typed

\* Starting a call keeps the types.
LEMMA BeginCallTyped ==
  ASSUME WellTyped, NEW f \in Function, NEW args \in Seq(Argument),
         NEW instance \in Struct \cup {None}, BeginCall(f, args, instance)
  PROVE  WellTyped'
<1> DEFINE frame == [OpenFrame("bind") EXCEPT !.function = f, !.args = args, !.instance = instance]
<1>1. frame \in Frame /\ FrameOK(frame)
  <2>1. OpenFrame("bind") \in Frame /\ OpenFrame("bind").kind = "bind"
    BY OpenFrameTyped DEF FrameKind, OpenFrame, WellTyped
  <2>2. frame \in Frame /\ frame.kind = "bind" /\ frame.function = f /\ frame.args = args
    BY <2>1 DEF Frame
  <2> QED
    BY <2>2 DEF FrameOK, BeginCall, Parameters
<1>2. frames' \in Seq(Frame) /\ \A k \in DOMAIN frames' : FrameOK(frames'[k])
  BY <1>1, PushTyped DEF BeginCall
<1> QED
  BY <1>2 DEF BeginCall, WellTyped, Typed

\* Every argument of a call has a value and perhaps a source name.
LEMMA ArgumentsTyped ==
  ASSUME WellTyped
  PROVE  Arguments \subseteq Argument
<1>1. \A n \in Name : Bound(n) => ArgumentsFor(n) \subseteq Argument
  BY LookupTyped DEF ArgumentsFor, Argument, WellTyped
<1>2. \A v : Contents(v) \subseteq Value
  BY ContentsTyped, SameScopesTyped DEF Contents
<1>3. \A v \in Value : Anonymous(v) \in Argument
  BY DEF Anonymous, Argument
<1>4. UNION {ArgumentsFor(n) : n \in {m \in Name : Bound(m)}} \subseteq Argument
  BY <1>1
<1>5. {Anonymous(v) : v \in UNION {Contents(v) : v \in VisibleValues}} \subseteq Argument
  BY <1>2, <1>3
<1> QED
  BY <1>4, <1>5 DEF Arguments

\* A call of a function and a message both begin a call with typed arguments.
LEMMA CallBegins ==
  ASSUME WellTyped, NEW f \in Function, NEW args \in [1..Arity(f) -> Arguments], Call(f, args)
  PROVE  InExpression /\ args \in Seq(Argument) /\ BeginCall(f, args, None)
<1>1. args \in Seq(Argument)
  <2>1. Arity(f) \in Nat
    BY SignatureAssumption DEF Arity, Parameters
  <2>2. args \in [1..Arity(f) -> Argument]
    BY ArgumentsTyped
  <2> QED
    BY <2>1, <2>2
<1> QED
  BY <1>1 DEF Call

\* A dispatched message starts a call of a function of the program.
LEMMA DispatchBegins ==
  ASSUME WellTyped, NEW s \in Struct, NEW m \in Message,
         NEW supplied \in [1..(Arity(m) - Signature[m].fields) -> Readable], Dispatch(s, m, supplied)
  PROVE  /\ InExpression /\ m \in Function
         /\ \E args \in Seq(Argument) : BeginCall(m, args, s)
<1> DEFINE fields == [i \in 1..Signature[m].fields |-> Anonymous(heap[s][Parameters(m)[i].name])]
           others == [i \in DOMAIN supplied |-> Anonymous(supplied[i])]
<1>1. m \in Function
  BY NamesAssumption
<1>2. Arity(m) \in Nat /\ Signature[m].fields \in Nat /\ Arity(m) - Signature[m].fields \in Nat
  BY <1>1, SignatureAssumption DEF Arity, Parameters
<1>3. \A v \in Value : Anonymous(v) \in Argument
  BY DEF Anonymous, Argument
<1>4. fields \in Seq(Argument)
  <2>1. \A i \in 1..Signature[m].fields : heap[s][Parameters(m)[i].name] \in Value
    BY ContentsTyped, SameScopesTyped DEF Dispatch, Object
  <2>2. fields \in [1..Signature[m].fields -> Argument]
    BY <1>3, <2>1
  <2> QED
    BY <1>2, <2>2
<1>5. others \in Seq(Argument)
  <2>1. \A i \in 1..(Arity(m) - Signature[m].fields) : supplied[i] \in Value
    BY ReadableTyped DEF WellTyped
  <2>2. others \in [1..(Arity(m) - Signature[m].fields) -> Argument]
    BY <1>3, <2>1
  <2> QED
    BY <1>2, <2>2
<1>6. fields \o others \in Seq(Argument)
  BY <1>4, <1>5, ConcatProperties
<1>7. BeginCall(m, fields \o others, s)
  BY DEF Dispatch
<1> QED
  BY <1>1, <1>6, <1>7 DEF Dispatch

\* While parameters are bound there is a next parameter and argument.
LEMMA BindingFrameTyped ==
  ASSUME WellTyped, BindingParameter
  PROVE  /\ frames # <<>> /\ Top \in Frame /\ Top.kind = "bind" /\ Top.function \in Function
         /\ NextParam \in Parameter /\ NextArgument \in Argument
<1>1. frames # <<>> /\ Top \in Frame /\ FrameOK(Top) /\ Top.kind = "bind"
  BY TopTyped DEF BindingParameter
<1>2. /\ Top.function \in Function /\ Len(Top.args) = Len(Signature[Top.function].params)
      /\ Top.args \in Seq(Argument) /\ Top.next \in Nat \ {0}
  BY <1>1 DEF FrameOK, Frame
<1>3. Signature[Top.function].params \in Seq(Parameter)
  BY <1>2, SignatureAssumption
<1>4. Top.next \in 1..Len(Signature[Top.function].params)
  BY <1>2, <1>3 DEF BindingParameter, Parameters
<1> QED
  BY <1>1, <1>2, <1>3, <1>4 DEF NextParam, NextArgument, Parameters

\* Going on to the next parameter keeps the types.
LEMMA AdvanceTyped ==
  ASSUME WellTyped, BindingParameter, Advance
  PROVE  frames' \in Seq(Frame) /\ \A k \in DOMAIN frames' : FrameOK(frames'[k])
<1>1. Top \in Frame /\ FrameOK(Top) /\ frames # <<>>
  BY TopTyped DEF BindingParameter
<1> DEFINE frame == [Top EXCEPT !.next = @ + 1]
<1>2. Top.next + 1 \in Nat \ {0}
  BY <1>1 DEF Frame
<1>3. frame \in Frame
  BY <1>1, <1>2 DEF Frame
<1>4. /\ frame.kind = Top.kind /\ frame.name = Top.name
      /\ frame.function = Top.function /\ frame.args = Top.args
  BY <1>1 DEF Frame
<1>5. FrameOK(frame)
  BY <1>1, <1>4 DEF FrameOK
<1> QED
  BY <1>1, <1>3, <1>5, SetTopTyped DEF Advance

\* Binding a parameter adds a typed loan, or none.
LEMMA BindParameterTyped ==
  ASSUME WellTyped, BindValueParameter \/ BindReferenceParameter
  PROVE  WellTyped'
<1>1. BindingParameter /\ Advance
  BY DEF BindValueParameter, BindReferenceParameter
<1>2. frames' \in Seq(Frame) /\ \A k \in DOMAIN frames' : FrameOK(frames'[k])
  BY <1>1, AdvanceTyped
<1>3. CASE BindValueParameter
  BY <1>2, <1>3 DEF BindValueParameter, WellTyped, Typed
<1>4. CASE BindReferenceParameter
  <2> DEFINE loan == ParameterLoan(NextParam.name, ParameterMode, NextArgument.val)
  <2>1. NextParam \in Parameter /\ NextArgument.val \in Collection
    BY <1>1, <1>4, BindingFrameTyped DEF BindReferenceParameter, ParameterAdmitted
  <2>2. Whole(NextArgument.val) \in Location
    BY <2>1, ValuesAssumption DEF Whole, Location, Object
  <2>3. loan \in Loan
    BY <2>1, <2>2 DEF ParameterLoan, ScopedLoan, Loan, ParameterMode, Mode, EscapeKind, NoScope,
                      Parameter
  <2>4. active' \in Seq(Loan)
    BY <1>4, <2>3, AppendProperties, SameScopesTyped DEF BindReferenceParameter
  <2> QED
    BY <1>2, <1>4, <2>4 DEF BindReferenceParameter, WellTyped, Typed
<1> QED
  BY <1>3, <1>4

\* The parameters of a call are bound to its arguments.
LEMMA EnterBodyTyped ==
  ASSUME WellTyped, EnterBody
  PROVE  WellTyped' /\ Len(scopes') > Len(scopes)
<1>1. frames # <<>> /\ Top \in Frame /\ FrameOK(Top) /\ Top.kind = "bind"
  BY TopTyped DEF EnterBody
<1> DEFINE f == Top.function
           params == Parameters(f)
           captured == Captures(f)
           outer == IF DOMAIN captured = {} THEN scopes
                    ELSE Append(scopes, [n \in DOMAIN captured |-> Plain(captured[n], FALSE)])
           bound(i) == [val |-> Top.args[i].val, mut |-> params[i].mut, ref |-> params[i].ref,
                        excl |-> params[i].ref /\ params[i].mut]
           inner == [n \in {params[i].name : i \in DOMAIN params} |->
                       bound(CHOOSE i \in DOMAIN params : params[i].name = n)]
<1>2. /\ f \in Function /\ Len(Top.args) = Len(params) /\ Top.args \in Seq(Argument)
      /\ params \in Seq(Parameter)
  BY <1>1, SignatureAssumption DEF FrameOK, Frame, Parameters
<1>3. outer \in Seq(Scope) /\ outer # <<>> /\ Len(outer) >= Len(scopes)
  <2>1. [n \in DOMAIN captured |-> Plain(captured[n], FALSE)] \in Scope
    <3>1. DOMAIN captured \in SUBSET Name /\ \A n \in DOMAIN captured : captured[n] \in Value
      BY <1>2, SignatureAssumption DEF Captures
    <3>2. \A n \in DOMAIN captured : Plain(captured[n], FALSE) \in Binding
      BY <3>1, PlainTyped
    <3>3. [n \in DOMAIN captured |-> Plain(captured[n], FALSE)] \in [DOMAIN captured -> Binding]
      BY <3>2
    <3> QED
      BY <3>1, <3>3 DEF Scope
  <2> QED
    BY <2>1, MoreScopesTyped, SameScopesTyped
<1>4. inner \in Scope
  <2> DEFINE names == {params[i].name : i \in DOMAIN params}
  <2>1. \A i \in DOMAIN params : params[i].name \in Name /\ bound(i) \in Binding
    <3> SUFFICES ASSUME NEW i \in DOMAIN params
                 PROVE  params[i].name \in Name /\ bound(i) \in Binding
      OBVIOUS
    <3>1. params[i] \in Parameter /\ Top.args[i] \in Argument
      BY <1>2
    <3> QED
      BY <3>1 DEF Parameter, Argument, Binding
  <2>2. \A n \in names : (CHOOSE i \in DOMAIN params : params[i].name = n) \in DOMAIN params
    OBVIOUS
  <2>3. names \in SUBSET Name
    BY <2>1
  <2>4. inner \in [names -> Binding]
    BY <2>1, <2>2
  <2> QED
    BY <2>3, <2>4 DEF Scope
<1>5. scopes' = Append(outer, inner) /\ SetTop([Top EXCEPT !.kind = "call", !.body = Len(outer) + 1])
  BY DEF EnterBody
<1>6. /\ scopes' \in Seq(Scope) /\ scopes' # <<>> /\ Len(scopes') = Len(outer) + 1
  <2> HIDE DEF outer, inner
  <2> QED
    BY <1>3, <1>4, <1>5, AppendProperties
<1> DEFINE frame == [Top EXCEPT !.kind = "call", !.body = Len(outer) + 1]
<1>7. frame \in Frame /\ frame.kind = "call" /\ frame.function = f /\ frame.args = Top.args
  <2>1. Len(outer) + 1 \in Nat /\ "call" \in FrameKind
    BY <1>3 DEF FrameKind
  <2> HIDE DEF outer, f
  <2> QED
    BY <1>1, <2>1 DEF Frame, f
<1>8. FrameOK(frame)
  BY <1>2, <1>7 DEF FrameOK, Parameters
<1>9. frames' \in Seq(Frame) /\ \A k \in DOMAIN frames' : FrameOK(frames'[k])
  BY <1>1, <1>5, <1>7, <1>8, SetTopTyped
<1>10. Len(scopes') > Len(scopes)
  BY <1>3, <1>6, SameScopesTyped
<1> QED
  BY <1>6, <1>9, <1>10 DEF EnterBody, WellTyped, Typed

\* The elements a loop walks are values.
LEMMA ElementsTyped ==
  ASSUME HeapOK(heap), NEW id \in Collection, NEW items \in Elements(id)
  PROVE  items \in Seq(Value)
<1>1. CASE id \in List
  <2>1. PICK n \in 0..MaxList : heap[id] \in [1..n -> Value]
    BY <1>1 DEF HeapOK
  <2>2. heap[id] \in Seq(Value)
    BY <2>1, BoundsAssumption
  <2> QED
    BY <1>1, <2>2 DEF Elements
<1>2. CASE id \in Hash
  <2>1. PICK keys \in SUBSET Key : heap[id] \in [keys -> Value]
    BY <1>2 DEF HeapOK
  <2>2. Cardinality(keys) \in Nat
    BY <2>1, FiniteAssumption, FS_Subset, FS_CardinalityType
  <2>3. id \notin List
    BY <1>2, ValuesAssumption
  <2>4. PICK order \in [1..Cardinality(keys) -> keys] :
          items = [i \in DOMAIN order |-> heap[id][order[i]]]
    BY <2>1, <2>3 DEF Elements
  <2>5. items \in [1..Cardinality(keys) -> Value]
    BY <2>1, <2>4
  <2> QED
    BY <2>2, <2>5
<1> QED
  BY <1>1, <1>2 DEF Collection

\* A loop or match with its elements is a well-typed construct.
LEMMA ItemsFrameTyped ==
  ASSUME Typed, NEW kind \in {"loop", "each", "match"}, NEW n \in Name, NEW items \in Seq(Value)
  PROVE  LET frame == [OpenFrame(kind) EXCEPT !.name = n, !.items = items]
         IN  frame \in Frame /\ FrameOK(frame)
<1>1. OpenFrame(kind) \in Frame
  BY OpenFrameTyped DEF FrameKind
<1>2. OpenFrame(kind).kind = kind
  BY DEF OpenFrame
<1> QED
  BY <1>1, <1>2 DEF Frame, FrameOK

\* The loan of a whole iteration or match is a loan.
LEMMA OpenSharedTyped ==
  ASSUME WellTyped, NEW kind \in {"loop", "match"}, NEW escape \in EscapeKind,
         NEW n \in Name, NEW source, OpenShared(kind, escape, n, source)
  PROVE  /\ active' \in Seq(Loan) /\ HeapOK(heap')
         /\ frames' \in Seq(Frame) /\ \A k \in DOMAIN frames' : FrameOK(frames'[k])
<1> DEFINE locations == {Whole(id) : id \in Reachable({Lookup(source).val})}
           loan == ScopedLoan(locations, "Shared", n, source, <<>>, Current + 1, escape,
                              BindingScope(source))
<1>1. Bound(source) /\ Lookup(source).val \in Collection
  BY DEF OpenShared
<1>2. loan \in Loan
  <2>1. locations \in SUBSET Location
    <3>1. \A id \in Object : Whole(id) \in Location
      BY ValuesAssumption DEF Whole, Location
    <3> QED
      BY <3>1, ReachableTyped
  <2>2. source \in Name \cup {None} /\ BindingScope(source) \in Nat
    BY <1>1, LookupTyped, SameScopesTyped DEF WellTyped
  <2>3. Current + 1 \in Nat /\ "Shared" \in Mode /\ <<>> \in Seq(Segment)
    BY SameScopesTyped DEF Current, Mode
  <2> QED
    BY <2>1, <2>2, <2>3, ScopedLoanTyped
<1>3. active' = Append(active, loan)
  BY DEF OpenShared
<1>4. active' \in Seq(Loan)
  BY <1>2, <1>3, SameScopesTyped, AppendProperties
<1>5. PICK items \in Elements(Lookup(source).val) :
        PushFrame([OpenFrame(kind) EXCEPT !.name = n, !.items = items])
  BY DEF OpenShared
<1>6. items \in Seq(Value)
  BY <1>1, ElementsTyped, SameScopesTyped
<1>7. frames' \in Seq(Frame) /\ \A k \in DOMAIN frames' : FrameOK(frames'[k])
  BY <1>5, <1>6, ItemsFrameTyped, PushTyped DEF WellTyped
<1> QED
  BY <1>4, <1>7, SameScopesTyped DEF OpenShared

\* Starting a loop by reference keeps the types.
LEMMA BeginForRefTyped ==
  ASSUME WellTyped, NEW n \in Name, NEW source, BeginForRef(n, source)
  PROVE  WellTyped'
<1>1. /\ active' \in Seq(Loan) /\ HeapOK(heap')
      /\ frames' \in Seq(Frame) /\ \A k \in DOMAIN frames' : FrameOK(frames'[k])
  BY OpenSharedTyped DEF BeginForRef, EscapeKind
<1>2. scopes' \in Seq(Scope) /\ scopes' # <<>>
  BY EmptyScopeTyped, MoreScopesTyped DEF BeginForRef, Pushed
<1> QED
  BY <1>1, <1>2 DEF WellTyped, Typed

\* Starting a match with a reference binding keeps the types.
LEMMA BeginMatchRefTyped ==
  ASSUME WellTyped, NEW n \in Name, NEW source, BeginMatchRef(n, source)
  PROVE  WellTyped'
<1>1. /\ active' \in Seq(Loan) /\ HeapOK(heap')
      /\ frames' \in Seq(Frame) /\ \A k \in DOMAIN frames' : FrameOK(frames'[k])
  BY OpenSharedTyped DEF BeginMatchRef, EscapeKind
<1>2. Reference(Lookup(source).val, FALSE) \in Binding
  BY LookupTyped, PlainTyped DEF BeginMatchRef, OpenShared, WellTyped
<1>3. scopes' \in Seq(Scope) /\ scopes' # <<>>
  BY <1>2, SingleScopeTyped, MoreScopesTyped DEF BeginMatchRef
<1> QED
  BY <1>1, <1>3 DEF WellTyped, Typed

\* The next element of a loop by reference keeps the types.
LEMMA NextReferenceItemTyped ==
  ASSUME WellTyped, NextReferenceItem
  PROVE  WellTyped'
<1>1. Top \in Frame /\ FrameOK(Top) /\ frames # <<>> /\ Top.kind = "loop" /\ Top.items # <<>>
  BY TopTyped DEF NextReferenceItem
<1>2. Top.name \in Name /\ Head(Top.items) \in Value /\ Tail(Top.items) \in Seq(Value)
  BY <1>1, HeadTailProperties DEF FrameOK, Frame
<1>3. scopes' \in Seq(Scope) /\ scopes' # <<>>
  BY <1>2, PlainTyped, SingleScopeTyped, MoreScopesTyped DEF NextReferenceItem
<1> DEFINE top == [Top EXCEPT !.items = Tail(@)]
           walked == [frames EXCEPT ![Len(frames)] = top]
<1>4. top \in Frame /\ FrameOK(top)
  <2>1. top \in Frame /\ top.kind = Top.kind /\ top.name = Top.name
    BY <1>1, <1>2 DEF Frame
  <2> QED
    BY <1>1, <1>2, <2>1 DEF FrameOK
<1>5. walked \in Seq(Frame) /\ Len(walked) = Len(frames)
        /\ \A k \in 1..Len(frames) : walked[k] = IF k = Len(frames) THEN top ELSE frames[k]
  BY <1>1, <1>4, ExceptSeq, SameScopesTyped
<1>6. frames' = Append(walked, OpenFrame("block"))
  BY DEF NextReferenceItem, Top
<1>7. OpenFrame("block") \in Frame /\ FrameOK(OpenFrame("block"))
  BY PlainFrameOK DEF WellTyped
<1>8. /\ frames' \in Seq(Frame) /\ Len(frames') = Len(frames) + 1
      /\ \A k \in 1..Len(frames) : frames'[k] = walked[k]
      /\ frames'[Len(frames) + 1] = OpenFrame("block")
  <2> HIDE DEF walked
  <2> QED
    BY <1>5, <1>6, <1>7, AppendProperties, SameScopesTyped
<1>9. \A k \in DOMAIN frames' : FrameOK(frames'[k])
  <2> HIDE DEF walked, top
  <2> SUFFICES ASSUME NEW k \in 1..(Len(frames) + 1) PROVE FrameOK(frames'[k])
    BY <1>8
  <2>0. Len(frames) \in Nat
    BY SameScopesTyped
  <2>1. CASE k = Len(frames) + 1
    BY <2>1, <1>7, <1>8
  <2>2. CASE k = Len(frames)
    BY <2>2, <1>4, <1>5, <1>8, SameScopesTyped
  <2>3. CASE k \in 1..(Len(frames) - 1)
    BY <2>3, <1>5, <1>8, SameScopesTyped DEF WellTyped
  <2> QED
    BY <2>0, <2>1, <2>2, <2>3
<1> QED
  BY <1>3, <1>8, <1>9 DEF NextReferenceItem, WellTyped, Typed

\* Starting a loop by value keeps the types.
LEMMA BeginForTyped ==
  ASSUME WellTyped, NEW n \in Name, NEW mutable \in BOOLEAN, NEW source, BeginFor(n, mutable, source)
  PROVE  WellTyped'
<1> DEFINE id == Lookup(source).val
<1>1. id \in Collection /\ DOMAIN heap[id] # {}
  BY DEF BeginFor
<1>2. PICK items \in Elements(id) :
        /\ scopes' = Append(scopes, [m \in {n} |-> Plain(Head(items), mutable)])
        /\ PushFrame([OpenFrame("each") EXCEPT !.name = n, !.items = Tail(items)])
  BY DEF BeginFor
<1>3. items \in Seq(Value)
  BY <1>1, ElementsTyped, SameScopesTyped
<1>4. items # <<>>
  <2>1. CASE id \in List
    BY <1>1, <2>1 DEF Elements
  <2>2. CASE id \in Hash
    <3>1. PICK keys \in SUBSET Key : heap[id] \in [keys -> Value]
      <4>1. HeapOK(heap)
        BY SameScopesTyped
      <4> QED
        BY <2>2, <4>1 DEF HeapOK
    <3>2. IsFiniteSet(keys) /\ keys # {}
      BY <1>1, <3>1, FiniteAssumption, FS_Subset
    <3>3. Cardinality(keys) \in Nat /\ Cardinality(keys) # 0
      BY <3>2, FS_CardinalityType, FS_EmptySet
    <3>4. id \notin List
      BY <2>2, ValuesAssumption
    <3>5. PICK order \in [1..Cardinality(keys) -> keys] :
            items = [i \in DOMAIN order |-> heap[id][order[i]]]
      BY <3>1, <3>4 DEF Elements
    <3>6. 1 \in DOMAIN items
      BY <3>3, <3>5
    <3> QED
      BY <3>6
  <2> QED
    BY <1>1, <2>1, <2>2 DEF Collection
<1>5. Head(items) \in Value /\ Tail(items) \in Seq(Value)
  BY <1>3, <1>4, HeadTailProperties
<1>6. scopes' \in Seq(Scope) /\ scopes' # <<>>
  BY <1>2, <1>5, PlainTyped, SingleScopeTyped, MoreScopesTyped
<1>7. frames' \in Seq(Frame) /\ \A k \in DOMAIN frames' : FrameOK(frames'[k])
  BY <1>2, <1>5, ItemsFrameTyped, PushTyped DEF WellTyped
<1> QED
  BY <1>6, <1>7 DEF BeginFor, WellTyped, Typed

\* The next element of a loop by value keeps the types and the names.
LEMMA NextItemTyped ==
  ASSUME WellTyped, NextItem
  PROVE  /\ WellTyped' /\ Len(scopes') = Len(scopes)
         /\ \A i \in 1..Len(scopes) : DOMAIN scopes'[i] = DOMAIN scopes[i]
<1>1. Top \in Frame /\ FrameOK(Top) /\ frames # <<>> /\ Top.kind = "each" /\ Top.items # <<>>
  BY TopTyped DEF NextItem
<1>2. Top.name \in Name /\ Head(Top.items) \in Value /\ Tail(Top.items) \in Seq(Value)
  BY <1>1, HeadTailProperties DEF FrameOK, Frame
<1> DEFINE n == Top.name
           scope == scopes[Len(scopes)]
           changed == [scope EXCEPT ![n].val = Head(Top.items)]
           top == [Top EXCEPT !.items = Tail(@)]
<1>3. Len(scopes) \in 1..Len(scopes) /\ scope \in Scope
  BY SameScopesTyped
<1>4. changed \in Scope /\ DOMAIN changed = DOMAIN scope
  <2>1. PICK names \in SUBSET Name : scope \in [names -> Binding]
    BY <1>3 DEF Scope
  <2>2. n \in names => [scope[n] EXCEPT !.val = Head(Top.items)] \in Binding
    BY <1>2, <2>1 DEF Binding
  <2>3. changed \in [names -> Binding] /\ DOMAIN changed = DOMAIN scope
    BY <2>1, <2>2
  <2> QED
    BY <2>3 DEF Scope
<1>5. scopes' = [scopes EXCEPT ![Len(scopes)] = changed]
  BY DEF NextItem, Current
<1>6. /\ scopes' \in Seq(Scope) /\ Len(scopes') = Len(scopes)
      /\ \A i \in 1..Len(scopes) : scopes'[i] = IF i = Len(scopes) THEN changed ELSE scopes[i]
  BY <1>3, <1>4, <1>5, ExceptSeq, SameScopesTyped
<1>7. top \in Frame /\ FrameOK(top)
  <2>1. top \in Frame /\ top.kind = Top.kind /\ top.name = Top.name
    BY <1>1, <1>2 DEF Frame
  <2> QED
    BY <1>1, <1>2, <2>1 DEF FrameOK
<1>8. frames' \in Seq(Frame) /\ \A k \in DOMAIN frames' : FrameOK(frames'[k])
  BY <1>1, <1>7, SetTopTyped DEF NextItem
<1>9. WellTyped'
  BY <1>6, <1>8, SameScopesTyped DEF NextItem, WellTyped, Typed
<1> QED
  BY <1>4, <1>6, <1>9

\* The initial state is well typed.
LEMMA InitTyped == Init => WellTyped
<1> SUFFICES ASSUME Init PROVE WellTyped
  OBVIOUS
<1>1. InitialScope \in Scope
  BY InitialAssumption, ScopeIsScopeOK
<1>2. scopes \in Seq(Scope) /\ scopes # <<>>
  BY <1>1 DEF Init
<1>3. active \in Seq(Loan) /\ frames \in Seq(Frame) /\ DOMAIN frames = {}
  BY DEF Init
<1>4. HeapOK(heap)
  BY InitialAssumption DEF Init
<1> QED
  BY <1>2, <1>3, <1>4 DEF WellTyped, Typed
=============================================================================
