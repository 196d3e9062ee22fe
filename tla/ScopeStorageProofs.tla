------------------------- MODULE ScopeStorageProofs -------------------------
(* For every set of names, values and types, and without regard to bounds:    *)
(* the handles of the scopes resolve, handles given up never do again, the    *)
(* maps agree, and values keep the types recorded for their names.            *)
EXTENDS ScopeStorage, SequenceTheorems, TLAPS

-----------------------------------------------------------------------------
(* Sequences.                                                                *)

LEMMA CutFacts ==
  ASSUME NEW S, NEW s \in Seq(S), s # <<>>
  PROVE  /\ Cut(s) \in Seq(S) /\ Len(Cut(s)) = Len(s) - 1
         /\ \A i \in 1..(Len(s) - 1) : Cut(s)[i] = s[i]
         /\ Len(s) \in Nat \ {0} /\ Len(s) \in 1..Len(s) /\ End(s) = s[Len(s)] /\ End(s) \in S
<1>1. Len(s) \in Nat \ {0} /\ s[Len(s)] \in S
  OBVIOUS
<1>2. /\ SubSeq(s, 1, Len(s) - 1) \in Seq(S) /\ Len(SubSeq(s, 1, Len(s) - 1)) = Len(s) - 1
      /\ \A i \in 1..(Len(s) - 1) : SubSeq(s, 1, Len(s) - 1)[i] = s[i]
  BY <1>1, SubSeqProperties
<1> QED
  BY <1>1, <1>2 DEF Cut, End

LEMMA AppendFacts ==
  ASSUME NEW S, NEW s \in Seq(S), NEW e \in S
  PROVE  /\ Append(s, e) \in Seq(S) /\ Append(s, e) # <<>> /\ Len(Append(s, e)) = Len(s) + 1
         /\ \A i \in 1..Len(s) : Append(s, e)[i] = s[i]
         /\ Append(s, e)[Len(s) + 1] = e
         /\ Len(s) \in Nat
BY AppendProperties

LEMMA UpToLast == \A n \in Nat : \A i \in 1..(n + 1) : i = n + 1 \/ i \in 1..n
OBVIOUS

\* A stack of maps with one name set in the current scope.
WithOne(S, s, n, x, t) ==
  /\ t \in Seq([Name -> S]) /\ Len(t) = Len(s) /\ t # <<>>
  /\ \A i \in 1..Len(s), m \in Name : t[i][m] = IF i = Len(s) /\ m = n THEN x ELSE s[i][m]

LEMMA WithCurrentFacts ==
  ASSUME NEW S, NEW s \in Seq([Name -> S]), s # <<>>, NEW n \in Name, NEW x \in S,
         NEW t, t = WithCurrent(s, n, x)
  PROVE  WithOne(S, s, n, x, t)
<1> DEFINE f == [s[Len(s)] EXCEPT ![n] = x]
<1>1. Len(s) \in 1..Len(s) /\ s[Len(s)] \in [Name -> S]
  OBVIOUS
<1>2. f \in [Name -> S] /\ \A m \in Name : f[m] = IF m = n THEN x ELSE s[Len(s)][m]
  BY <1>1
<1>3. t = [s EXCEPT ![Len(s)] = f]
  BY DEF WithCurrent
<1> HIDE DEF f
<1>4. /\ t \in Seq([Name -> S]) /\ Len(t) = Len(s)
      /\ \A i \in 1..Len(s) : t[i] = IF i = Len(s) THEN f ELSE s[i]
  BY <1>1, <1>2, <1>3
<1>5. t # <<>>
  BY <1>1, <1>4
<1>6. ASSUME NEW i \in 1..Len(s), NEW m \in Name
      PROVE  t[i][m] = IF i = Len(s) /\ m = n THEN x ELSE s[i][m]
  <2>1. CASE i = Len(s)
    BY <1>1, <1>2, <1>4, <2>1
  <2>2. CASE i # Len(s)
    BY <1>4, <2>2
  <2> QED
    BY <2>1, <2>2
<1> QED
  BY <1>4, <1>5, <1>6 DEF WithOne

-----------------------------------------------------------------------------
(* Increasing sequences of the scopes that have a name.                      *)

Index == Nat \ {0}

Enumerates(s, S) ==
  /\ s \in Seq(Index)
  /\ Increasing(s)
  /\ \A i \in Index : i \in S <=> \E k \in 1..Len(s) : s[k] = i

LEMMA EnumeratesAppend ==
  ASSUME NEW s, NEW S, Enumerates(s, S), NEW i \in Index, \A j \in Index : j \in S => j < i
  PROVE  Enumerates(Append(s, i), S \cup {i})
<1> DEFINE t == Append(s, i)
<1>1. s \in Seq(Index) /\ Increasing(s)
  BY DEF Enumerates
<1>2. /\ t \in Seq(Index) /\ Len(t) = Len(s) + 1 /\ Len(s) \in Nat
      /\ \A k \in 1..Len(s) : t[k] = s[k] /\ s[k] \in Index
      /\ t[Len(s) + 1] = i
  BY <1>1, AppendFacts
<1> HIDE DEF t
<1>3. \A k \in 1..Len(s) : s[k] < i
  BY <1>2 DEF Enumerates
<1>4. Increasing(t)
  <2> SUFFICES ASSUME NEW j \in 1..(Len(s) + 1), NEW k \in 1..(Len(s) + 1), j < k
               PROVE  t[j] < t[k]
    BY <1>2 DEF Increasing
  <2>1. j \in 1..Len(s) /\ (k = Len(s) + 1 \/ k \in 1..Len(s))
    BY <1>2
  <2> QED
    BY <1>1, <1>2, <1>3, <2>1 DEF Increasing
<1>5. ASSUME NEW m \in Index PROVE m \in S \cup {i} <=> \E k \in 1..Len(t) : t[k] = m
  <2>1. m \in S <=> \E k \in 1..Len(s) : s[k] = m
    BY DEF Enumerates
  <2>2. \A k \in 1..Len(s) : k \in 1..(Len(s) + 1)
    BY <1>2
  <2>3. \A k \in 1..(Len(s) + 1) : k = Len(s) + 1 \/ k \in 1..Len(s)
    BY <1>2
  <2>4. Len(s) + 1 \in 1..(Len(s) + 1)
    BY <1>2
  <2> QED
    BY <1>2, <2>1, <2>2, <2>3, <2>4
<1> QED
  BY <1>2, <1>4, <1>5 DEF Enumerates, t

LEMMA EnumeratesEnd ==
  ASSUME NEW s, NEW S, Enumerates(s, S)
  PROVE  /\ s # <<>> <=> \E i \in Index : i \in S
         /\ s # <<>> => /\ End(s) \in Index /\ End(s) \in S
                        /\ \A i \in Index : i \in S => i <= End(s)
                        /\ \A k \in 1..Len(s) : s[k] = End(s) <=> k = Len(s)
<1>1. s \in Seq(Index) /\ Increasing(s) /\ \A k \in 1..Len(s) : s[k] \in Index
  BY DEF Enumerates
<1>2. (\E k \in 1..Len(s) : TRUE) <=> s # <<>>
  BY <1>1
<1>3. ASSUME s # <<>>
      PROVE  /\ End(s) \in Index /\ End(s) \in S
             /\ \A k \in 1..Len(s) : k = Len(s) \/ s[k] < End(s)
  <2>1. Len(s) \in 1..Len(s) /\ End(s) = s[Len(s)] /\ End(s) \in Index
    BY <1>1, <1>3, CutFacts
  <2>2. \A k \in 1..Len(s) : k = Len(s) \/ k < Len(s)
    BY <1>1
  <2> QED
    BY <1>1, <2>1, <2>2 DEF Increasing, Enumerates
<1>4. ASSUME NEW i \in Index PROVE i \in S <=> \E k \in 1..Len(s) : s[k] = i
  BY DEF Enumerates
<1>5. s # <<>> <=> \E i \in Index : i \in S
  BY <1>1, <1>2, <1>4
<1>6. ASSUME s # <<>>, NEW i \in Index, i \in S PROVE i <= End(s)
  <2>1. PICK k \in 1..Len(s) : s[k] = i
    BY <1>4, <1>6
  <2>2. CASE k = Len(s)
    BY <2>1, <2>2 DEF End, Index
  <2>3. CASE k # Len(s)
    BY <1>3, <1>6, <2>1, <2>3 DEF Index
  <2> QED
    BY <2>2, <2>3
<1>7. ASSUME s # <<>>, NEW k \in 1..Len(s) PROVE s[k] = End(s) <=> k = Len(s)
  <2>1. s[k] < End(s) => s[k] # End(s)
    BY <1>1, <1>3, <1>7 DEF Index
  <2> QED
    BY <1>3, <1>7, <2>1 DEF End
<1> QED
  BY <1>3, <1>5, <1>6, <1>7

LEMMA EnumeratesCut ==
  ASSUME NEW s, NEW S, Enumerates(s, S), NEW i \in Index, i \in S, \A j \in Index : j \in S => j <= i
  PROVE  s # <<>> /\ End(s) = i /\ Enumerates(Cut(s), S \ {i})
<1>1. s \in Seq(Index) /\ Increasing(s) /\ s # <<>> /\ End(s) = i
  <2>1. s # <<>> /\ End(s) \in Index /\ End(s) \in S /\ i <= End(s)
    BY EnumeratesEnd
  <2>2. End(s) <= i
    BY <2>1
  <2>3. End(s) = i
    BY <2>1, <2>2 DEF Index
  <2> QED
    BY <2>1, <2>3 DEF Enumerates
<1> DEFINE t == Cut(s)
<1>2. /\ t \in Seq(Index) /\ Len(t) = Len(s) - 1 /\ Len(s) \in Index
      /\ \A k \in 1..(Len(s) - 1) : t[k] = s[k]
      /\ s[Len(s)] = i
  BY <1>1, CutFacts DEF Index
<1> HIDE DEF t
<1>3. \A k \in 1..(Len(s) - 1) : k \in 1..Len(s)
  BY <1>2 DEF Index
<1>4. \A k \in 1..Len(s) : k = Len(s) \/ k \in 1..(Len(s) - 1)
  BY <1>2 DEF Index
<1>5. Increasing(t)
  BY <1>1, <1>2, <1>3 DEF Increasing
<1>6. ASSUME NEW m \in Index PROVE m \in S \ {i} <=> \E k \in 1..Len(t) : t[k] = m
  <2>1. m \in S <=> \E k \in 1..Len(s) : s[k] = m
    BY DEF Enumerates
  <2>2. \A k \in 1..Len(s) : s[k] = i <=> k = Len(s)
    BY <1>1, EnumeratesEnd
  <2>3. \A k \in 1..(Len(s) - 1) : k # Len(s)
    BY <1>2 DEF Index
  <2> QED
    BY <1>2, <1>3, <1>4, <2>1, <2>2, <2>3
<1> QED
  BY <1>1, <1>2, <1>5, <1>6 DEF Enumerates, t

LEMMA EnumeratesSame ==
  ASSUME NEW s, NEW S, NEW T, Enumerates(s, S), \A i \in Index : i \in T <=> i \in S
  PROVE  Enumerates(s, T)
BY DEF Enumerates

-----------------------------------------------------------------------------
(* The arena.                                                                *)

Slot == [generation : 0..MaxGeneration, value : Val \cup {None}]

ArenaOK(a) ==
  /\ a \in [slots : Seq(Slot), free : Seq(Index)]
  /\ \A k \in 1..Len(a.free) : a.free[k] \in 1..Len(a.slots) /\ a.slots[a.free[k]].value = None
  /\ \A j, k \in 1..Len(a.free) : a.free[j] = a.free[k] => j = k

\* A handle that can never resolve again: its slot has passed to a later
\* generation, or is retired.
Dead(a, h) ==
  /\ h.index \in 1..Len(a.slots)
  /\ \/ h.generation < a.slots[h.index].generation
     \/ /\ h.generation = a.slots[h.index].generation
        /\ a.slots[h.index].value = None
        /\ \A k \in 1..Len(a.free) : a.free[k] # h.index

\* What the operations of the arena do to handles: h is new, is written, is removed.
Inserted(a, b, h, v) ==
  /\ ArenaOK(b) /\ h \in Handle /\ Resolves(b, h) /\ Get(b, h) = v
  /\ \A g \in Handle :
       /\ Resolves(a, g) => Resolves(b, g) /\ Get(b, g) = Get(a, g) /\ g.index # h.index
       /\ Dead(a, g) => Dead(b, g)

Written(a, b, h, v) ==
  /\ ArenaOK(b)
  /\ \A g \in Handle :
       /\ Resolves(a, g) => Resolves(b, g) /\ Get(b, g) = IF g.index = h.index THEN v ELSE Get(a, g)
       /\ Dead(a, g) => Dead(b, g)

Removed(a, b, h) ==
  /\ ArenaOK(b) /\ Dead(b, h)
  /\ \A g \in Handle :
       /\ Resolves(a, g) /\ g.index # h.index => Resolves(b, g) /\ Get(b, g) = Get(a, g)
       /\ Dead(a, g) => Dead(b, g)

LEMMA DeadNeverResolves ==
  ASSUME NEW a, ArenaOK(a), NEW h \in Handle, Dead(a, h)
  PROVE  ~Resolves(a, h)
<1>1. h.index \in 1..Len(a.slots) /\ a.slots \in Seq(Slot) /\ h.generation \in Nat
  BY DEF Dead, ArenaOK, Handle
<1>2. a.slots[h.index] \in Slot
  BY <1>1
<1>3. a.slots[h.index].generation \in Nat
  BY <1>2, MaxGenerationAssumption DEF Slot
<1> QED
  BY <1>1, <1>3 DEF Dead, Resolves

\* A slot is written in place.
LEMMA SlotsExcept ==
  ASSUME NEW s \in Seq(Slot), NEW i \in 1..Len(s), NEW slot \in Slot
  PROVE  /\ [s EXCEPT ![i] = slot] \in Seq(Slot)
         /\ Len([s EXCEPT ![i] = slot]) = Len(s)
         /\ \A j \in 1..Len(s) : [s EXCEPT ![i] = slot][j] = IF j = i THEN slot ELSE s[j]
OBVIOUS

LEMMA InsertFacts ==
  ASSUME NEW a, ArenaOK(a), NEW v \in Val
  PROVE  Inserted(a, Insert(a, v), NextHandle(a), v)
<1> DEFINE b == Insert(a, v)
           h == NextHandle(a)
<1>1. /\ a \in [slots : Seq(Slot), free : Seq(Index)] /\ a.slots \in Seq(Slot) /\ a.free \in Seq(Index)
      /\ Len(a.slots) \in Nat /\ \A i \in 1..Len(a.slots) : a.slots[i] \in Slot
  BY DEF ArenaOK
<1>2. v # None /\ MaxGeneration \in Nat
  BY DataAssumption, MaxGenerationAssumption
<1>3. CASE a.free = <<>>
  <2> DEFINE slot == [generation |-> 0, value |-> v]
             s == Append(a.slots, slot)
             n == Len(a.slots) + 1
  <2>1. slot \in Slot /\ slot.value = v /\ slot.generation = 0
    BY <1>2 DEF Slot
  <2>2. b = [a EXCEPT !.slots = s] /\ h = [index |-> n, generation |-> 0]
    BY <1>3 DEF Insert, NextHandle
  <2> HIDE DEF slot
  <2>3. s \in Seq(Slot) /\ Len(s) = n /\ s[n] = slot /\ \A i \in 1..Len(a.slots) : s[i] = a.slots[i]
    BY <1>1, <2>1, AppendFacts
  <2> HIDE DEF s
  <2>4. b \in [slots : Seq(Slot), free : Seq(Index)] /\ b.slots = s /\ b.free = <<>>
    BY <1>1, <1>3, <2>2, <2>3
  <2>5. h \in Handle /\ h.index = n /\ h.generation = 0 /\ n \in 1..n /\ \A i \in 1..Len(a.slots) : i \in 1..n /\ i # n
    BY <1>1, <2>2 DEF Handle
  <2> HIDE DEF b, h, n
  <2>6. ArenaOK(b)
    BY <2>4 DEF ArenaOK
  <2>7. Resolves(b, h) /\ Get(b, h) = v
    BY <1>2, <2>1, <2>3, <2>4, <2>5 DEF Resolves, Get
  <2>8. ASSUME NEW g \in Handle
        PROVE  /\ Resolves(a, g) => Resolves(b, g) /\ Get(b, g) = Get(a, g) /\ g.index # h.index
               /\ Dead(a, g) => Dead(b, g)
    BY <1>3, <2>3, <2>4, <2>5 DEF Resolves, Get, Dead
  <2> QED
    BY <2>5, <2>6, <2>7, <2>8 DEF Inserted, b, h
<1>4. CASE a.free # <<>>
  <2> DEFINE n == a.free[Len(a.free)]
             slot == [a.slots[n] EXCEPT !.value = v]
             s == [a.slots EXCEPT ![n] = slot]
             f == Cut(a.free)
  <2>1. /\ n \in 1..Len(a.slots) /\ a.slots[n].value = None /\ n \in Index /\ Len(a.free) \in 1..Len(a.free)
        /\ Len(a.free) \in Nat \ {0}
    BY <1>1, <1>4, CutFacts DEF ArenaOK, End
  <2>2. a.slots[n] \in Slot
    BY <1>1, <2>1
  <2>3. slot \in Slot /\ slot.value = v /\ slot.generation = a.slots[n].generation /\ slot.generation \in Nat
    BY <1>2, <2>2 DEF Slot
  <2>4. b = [slots |-> s, free |-> f] /\ h = [index |-> n, generation |-> a.slots[n].generation]
    BY <1>4 DEF Insert, NextHandle, Cut
  <2> HIDE DEF slot
  <2>5. /\ s \in Seq(Slot) /\ Len(s) = Len(a.slots)
        /\ \A i \in 1..Len(a.slots) : s[i] = IF i = n THEN slot ELSE a.slots[i]
    BY <1>1, <2>1, <2>3, SlotsExcept
  <2>6. f \in Seq(Index) /\ Len(f) = Len(a.free) - 1 /\ \A k \in 1..(Len(a.free) - 1) : f[k] = a.free[k]
    BY <1>1, <1>4, CutFacts
  <2>7. /\ b \in [slots : Seq(Slot), free : Seq(Index)] /\ b.slots = s /\ b.free = f
        /\ h \in Handle /\ h.index = n /\ h.generation = slot.generation
    BY <2>1, <2>3, <2>4, <2>5, <2>6 DEF Handle, Index
  <2> HIDE DEF b, h, s, f
  <2>8. \A k \in 1..Len(f) : k \in 1..Len(a.free) /\ f[k] = a.free[k] /\ f[k] # n
    <3>1. \A k \in 1..(Len(a.free) - 1) : k \in 1..Len(a.free) /\ k # Len(a.free)
      BY <2>1
    <3> HIDE DEF n
    <3>2. \A k \in 1..Len(a.free) : a.free[k] = n => k = Len(a.free)
      BY <2>1 DEF ArenaOK, n
    <3> QED
      BY <2>6, <3>1, <3>2
  <2> HIDE DEF n
  <2>9. ArenaOK(b)
    <3>1. \A k \in 1..Len(f) : f[k] \in 1..Len(a.slots) /\ a.slots[f[k]].value = None
      BY <2>8 DEF ArenaOK
    <3>2. \A j, k \in 1..Len(f) : f[j] = f[k] => j = k
      BY <2>8 DEF ArenaOK
    <3> QED
      BY <2>5, <2>7, <2>8, <3>1, <3>2 DEF ArenaOK
  <2>10. Resolves(b, h) /\ Get(b, h) = v
    BY <1>2, <2>1, <2>3, <2>5, <2>7 DEF Resolves, Get
  <2>11. ASSUME NEW g \in Handle, Resolves(a, g)
         PROVE  Resolves(b, g) /\ Get(b, g) = Get(a, g) /\ g.index # h.index
    BY <2>1, <2>5, <2>7, <2>11 DEF Resolves, Get
  <2>12. ASSUME NEW g \in Handle, Dead(a, g)
         PROVE  Dead(b, g)
    <3>1. \A k \in 1..Len(a.free) : a.free[k] # g.index => \/ k # Len(a.free) \/ n # g.index
      BY DEF n
    <3>2. CASE g.index = n
      BY <2>1, <2>3, <2>5, <2>7, <2>12, <3>1, <3>2 DEF Dead
    <3>3. CASE g.index # n
      BY <2>5, <2>7, <2>8, <2>12, <3>3 DEF Dead
    <3> QED
      BY <3>2, <3>3
  <2> QED
    BY <2>7, <2>9, <2>10, <2>11, <2>12 DEF Inserted, b, h
<1> QED
  BY <1>3, <1>4

LEMMA PutFacts ==
  ASSUME NEW a, ArenaOK(a), NEW h \in Handle, Resolves(a, h), NEW v \in Val
  PROVE  Written(a, Put(a, h, v), h, v)
<1> DEFINE b == Put(a, h, v)
           slot == [a.slots[h.index] EXCEPT !.value = v]
           s == [a.slots EXCEPT ![h.index] = slot]
<1>1. /\ a \in [slots : Seq(Slot), free : Seq(Index)] /\ a.slots \in Seq(Slot) /\ a.free \in Seq(Index)
      /\ h.index \in 1..Len(a.slots) /\ a.slots[h.index].value # None /\ v # None
  BY DataAssumption DEF ArenaOK, Resolves
<1>2. a.slots[h.index] \in Slot
  BY <1>1
<1>3. slot \in Slot /\ slot.value = v /\ slot.generation = a.slots[h.index].generation
  BY <1>2 DEF Slot
<1>4. b = [a EXCEPT !.slots = s]
  BY <1>1 DEF Put
<1> HIDE DEF slot
<1>5. /\ s \in Seq(Slot) /\ Len(s) = Len(a.slots)
      /\ \A i \in 1..Len(a.slots) : s[i] = IF i = h.index THEN slot ELSE a.slots[i]
  BY <1>1, <1>3, SlotsExcept
<1> HIDE DEF s
<1>6. b \in [slots : Seq(Slot), free : Seq(Index)] /\ b.slots = s /\ b.free = a.free
  BY <1>1, <1>4, <1>5
<1> HIDE DEF b
<1>7. \A k \in 1..Len(a.free) : a.free[k] # h.index
  BY <1>1 DEF ArenaOK
<1>8. ArenaOK(b)
  BY <1>5, <1>6, <1>7 DEF ArenaOK
<1>9. ASSUME NEW g \in Handle
      PROVE  /\ Resolves(a, g) => Resolves(b, g) /\ Get(b, g) = IF g.index = h.index THEN v ELSE Get(a, g)
             /\ Dead(a, g) => Dead(b, g)
  BY <1>1, <1>3, <1>5, <1>6 DEF Resolves, Get, Dead
<1> QED
  BY <1>8, <1>9 DEF Written, b

LEMMA RemoveFacts ==
  ASSUME NEW a, ArenaOK(a), NEW h \in Handle, Resolves(a, h)
  PROVE  Removed(a, Remove(a, h), h)
<1> DEFINE b == Remove(a, h)
<1>1. /\ a \in [slots : Seq(Slot), free : Seq(Index)] /\ a.slots \in Seq(Slot) /\ a.free \in Seq(Index)
      /\ h.index \in 1..Len(a.slots) /\ a.slots[h.index].value # None /\ h.index \in Index
      /\ h.generation = a.slots[h.index].generation /\ h.generation \in Nat /\ MaxGeneration \in Nat
  BY MaxGenerationAssumption DEF ArenaOK, Resolves, Handle, Index
<1>2. a.slots[h.index] \in Slot /\ h.generation <= MaxGeneration
  <2>1. a.slots[h.index] \in Slot
    BY <1>1
  <2> QED
    BY <1>1, <2>1 DEF Slot
<1>3. \A k \in 1..Len(a.free) : a.free[k] # h.index
  BY <1>1 DEF ArenaOK
<1>4. CASE h.generation < MaxGeneration
  <2> DEFINE slot == [generation |-> h.generation + 1, value |-> None]
             s == [a.slots EXCEPT ![h.index] = slot]
             f == Append(a.free, h.index)
  <2>1. b = [slots |-> s, free |-> f]
    BY <1>4 DEF Remove
  <2>2. slot \in Slot /\ slot.value = None /\ slot.generation = h.generation + 1
    <3>1. h.generation + 1 \in 0..MaxGeneration
      BY <1>1, <1>4
    <3> QED
      BY <3>1 DEF Slot
  <2> HIDE DEF slot
  <2>3. /\ s \in Seq(Slot) /\ Len(s) = Len(a.slots)
        /\ \A i \in 1..Len(a.slots) : s[i] = IF i = h.index THEN slot ELSE a.slots[i]
    BY <1>1, <2>2, SlotsExcept
  <2>4. /\ f \in Seq(Index) /\ Len(f) = Len(a.free) + 1 /\ Len(a.free) \in Nat
        /\ \A k \in 1..Len(a.free) : f[k] = a.free[k]
        /\ f[Len(a.free) + 1] = h.index
    BY <1>1, AppendFacts
  <2>5. b \in [slots : Seq(Slot), free : Seq(Index)] /\ b.slots = s /\ b.free = f
    BY <2>1, <2>3, <2>4
  <2> HIDE DEF b, s, f
  <2>6. \A k \in 1..Len(f) : k = Len(a.free) + 1 \/ k \in 1..Len(a.free)
    BY <2>4
  <2>7. ArenaOK(b)
    <3>1. ASSUME NEW k \in 1..Len(f) PROVE f[k] \in 1..Len(s) /\ s[f[k]].value = None
      <4>1. CASE k = Len(a.free) + 1
        BY <1>1, <2>2, <2>3, <2>4, <4>1
      <4>2. CASE k \in 1..Len(a.free)
        <5>1. f[k] = a.free[k] /\ f[k] # h.index
          BY <1>3, <2>4, <4>2
        <5>2. f[k] \in 1..Len(a.slots) /\ a.slots[f[k]].value = None
          BY <4>2, <5>1 DEF ArenaOK
        <5> QED
          BY <2>3, <5>1, <5>2
      <4> QED
        BY <2>6, <4>1, <4>2
    <3>2. \A j, k \in 1..Len(f) : f[j] = f[k] => j = k
      BY <1>3, <2>4, <2>6 DEF ArenaOK
    <3> QED
      BY <2>5, <3>1, <3>2 DEF ArenaOK
  <2>8. Dead(b, h)
    BY <1>1, <2>2, <2>3, <2>5 DEF Dead
  <2>9. ASSUME NEW g \in Handle, Resolves(a, g), g.index # h.index
        PROVE  Resolves(b, g) /\ Get(b, g) = Get(a, g)
    BY <2>3, <2>5, <2>9 DEF Resolves, Get
  <2>10. ASSUME NEW g \in Handle, Dead(a, g)
         PROVE  Dead(b, g)
    <3>1. g.index \in 1..Len(a.slots) /\ g.generation \in Nat
      BY <2>10 DEF Dead, Handle
    <3>2. CASE g.index = h.index
      BY <1>1, <2>2, <2>3, <2>5, <2>10, <3>1, <3>2 DEF Dead
    <3>3. CASE g.index # h.index
      BY <2>3, <2>4, <2>5, <2>6, <2>10, <3>1, <3>3 DEF Dead
    <3> QED
      BY <3>2, <3>3
  <2> QED
    BY <2>7, <2>8, <2>9, <2>10 DEF Removed, b
<1>5. CASE h.generation >= MaxGeneration
  <2> DEFINE slot == [a.slots[h.index] EXCEPT !.value = None]
             s == [a.slots EXCEPT ![h.index] = slot]
  <2>1. b = [slots |-> s, free |-> a.free]
    BY <1>1, <1>5 DEF Remove
  <2>2. slot \in Slot /\ slot.value = None /\ slot.generation = h.generation
    BY <1>1, <1>2 DEF Slot
  <2> HIDE DEF slot
  <2>3. /\ s \in Seq(Slot) /\ Len(s) = Len(a.slots)
        /\ \A i \in 1..Len(a.slots) : s[i] = IF i = h.index THEN slot ELSE a.slots[i]
    BY <1>1, <2>2, SlotsExcept
  <2>4. b \in [slots : Seq(Slot), free : Seq(Index)] /\ b.slots = s /\ b.free = a.free
    BY <1>1, <2>1, <2>3
  <2> HIDE DEF b, s
  <2>5. ArenaOK(b)
    <3>1. /\ \A k \in 1..Len(a.free) : a.free[k] \in 1..Len(a.slots) /\ a.slots[a.free[k]].value = None
          /\ \A j, k \in 1..Len(a.free) : a.free[j] = a.free[k] => j = k
      BY DEF ArenaOK
    <3>2. \A k \in 1..Len(a.free) : a.free[k] \in 1..Len(s) /\ s[a.free[k]].value = None
      BY <1>3, <2>3, <3>1
    <3> QED
      BY <2>4, <3>1, <3>2 DEF ArenaOK
  <2>6. Dead(b, h)
    BY <1>1, <1>3, <2>2, <2>3, <2>4 DEF Dead
  <2>7. ASSUME NEW g \in Handle, Resolves(a, g), g.index # h.index
        PROVE  Resolves(b, g) /\ Get(b, g) = Get(a, g)
    BY <2>3, <2>4, <2>7 DEF Resolves, Get
  <2>8. ASSUME NEW g \in Handle, Dead(a, g)
        PROVE  Dead(b, g)
    BY <1>1, <2>2, <2>3, <2>4, <2>8 DEF Dead
  <2> QED
    BY <2>5, <2>6, <2>7, <2>8 DEF Removed, b
<1> QED
  BY <1>1, <1>2, <1>4, <1>5

-----------------------------------------------------------------------------
(* The invariant.                                                            *)

\* The handle a name has in a scope, or had in the one that is being drained; the
\* type recorded for it.
At(i, n) ==
  IF i <= Current THEN scopes[i][n]
  ELSE IF i = Current + 1 /\ work.kind = "drain" THEN work.todo[n] ELSE None
TypeAt(i, n) == IF i <= Current THEN types[i][n] ELSE None

Binders(n) == {i \in Index : At(i, n) # None}
Recorders(n) == {i \in Index : TypeAt(i, n) # None}

\* Every cell has a handle of its own, which resolves; those given up are dead.
CellsOK ==
  /\ \A i \in Index, n \in Name : At(i, n) # None => Resolves(arena, At(i, n))
  /\ \A i, j \in Index, m, n \in Name :
       At(i, m) # None /\ At(j, n) # None /\ At(i, m).index = At(j, n).index => i = j /\ m = n
  /\ \A h \in released : Dead(arena, h)

BindingsOK ==
  \A n \in Name :
    /\ Enumerates(bindings[n], Binders(n))
    /\ Len(mutability[n]) = Len(bindings[n])
    /\ Len(references[n]) = Len(bindings[n])
    /\ Len(exclusives[n]) = Len(bindings[n])

\* Types are recorded where names are bound, but not for items of pipelines.
RecordsOK ==
  /\ \A n \in Name : Enumerates(typeBindings[n], Recorders(n))
  /\ \A i \in 1..Current, n \in Name : types[i][n] # None => scopes[i][n] # None

ItemsOK ==
  \A i \in 1..Current : \A k \in 1..Len(items[i]) :
    /\ scopes[i][items[i][k]] # None
    /\ types[i][items[i][k]] = None
    /\ \A j \in 1..Len(items[i]) : items[i][j] = items[i][k] => j = k

\* A loop under way: its names are free; its targets are where they were resolved.
WorkOK ==
  \A n \in Name : work.todo[n] # None =>
    /\ work.kind = "define" => scopes[Current][n] = None
    /\ work.kind = "assign" =>
         LET i == work.todo[n].scope
         IN  /\ i \in 1..Current /\ bindings[n] # <<>> /\ End(bindings[n]) = i
             /\ types[i][n] # None /\ <<i, n>> \notin refused => work.todo[n].value \in Admits[types[i][n]]

\* The types of the variables, more closely than TypeOK says them.
Shape ==
  /\ ArenaOK(arena)
  /\ scopes \in Seq([Name -> Handle \cup {None}]) /\ scopes # <<>>
  /\ mutability \in [Name -> Seq(BOOLEAN)]
  /\ references \in [Name -> Seq(BOOLEAN)]
  /\ exclusives \in [Name -> Seq(BOOLEAN)]
  /\ bindings \in [Name -> Seq(Index)]
  /\ types \in Seq([Name -> Type \cup {None}]) /\ Len(types) = Current
  /\ typeBindings \in [Name -> Seq(Index)]
  /\ items \in Seq(Seq(Name)) /\ Len(items) = Current
  /\ work \in Work
  /\ released \subseteq Handle
  /\ refused \subseteq Nat \X Name

IInv == Shape /\ CellsOK /\ BindingsOK /\ RecordsOK /\ ItemsOK /\ WorkOK /\ ValuesHaveTypes

-----------------------------------------------------------------------------
(* The steps the actions are made of.                                        *)

LEMMA BindingFacts ==
  ASSUME NEW b \in Bindings
  PROVE  /\ b.value \in Val /\ b.mutable \in BOOLEAN /\ b.reference \in BOOLEAN /\ b.exclusive \in BOOLEAN
         /\ b \in Entries /\ b # None
         /\ b = [value |-> b.value, mutable |-> b.mutable, reference |-> b.reference, exclusive |-> b.exclusive]
<1>1. PICK v \in Val, mutable \in BOOLEAN, reference \in BOOLEAN : b = Binding(v, mutable, reference)
  BY DEF Bindings
<1>2. b = [value |-> v, mutable |-> mutable, reference |-> reference, exclusive |-> mutable /\ reference]
  BY <1>1 DEF Binding
<1>3. (mutable /\ reference) \in BOOLEAN
  OBVIOUS
<1>4. b \in Entries
  BY <1>2, <1>3 DEF Entries
<1> QED
  BY <1>2, <1>3, <1>4, DataAssumption

LEMMA WorkKinds ==
  ASSUME work \in Work
  PROVE  /\ work.kind \in {"none", "define", "assign", "drain"}
         /\ work.kind = "none" => work = Idle
         /\ work.kind = "define" => work.todo \in [Name -> Plain \cup {None}]
         /\ work.kind = "assign" => work.todo \in [Name -> Write \cup {None}]
         /\ work.kind = "drain" => work.todo \in [Name -> Handle \cup {None}]
BY DEF Work, Idle

LEMMA NoWork ==
  ASSUME work = Idle
  PROVE  work.kind = "none" /\ work.todo = Unbound /\ \A n \in Name : work.todo[n] = None
BY DEF Idle, Unbound

LEMMA ShapeFacts ==
  ASSUME Shape
  PROVE  /\ Current \in Nat \ {0} /\ Current \in Index /\ Current \in 1..Current
         /\ \A i \in Index : i <= Current <=> i \in 1..Current
         /\ \A i \in 1..Current, n \in Name : scopes[i][n] \in Handle \cup {None} /\ types[i][n] \in Type \cup {None}
         /\ \A i \in 1..Current, n \in Name : At(i, n) = scopes[i][n] /\ TypeAt(i, n) = types[i][n]
         /\ \A i \in Index, n \in Name : At(i, n) \in Handle \cup {None}
<1>1. /\ scopes \in Seq([Name -> Handle \cup {None}]) /\ scopes # <<>> /\ Current = Len(scopes)
      /\ types \in Seq([Name -> Type \cup {None}]) /\ Len(types) = Current /\ work \in Work
  BY DEF Shape, Current
<1>2. Current \in Nat \ {0} /\ Current \in 1..Current
  BY <1>1
<1>3. \A i \in Index : i <= Current <=> i \in 1..Current
  BY <1>2 DEF Index
<1>4. \A i \in 1..Current : scopes[i] \in [Name -> Handle \cup {None}] /\ types[i] \in [Name -> Type \cup {None}]
  BY <1>1
<1>5. \A i \in 1..Current : i <= Current
  BY <1>2
<1> HIDE DEF Current
<1>6. \A i \in 1..Current, n \in Name : At(i, n) = scopes[i][n] /\ TypeAt(i, n) = types[i][n]
  BY <1>5 DEF At, TypeAt
<1>7. ASSUME NEW i \in Index, NEW n \in Name PROVE At(i, n) \in Handle \cup {None}
  BY <1>1, <1>3, <1>4, WorkKinds DEF At
<1> QED
  BY <1>2, <1>3, <1>4, <1>6, <1>7 DEF Index

\* Handles stay where they are; the arena keeps them.
LEMMA CellsSame ==
  ASSUME Shape, CellsOK, released' = released,
         \A g \in Handle : /\ Resolves(arena, g) => Resolves(arena', g)
                           /\ Dead(arena, g) => Dead(arena', g),
         \A i \in Index, n \in Name : At(i, n)' = At(i, n)
  PROVE  CellsOK'
<1>1. \A i \in Index, n \in Name : At(i, n) # None => Resolves(arena', At(i, n))
  BY ShapeFacts DEF CellsOK
<1>2. \A h \in released : Dead(arena', h)
  BY DEF CellsOK, Shape
<1>3. \A i, j \in Index, m, n \in Name :
        At(i, m)' # None /\ At(j, n)' # None /\ At(i, m)'.index = At(j, n)'.index => i = j /\ m = n
  BY DEF CellsOK
<1> QED
  BY <1>1, <1>2, <1>3 DEF CellsOK

\* A cell gets a handle.
LEMMA CellsInsert ==
  ASSUME Shape, CellsOK, released' = released, NEW c \in Index, NEW x \in Name, At(c, x) = None,
         NEW h, NEW v, Inserted(arena, arena', h, v),
         \A i \in Index, n \in Name : At(i, n)' = IF i = c /\ n = x THEN h ELSE At(i, n)
  PROVE  CellsOK'
<1>1. ASSUME NEW i \in Index, NEW n \in Name, At(i, n) # None
      PROVE  Resolves(arena', At(i, n)) /\ At(i, n).index # h.index
  BY <1>1, ShapeFacts DEF CellsOK, Inserted
<1>2. Resolves(arena', h) /\ h # None
  BY DataAssumption DEF Inserted
<1>3. \A h1 \in released : Dead(arena', h1)
  BY DEF CellsOK, Shape, Inserted
<1>4. \A i \in Index, n \in Name : At(i, n)' # None => Resolves(arena', At(i, n)')
  BY <1>1, <1>2
<1>5. ASSUME NEW i \in Index, NEW j \in Index, NEW m \in Name, NEW n \in Name,
             At(i, m)' # None, At(j, n)' # None, At(i, m)'.index = At(j, n)'.index
      PROVE  i = j /\ m = n
  <2>1. At(i, m)' = (IF i = c /\ m = x THEN h ELSE At(i, m)) /\ At(j, n)' = IF j = c /\ n = x THEN h ELSE At(j, n)
    OBVIOUS
  <2>2. CASE i = c /\ m = x
    BY <1>1, <1>5, <2>1, <2>2
  <2>3. CASE ~(i = c /\ m = x)
    <3>1. At(i, m)' = At(i, m)
      BY <2>1, <2>3
    <3>2. CASE j = c /\ n = x
      BY <1>1, <1>5, <2>1, <3>1, <3>2
    <3>3. CASE ~(j = c /\ n = x)
      <4>1. At(j, n)' = At(j, n)
        BY <2>1, <3>3
      <4> QED
        BY <1>5, <3>1, <4>1 DEF CellsOK
    <3> QED
      BY <3>2, <3>3
  <2> QED
    BY <2>2, <2>3
<1> QED
  BY <1>3, <1>4, <1>5 DEF CellsOK

\* A cell gives its handle up.
LEMMA CellsRelease ==
  ASSUME Shape, CellsOK, NEW c \in Index, NEW x \in Name, At(c, x) # None,
         Release(At(c, x)),
         \A i \in Index, n \in Name : At(i, n)' = IF i = c /\ n = x THEN None ELSE At(i, n)
  PROVE  /\ CellsOK' /\ ArenaOK(arena') /\ released' \subseteq Handle
         /\ Removed(arena, arena', At(c, x))
         /\ \A i \in Index, n \in Name : At(i, n)' # None => Get(arena', At(i, n)) = Get(arena, At(i, n))
<1> DEFINE h == At(c, x)
<1>1. h \in Handle /\ Resolves(arena, h)
  BY ShapeFacts DEF CellsOK
<1>2. arena' = Remove(arena, h) /\ released' = released \cup {h}
  BY DEF Release
<1>3. Removed(arena, arena', h)
  BY <1>1, <1>2, RemoveFacts DEF Shape
<1> HIDE DEF h
<1>4. ASSUME NEW i \in Index, NEW n \in Name, ~(i = c /\ n = x), At(i, n) # None
      PROVE  Resolves(arena', At(i, n)) /\ Get(arena', At(i, n)) = Get(arena, At(i, n))
  <2>1. At(i, n) \in Handle /\ Resolves(arena, At(i, n)) /\ At(i, n).index # h.index
    BY <1>4, ShapeFacts DEF CellsOK, h
  <2> QED
    BY <1>3, <2>1 DEF Removed
<1>5. \A g \in released' : Dead(arena', g)
  BY <1>2, <1>3 DEF CellsOK, Shape, Removed
<1>6. \A i \in Index, n \in Name : At(i, n)' # None => At(i, n)' = At(i, n) /\ ~(i = c /\ n = x)
  OBVIOUS
<1>7. \A i, j \in Index, m, n \in Name :
        At(i, m)' # None /\ At(j, n)' # None /\ At(i, m)'.index = At(j, n)'.index => i = j /\ m = n
  BY <1>6 DEF CellsOK
<1>8. \A i \in Index, n \in Name : At(i, n)' # None => Resolves(arena', At(i, n)')
  BY <1>4, <1>6
<1>9. CellsOK'
  BY <1>5, <1>7, <1>8 DEF CellsOK
<1>10. released' \subseteq Handle
  BY <1>1, <1>2 DEF Shape
<1> QED
  BY <1>3, <1>4, <1>6, <1>9, <1>10 DEF Removed, h

LEMMA BindingsSame ==
  ASSUME BindingsOK, UNCHANGED <<bindings, mutability, references, exclusives>>,
         \A i \in Index, n \in Name : At(i, n)' = None <=> At(i, n) = None
  PROVE  BindingsOK'
<1> SUFFICES ASSUME NEW n \in Name
             PROVE  /\ Enumerates(bindings[n], Binders(n)')
                    /\ Len(mutability[n]) = Len(bindings[n])
                    /\ Len(references[n]) = Len(bindings[n])
                    /\ Len(exclusives[n]) = Len(bindings[n])
  BY DEF BindingsOK
<1>1. \A i \in Index : i \in Binders(n)' <=> i \in Binders(n)
  BY DEF Binders
<1>2. Enumerates(bindings[n], Binders(n))
  BY DEF BindingsOK
<1>3. Enumerates(bindings[n], Binders(n)')
  BY <1>1, <1>2, EnumeratesSame
<1> QED
  BY <1>3 DEF BindingsOK

\* The last scope that binds a name.
LEMMA LastBinder ==
  ASSUME BindingsOK, NEW n \in Name
  PROVE  /\ bindings[n] # <<>> <=> \E i \in Index : At(i, n) # None
         /\ bindings[n] # <<>> => /\ End(bindings[n]) \in Index /\ At(End(bindings[n]), n) # None
                                  /\ \A i \in Index : At(i, n) # None => i <= End(bindings[n])
<1>1. Enumerates(bindings[n], Binders(n))
  BY DEF BindingsOK
<1>2. \A i \in Index : i \in Binders(n) <=> At(i, n) # None
  BY DEF Binders
<1> QED
  BY <1>1, <1>2, EnumeratesEnd

\* A value is bound to a free name.
LEMMA DefineValueFacts ==
  ASSUME Shape, CellsOK, BindingsOK, NEW n \in Name, NEW b \in Bindings, DefineValue(n, b),
         scopes[Current][n] = None, work.kind # "drain", work'.kind # "drain", released' = released
  PROVE  /\ ArenaOK(arena') /\ NextHandle(arena) \in Handle /\ Get(arena', NextHandle(arena)) = b.value
         /\ scopes' \in Seq([Name -> Handle \cup {None}]) /\ scopes' # <<>> /\ Len(scopes') = Len(scopes)
         /\ \A i \in 1..Current, m \in Name :
              scopes'[i][m] = IF i = Current /\ m = n THEN NextHandle(arena) ELSE scopes[i][m]
         /\ \A i \in 1..Current, m \in Name :
              scopes[i][m] # None => Get(arena', scopes[i][m]) = Get(arena, scopes[i][m])
         /\ bindings' \in [Name -> Seq(Index)]
         /\ mutability' \in [Name -> Seq(BOOLEAN)]
         /\ references' \in [Name -> Seq(BOOLEAN)]
         /\ exclusives' \in [Name -> Seq(BOOLEAN)]
         /\ CellsOK' /\ BindingsOK'
<1> DEFINE h == NextHandle(arena)
<1>1. /\ arena' = Insert(arena, b.value) /\ scopes' = WithCurrent(scopes, n, h)
      /\ bindings' = [bindings EXCEPT ![n] = Append(@, Current)]
      /\ mutability' = [mutability EXCEPT ![n] = Append(@, b.mutable)]
      /\ references' = [references EXCEPT ![n] = Append(@, b.reference)]
      /\ exclusives' = [exclusives EXCEPT ![n] = Append(@, b.exclusive)]
  BY DEF DefineValue
<1>2. Inserted(arena, arena', h, b.value)
  BY <1>1, BindingFacts, InsertFacts DEF Shape
<1>3. ArenaOK(arena') /\ h \in Handle /\ Get(arena', h) = b.value
  BY <1>2 DEF Inserted
<1> HIDE DEF h
<1>4. /\ scopes' \in Seq([Name -> Handle \cup {None}]) /\ scopes' # <<>> /\ Len(scopes') = Len(scopes)
      /\ \A i \in 1..Len(scopes), m \in Name :
           scopes'[i][m] = IF i = Len(scopes) /\ m = n THEN h ELSE scopes[i][m]
  <2> DEFINE S == Handle \cup {None}
  <2>1. h \in S /\ scopes \in Seq([Name -> S]) /\ scopes # <<>> /\ scopes' = WithCurrent(scopes, n, h)
    BY <1>1, <1>3 DEF Shape
  <2> HIDE DEF S
  <2>2. WithOne(S, scopes, n, h, scopes')
    BY <2>1, WithCurrentFacts
  <2> QED
    BY <2>2 DEF S, WithOne
<1>5. ASSUME NEW i \in 1..Current, NEW m \in Name, scopes[i][m] # None
      PROVE  Get(arena', scopes[i][m]) = Get(arena, scopes[i][m])
  <2>1. i \in Index /\ At(i, m) = scopes[i][m] /\ scopes[i][m] \in Handle
    BY <1>5, ShapeFacts DEF Index
  <2>2. Resolves(arena, scopes[i][m])
    BY <1>5, <2>1 DEF CellsOK
  <2> QED
    BY <1>2, <2>1, <2>2 DEF Inserted
<1>6. Current' = Current
  BY <1>4 DEF Current
<1>7. ASSUME NEW i \in Index, NEW m \in Name
      PROVE  At(i, m)' = IF i = Current /\ m = n THEN h ELSE At(i, m)
  <2>1. CASE i \in 1..Current
    BY <1>4, <1>6, <2>1, ShapeFacts DEF At, Current
  <2>2. CASE i \notin 1..Current
    BY <1>6, <2>2, ShapeFacts DEF At
  <2> QED
    BY <2>1, <2>2
<1>8. At(Current, n) = None /\ Current \in Index
  BY ShapeFacts
<1>9. CellsOK'
  BY <1>2, <1>7, <1>8, CellsInsert
<1>10. /\ bindings \in [Name -> Seq(Index)] /\ mutability \in [Name -> Seq(BOOLEAN)]
       /\ references \in [Name -> Seq(BOOLEAN)] /\ exclusives \in [Name -> Seq(BOOLEAN)]
  BY DEF Shape
<1>11. /\ bindings' \in [Name -> Seq(Index)] /\ mutability' \in [Name -> Seq(BOOLEAN)]
       /\ references' \in [Name -> Seq(BOOLEAN)] /\ exclusives' \in [Name -> Seq(BOOLEAN)]
       /\ Len(bindings'[n]) = Len(bindings[n]) + 1 /\ bindings'[n] = Append(bindings[n], Current)
       /\ Len(mutability'[n]) = Len(mutability[n]) + 1
       /\ Len(references'[n]) = Len(references[n]) + 1
       /\ Len(exclusives'[n]) = Len(exclusives[n]) + 1
  BY <1>1, <1>8, <1>10, BindingFacts, AppendFacts
<1>12. BindingsOK'
  <2> SUFFICES ASSUME NEW m \in Name
               PROVE  /\ Enumerates(bindings'[m], Binders(m)')
                      /\ Len(mutability'[m]) = Len(bindings'[m])
                      /\ Len(references'[m]) = Len(bindings'[m])
                      /\ Len(exclusives'[m]) = Len(bindings'[m])
    BY DEF BindingsOK
  <2>1. CASE m = n
    <3>1. \A j \in Index : j \in Binders(n) => j < Current
      <4>1. \A j \in Index : At(j, n) # None => j <= Current /\ j # Current
        BY <1>8 DEF At
      <4> QED
        BY <1>8, <4>1 DEF Binders, Index
    <3>2. Enumerates(Append(bindings[n], Current), Binders(n) \cup {Current})
      BY <1>8, <3>1, EnumeratesAppend DEF BindingsOK
    <3>3. h # None
      BY <1>3, DataAssumption
    <3>4. \A i \in Index : i \in Binders(n)' <=> i \in Binders(n) \cup {Current}
      BY <1>7, <3>3 DEF Binders
    <3>5. Enumerates(bindings'[n], Binders(n)')
      BY <1>11, <3>2, <3>4, EnumeratesSame
    <3> QED
      BY <1>11, <2>1, <3>5 DEF BindingsOK
  <2>2. CASE m # n
    <3>1. \A i \in Index : i \in Binders(m)' <=> i \in Binders(m)
      BY <1>7, <2>2 DEF Binders
    <3>2. /\ bindings'[m] = bindings[m] /\ mutability'[m] = mutability[m]
          /\ references'[m] = references[m] /\ exclusives'[m] = exclusives[m]
      BY <1>1, <1>10, <2>2
    <3>3. Enumerates(bindings'[m], Binders(m)')
      BY <3>1, <3>2, EnumeratesSame DEF BindingsOK
    <3> QED
      BY <3>2, <3>3 DEF BindingsOK
  <2> QED
    BY <2>1, <2>2
<1> QED
  BY <1>3, <1>4, <1>5, <1>9, <1>11, <1>12 DEF h, Current

\* The last binding of a name is dropped.
LEMMA ForgetFacts ==
  ASSUME Shape, BindingsOK, NEW n \in Name, Forget(n), NEW c \in Index, At(c, n) # None,
         \A j \in Index : At(j, n) # None => j <= c,
         \A i \in Index, m \in Name : At(i, m)' = IF i = c /\ m = n THEN None ELSE At(i, m)
  PROVE  /\ bindings' \in [Name -> Seq(Index)]
         /\ mutability' \in [Name -> Seq(BOOLEAN)]
         /\ references' \in [Name -> Seq(BOOLEAN)]
         /\ exclusives' \in [Name -> Seq(BOOLEAN)]
         /\ bindings[n] # <<>> /\ End(bindings[n]) = c
         /\ BindingsOK'
<1>1. /\ bindings \in [Name -> Seq(Index)] /\ mutability \in [Name -> Seq(BOOLEAN)]
      /\ references \in [Name -> Seq(BOOLEAN)] /\ exclusives \in [Name -> Seq(BOOLEAN)]
  BY DEF Shape
<1>2. /\ bindings' = [bindings EXCEPT ![n] = Cut(@)] /\ mutability' = [mutability EXCEPT ![n] = Cut(@)]
      /\ references' = [references EXCEPT ![n] = Cut(@)] /\ exclusives' = [exclusives EXCEPT ![n] = Cut(@)]
  BY DEF Forget
<1>3. /\ Enumerates(bindings[n], Binders(n)) /\ Len(mutability[n]) = Len(bindings[n])
      /\ Len(references[n]) = Len(bindings[n]) /\ Len(exclusives[n]) = Len(bindings[n])
  BY DEF BindingsOK
<1>4. c \in Binders(n) /\ \A j \in Index : j \in Binders(n) => j <= c
  BY DEF Binders
<1>5. bindings[n] # <<>> /\ End(bindings[n]) = c /\ Enumerates(Cut(bindings[n]), Binders(n) \ {c})
  BY <1>3, <1>4, EnumeratesCut
<1>6. mutability[n] # <<>> /\ references[n] # <<>> /\ exclusives[n] # <<>>
  BY <1>1, <1>3, <1>5
<1>7. /\ Cut(bindings[n]) \in Seq(Index) /\ Len(Cut(bindings[n])) = Len(bindings[n]) - 1
      /\ Cut(mutability[n]) \in Seq(BOOLEAN) /\ Len(Cut(mutability[n])) = Len(mutability[n]) - 1
      /\ Cut(references[n]) \in Seq(BOOLEAN) /\ Len(Cut(references[n])) = Len(references[n]) - 1
      /\ Cut(exclusives[n]) \in Seq(BOOLEAN) /\ Len(Cut(exclusives[n])) = Len(exclusives[n]) - 1
  BY <1>1, <1>5, <1>6, CutFacts
<1>8. /\ bindings' \in [Name -> Seq(Index)] /\ mutability' \in [Name -> Seq(BOOLEAN)]
      /\ references' \in [Name -> Seq(BOOLEAN)] /\ exclusives' \in [Name -> Seq(BOOLEAN)]
  BY <1>1, <1>2, <1>7
<1>9. BindingsOK'
  <2> SUFFICES ASSUME NEW m \in Name
               PROVE  /\ Enumerates(bindings'[m], Binders(m)')
                      /\ Len(mutability'[m]) = Len(bindings'[m])
                      /\ Len(references'[m]) = Len(bindings'[m])
                      /\ Len(exclusives'[m]) = Len(bindings'[m])
    BY DEF BindingsOK
  <2>1. CASE m = n
    <3>1. \A i \in Index : i \in Binders(n)' <=> i \in Binders(n) \ {c}
      BY DEF Binders
    <3>2. /\ bindings'[n] = Cut(bindings[n]) /\ mutability'[n] = Cut(mutability[n])
          /\ references'[n] = Cut(references[n]) /\ exclusives'[n] = Cut(exclusives[n])
      BY <1>1, <1>2
    <3>3. Enumerates(bindings'[n], Binders(n)')
      BY <1>5, <3>1, <3>2, EnumeratesSame
    <3> QED
      BY <1>3, <1>7, <2>1, <3>2, <3>3
  <2>2. CASE m # n
    <3>1. \A i \in Index : i \in Binders(m)' <=> i \in Binders(m)
      BY <2>2 DEF Binders
    <3>2. /\ bindings'[m] = bindings[m] /\ mutability'[m] = mutability[m]
          /\ references'[m] = references[m] /\ exclusives'[m] = exclusives[m]
      BY <1>1, <1>2, <2>2
    <3>3. Enumerates(bindings'[m], Binders(m)')
      BY <3>1, <3>2, EnumeratesSame DEF BindingsOK
    <3> QED
      BY <3>2, <3>3 DEF BindingsOK
  <2> QED
    BY <2>1, <2>2
<1> QED
  BY <1>5, <1>8, <1>9

\* A type is recorded for a name in the current scope.
LEMMA DefineTypeFacts ==
  ASSUME Shape, RecordsOK, NEW n \in Name, NEW t \in Type, DefineType(n, t), Len(scopes') = Len(scopes)
  PROVE  /\ types' \in Seq([Name -> Type \cup {None}]) /\ Len(types') = Current
         /\ \A i \in 1..Current, m \in Name :
              types'[i][m] = IF i = Current /\ m = n THEN t ELSE types[i][m]
         /\ typeBindings' \in [Name -> Seq(Index)]
         /\ \A m \in Name : Enumerates(typeBindings'[m], Recorders(m)')
<1>1. /\ types \in Seq([Name -> Type \cup {None}]) /\ Len(types) = Current /\ types # <<>>
      /\ typeBindings \in [Name -> Seq(Index)] /\ Current \in Index /\ Current \in 1..Current
      /\ Current \in Nat
  BY ShapeFacts DEF Shape, Index
<1>2. types' = WithCurrent(types, n, t) /\ t # None /\ Current' = Current
  BY DataAssumption DEF DefineType, Current
<1>3. /\ types' \in Seq([Name -> Type \cup {None}]) /\ Len(types') = Current
      /\ \A i \in 1..Current, m \in Name : types'[i][m] = IF i = Current /\ m = n THEN t ELSE types[i][m]
  <2> DEFINE S == Type \cup {None}
  <2>1. t \in S /\ types \in Seq([Name -> S]) /\ types # <<>>
    BY <1>1
  <2> HIDE DEF S
  <2>2. WithOne(S, types, n, t, types')
    BY <1>2, <2>1, WithCurrentFacts
  <2> QED
    BY <1>1, <2>2 DEF S, WithOne
<1>4. ASSUME NEW i \in Index, NEW m \in Name
      PROVE  TypeAt(i, m)' = IF i = Current /\ m = n THEN t ELSE TypeAt(i, m)
  <2>1. CASE i \in 1..Current
    BY <1>2, <1>3, <2>1, ShapeFacts DEF TypeAt
  <2>2. CASE i \notin 1..Current
    BY <1>1, <1>2, <2>2, ShapeFacts DEF TypeAt
  <2> QED
    BY <2>1, <2>2
<1>5. TypeAt(Current, n) = types[Current][n] /\ \A j \in Index, m \in Name : TypeAt(j, m) # None => j <= Current
  BY <1>1, ShapeFacts DEF TypeAt
<1> HIDE DEF Current
<1>6. ASSUME NEW m \in Name, m # n \/ types[Current][n] # None, typeBindings'[m] = typeBindings[m]
      PROVE  Enumerates(typeBindings'[m], Recorders(m)')
  <2>1. \A i \in Index : i \in Recorders(m)' <=> i \in Recorders(m)
    BY <1>2, <1>4, <1>5, <1>6 DEF Recorders
  <2> QED
    BY <1>6, <2>1, EnumeratesSame DEF RecordsOK
<1>7. CASE types[Current][n] # None
  <2>1. typeBindings' = typeBindings
    BY <1>1, <1>7 DEF DefineType
  <2> QED
    BY <1>1, <1>3, <1>6, <1>7, <2>1
<1>8. CASE types[Current][n] = None
  <2>1. typeBindings' = [typeBindings EXCEPT ![n] = Append(@, Current)]
    BY <1>1, <1>8 DEF DefineType
  <2>2. typeBindings' \in [Name -> Seq(Index)] /\ typeBindings'[n] = Append(typeBindings[n], Current)
    BY <1>1, <2>1, AppendFacts
  <2>3. \A j \in Index : j \in Recorders(n) => j < Current
    BY <1>1, <1>5, <1>8 DEF Recorders, Index
  <2>4. Enumerates(Append(typeBindings[n], Current), Recorders(n) \cup {Current})
    BY <1>1, <2>3, EnumeratesAppend DEF RecordsOK
  <2>5. \A i \in Index : i \in Recorders(n)' <=> i \in Recorders(n) \cup {Current}
    BY <1>2, <1>4 DEF Recorders
  <2>6. Enumerates(typeBindings'[n], Recorders(n)')
    BY <2>2, <2>4, <2>5, EnumeratesSame
  <2>7. \A m \in Name : m # n => typeBindings'[m] = typeBindings[m]
    BY <1>1, <2>1
  <2> QED
    BY <1>3, <1>6, <2>2, <2>6, <2>7
<1> QED
  BY <1>7, <1>8

\* The types stay as they are, and so do the scopes.
LEMMA RecordsSame ==
  ASSUME Shape, RecordsOK, UNCHANGED typing, Len(scopes') = Len(scopes)
  PROVE  \A m \in Name : Enumerates(typeBindings'[m], Recorders(m)')
<1> SUFFICES ASSUME NEW m \in Name PROVE Enumerates(typeBindings'[m], Recorders(m)')
  OBVIOUS
<1>1. \A i \in Index : i \in Recorders(m)' <=> i \in Recorders(m)
  BY DEF Recorders, TypeAt, typing, Current
<1> QED
  BY <1>1, EnumeratesSame DEF RecordsOK, typing

LoopOver(kind, todo) ==
  \/ kind = "define" /\ todo \in [Name -> Plain \cup {None}]
  \/ kind = "assign" /\ todo \in [Name -> Write \cup {None}]
  \/ kind = "drain" /\ todo \in [Name -> Handle \cup {None}]

LEMMA WorkIn ==
  ASSUME NEW kind, NEW todo, LoopOver(kind, todo)
  PROVE  [kind |-> kind, todo |-> todo] \in Work
<1> DEFINE D == [Name -> Plain \cup {None}]
           A == [Name -> Write \cup {None}]
           H == [Name -> Handle \cup {None}]
<1>1. \/ kind = "define" /\ todo \in D
      \/ kind = "assign" /\ todo \in A
      \/ kind = "drain" /\ todo \in H
  BY DEF LoopOver
<1> HIDE DEF D, A, H
<1>2. [kind |-> kind, todo |-> todo] \in
        [kind : {"define"}, todo : D] \cup [kind : {"assign"}, todo : A] \cup [kind : {"drain"}, todo : H]
  BY <1>1
<1> QED
  BY <1>2 DEF Work, D, A, H

\* A loop takes its next name.
LEMMA TodoNext ==
  ASSUME work \in Work, work.kind # "none", NEW n \in Name, work' = [work EXCEPT !.todo[n] = None]
  PROVE  /\ work' \in Work /\ work'.kind = work.kind
         /\ \A m \in Name : work'.todo[m] = IF m = n THEN None ELSE work.todo[m]
<1>1. work.todo \in [Name -> Plain \cup {None}] \cup [Name -> Write \cup {None}] \cup [Name -> Handle \cup {None}]
  BY WorkKinds
<1> DEFINE todo == [work.todo EXCEPT ![n] = None]
<1>2. \A m \in Name : todo[m] = IF m = n THEN None ELSE work.todo[m]
  BY <1>1
<1>3. /\ work.kind = "define" => todo \in [Name -> Plain \cup {None}]
      /\ work.kind = "assign" => todo \in [Name -> Write \cup {None}]
      /\ work.kind = "drain" => todo \in [Name -> Handle \cup {None}]
  BY WorkKinds
<1>4. work' = [work EXCEPT !.todo = todo]
  BY DEF Work
<1> HIDE DEF todo
<1>5. work' = [kind |-> work.kind, todo |-> todo]
  BY <1>4 DEF Work
<1>6. work.kind \in {"define", "assign", "drain"}
  BY WorkKinds
<1>7. work'.kind = work.kind /\ work'.todo = todo
  BY <1>5
<1>8. work' \in Work
  <2>1. LoopOver(work.kind, todo)
    BY <1>3, <1>6 DEF LoopOver
  <2>2. [kind |-> work.kind, todo |-> todo] \in Work
    BY ONLY <2>1, WorkIn
  <2> QED
    BY ONLY <1>5, <2>2
<1> QED
  BY <1>2, <1>7, <1>8

-----------------------------------------------------------------------------
(* Steps that several actions have in common.                                *)

\* Only the arena and the loop under way change.
LEMMA MapsSame ==
  ASSUME Shape, BindingsOK, RecordsOK, ItemsOK,
         UNCHANGED <<scopes, bindings, mutability, references, exclusives, typing, items, released, refused>>,
         ArenaOK(arena'), work' \in Work,
         \A i \in Index, m \in Name : At(i, m)' = At(i, m)
  PROVE  Shape' /\ BindingsOK' /\ RecordsOK' /\ ItemsOK'
<1>1. /\ scopes' = scopes /\ bindings' = bindings /\ mutability' = mutability /\ references' = references
      /\ exclusives' = exclusives /\ types' = types /\ typeBindings' = typeBindings /\ items' = items
      /\ released' = released /\ refused' = refused /\ Current' = Current
  BY DEF typing, Current
<1>2. Shape'
  BY <1>1 DEF Shape
<1>3. BindingsOK'
  BY <1>1, BindingsSame
<1>4. \A m \in Name : Enumerates(typeBindings'[m], Recorders(m)')
  BY <1>1, RecordsSame
<1>5. RecordsOK'
  BY <1>1, <1>4 DEF RecordsOK
<1>6. ItemsOK'
  BY <1>1 DEF ItemsOK
<1> QED
  BY <1>2, <1>3, <1>5, <1>6

\* Only the loop under way changes.
LEMMA WorkStep ==
  ASSUME IInv, UNCHANGED <<storage, typing, items, released, refused>>, work' \in Work,
         \A i \in Index, m \in Name : At(i, m)' = At(i, m), WorkOK'
  PROVE  IInv'
<1>1. /\ arena' = arena /\ released' = released
      /\ UNCHANGED <<scopes, bindings, mutability, references, exclusives, typing, items, released, refused>>
  BY DEF storage
<1>2. Shape /\ CellsOK /\ BindingsOK /\ RecordsOK /\ ItemsOK /\ ValuesHaveTypes
  BY DEF IInv
<1>3. ArenaOK(arena')
  BY <1>1, <1>2 DEF Shape
<1>4. Shape' /\ BindingsOK' /\ RecordsOK' /\ ItemsOK'
  BY <1>1, <1>2, <1>3, MapsSame
<1>5. CellsOK'
  BY <1>1, <1>2, CellsSame
<1>6. ValuesHaveTypes'
  BY <1>1, <1>2 DEF ValuesHaveTypes, typing, Current
<1> QED
  BY <1>4, <1>5, <1>6 DEF IInv

\* The handle of a name in an open scope.
LEMMA CellFacts ==
  ASSUME Shape, CellsOK, NEW i \in 1..Current, NEW m \in Name, scopes[i][m] # None
  PROVE  /\ i \in Index /\ At(i, m) = scopes[i][m] /\ scopes[i][m] \in Handle
         /\ Resolves(arena, scopes[i][m])
<1>1. i \in Index /\ At(i, m) = scopes[i][m] /\ scopes[i][m] \in Handle
  BY ShapeFacts DEF Index
<1> QED
  BY <1>1 DEF CellsOK

LEMMA CellsApart ==
  ASSUME Shape, CellsOK, NEW i \in 1..Current, NEW j \in 1..Current, NEW m \in Name, NEW n \in Name,
         scopes[i][m] # None, scopes[j][n] # None, scopes[i][m].index = scopes[j][n].index
  PROVE  i = j /\ m = n
<1>1. i \in Index /\ At(i, m) = scopes[i][m] /\ j \in Index /\ At(j, n) = scopes[j][n]
  BY CellFacts
<1> QED
  BY <1>1 DEF CellsOK

\* A value is written to a binding: no other changes.
LEMMA PutCells ==
  ASSUME IInv, NEW c \in 1..Current, NEW n \in Name, NEW v \in Val, scopes[c][n] # None,
         arena' = Put(arena, scopes[c][n], v)
  PROVE  \A i \in 1..Current, m \in Name : scopes[i][m] # None =>
           Get(arena', scopes[i][m]) = IF i = c /\ m = n THEN v ELSE Get(arena, scopes[i][m])
<1> DEFINE h == scopes[c][n]
<1>1. Shape /\ CellsOK
  BY DEF IInv
<1>2. h \in Handle /\ Resolves(arena, h)
  BY <1>1, CellFacts
<1>3. Written(arena, arena', h, v)
  BY <1>1, <1>2, PutFacts DEF Shape
<1> HIDE DEF h
<1>4. ASSUME NEW i \in 1..Current, NEW m \in Name, scopes[i][m] # None
      PROVE  Get(arena', scopes[i][m]) = IF i = c /\ m = n THEN v ELSE Get(arena, scopes[i][m])
  <2>1. scopes[i][m] \in Handle /\ Resolves(arena, scopes[i][m])
    BY <1>1, <1>4, CellFacts
  <2>2. Get(arena', scopes[i][m]) = IF scopes[i][m].index = h.index THEN v ELSE Get(arena, scopes[i][m])
    BY <1>3, <2>1 DEF Written
  <2>3. scopes[i][m].index = h.index <=> (i = c /\ m = n)
    BY <1>1, <1>4, CellsApart DEF h
  <2> QED
    BY <2>2, <2>3
<1> QED
  BY <1>4

LEMMA PutStep ==
  ASSUME IInv, NEW c \in 1..Current, NEW n \in Name, NEW v \in Val, scopes[c][n] # None,
         arena' = Put(arena, scopes[c][n], v),
         types[c][n] # None /\ <<c, n>> \notin refused => v \in Admits[types[c][n]],
         UNCHANGED <<scopes, bindings, mutability, references, exclusives, typing, items, released, refused>>,
         work.kind # "drain", work'.kind # "drain", work' \in Work, WorkOK'
  PROVE  IInv'
<1>1. Shape /\ CellsOK /\ BindingsOK /\ RecordsOK /\ ItemsOK /\ ValuesHaveTypes
  BY DEF IInv
<1> DEFINE h == scopes[c][n]
<1>2. h \in Handle /\ Resolves(arena, h)
  BY <1>1, CellFacts
<1>3. Written(arena, arena', h, v)
  BY <1>1, <1>2, PutFacts DEF Shape
<1>4. Current' = Current /\ \A i \in Index, m \in Name : At(i, m)' = At(i, m)
  BY DEF At, Current
<1>5. CellsOK'
  <2>1. \A g \in Handle : (Resolves(arena, g) => Resolves(arena', g)) /\ (Dead(arena, g) => Dead(arena', g))
    BY <1>3 DEF Written
  <2> QED
    BY <1>1, <1>4, <2>1, CellsSame
<1>6. Shape' /\ BindingsOK' /\ RecordsOK' /\ ItemsOK'
  <2>1. ArenaOK(arena')
    BY <1>3 DEF Written
  <2> QED
    BY <1>1, <1>4, <2>1, MapsSame
<1> HIDE DEF h
<1>7. ASSUME NEW i \in 1..Current, NEW m \in Name, scopes[i][m] # None
      PROVE  Get(arena', scopes[i][m]) = IF i = c /\ m = n THEN v ELSE Get(arena, scopes[i][m])
  BY <1>7, PutCells
<1>8. ValuesHaveTypes'
  <2> SUFFICES ASSUME NEW i \in 1..Current, NEW m \in Name,
                      scopes[i][m] # None, types[i][m] # None, <<i, m>> \notin refused
               PROVE  Get(arena', scopes[i][m]) \in Admits[types[i][m]]
    BY <1>4 DEF ValuesHaveTypes, typing
  <2>1. CASE i = c /\ m = n
    BY <1>7, <2>1
  <2>2. CASE ~(i = c /\ m = n)
    BY <1>1, <1>7, <2>2 DEF ValuesHaveTypes
  <2> QED
    BY <2>1, <2>2
<1> QED
  BY <1>5, <1>6, <1>8 DEF IInv

\* A value is bound to a free name, and perhaps a type recorded that admits it.
LEMMA ItemsFollow ==
  ASSUME Current' = Current,
         \A i \in 1..Current : \A k \in 1..Len(items'[i]) :
           /\ scopes'[i][items'[i][k]] # None
           /\ types'[i][items'[i][k]] = None
           /\ \A j \in 1..Len(items'[i]) : items'[i][j] = items'[i][k] => j = k
  PROVE  ItemsOK'
BY DEF ItemsOK

LEMMA DefineStep ==
  ASSUME IInv, NEW n \in Name, NEW b \in Bindings, DefineValue(n, b), scopes[Current][n] = None,
         \/ UNCHANGED typing
         \/ \E t \in Type : DefineType(n, t) /\ b.value \in Admits[t],
         UNCHANGED <<released, refused>>, items' \in Seq(Seq(Name)), Len(items') = Current,
         \A i \in 1..Current : \A k \in 1..Len(items'[i]) :
           /\ scopes[i][items'[i][k]] # None \/ (i = Current /\ items'[i][k] = n /\ UNCHANGED typing)
           /\ types[i][items'[i][k]] = None
           /\ \A j \in 1..Len(items'[i]) : items'[i][j] = items'[i][k] => j = k,
         \A i \in 1..Current : items'[i] \in Seq(Name),
         work.kind # "drain", work'.kind # "drain", work' \in Work, WorkOK'
  PROVE  IInv'
<1>1. Shape /\ CellsOK /\ BindingsOK /\ RecordsOK /\ ValuesHaveTypes
  BY DEF IInv
<1> DEFINE h == NextHandle(arena)
<1>2. /\ ArenaOK(arena') /\ h \in Handle /\ Get(arena', h) = b.value
      /\ scopes' \in Seq([Name -> Handle \cup {None}]) /\ scopes' # <<>> /\ Len(scopes') = Len(scopes)
      /\ \A i \in 1..Current, m \in Name :
           scopes'[i][m] = IF i = Current /\ m = n THEN h ELSE scopes[i][m]
      /\ \A i \in 1..Current, m \in Name :
           scopes[i][m] # None => Get(arena', scopes[i][m]) = Get(arena, scopes[i][m])
      /\ bindings' \in [Name -> Seq(Index)]
      /\ mutability' \in [Name -> Seq(BOOLEAN)]
      /\ references' \in [Name -> Seq(BOOLEAN)]
      /\ exclusives' \in [Name -> Seq(BOOLEAN)]
      /\ CellsOK' /\ BindingsOK'
  BY <1>1, DefineValueFacts
<1> HIDE DEF h
<1>3. Current' = Current /\ Current \in 1..Current /\ h # None
  BY <1>1, <1>2, ShapeFacts, DataAssumption DEF Current
<1>4. /\ types' \in Seq([Name -> Type \cup {None}]) /\ Len(types') = Current
      /\ typeBindings' \in [Name -> Seq(Index)]
      /\ \A m \in Name : Enumerates(typeBindings'[m], Recorders(m)')
      /\ \A i \in 1..Current, m \in Name : i # Current \/ m # n => types'[i][m] = types[i][m]
      /\ types'[Current][n] = None \/ b.value \in Admits[types'[Current][n]]
      /\ UNCHANGED typing => types'[Current][n] = None
  <2>1. CASE UNCHANGED typing
    <3>1. types' = types /\ typeBindings' = typeBindings
      BY <2>1 DEF typing
    <3>2. \A m \in Name : Enumerates(typeBindings'[m], Recorders(m)')
      BY <1>1, <1>2, <2>1, RecordsSame
    <3>3. types[Current][n] = None
      BY <1>1, <1>3 DEF RecordsOK
    <3> QED
      BY <1>1, <3>1, <3>2, <3>3 DEF Shape
  <2>2. CASE ~UNCHANGED typing
    <3>1. PICK t \in Type : DefineType(n, t) /\ b.value \in Admits[t]
      BY <2>2
    <3>2. /\ types' \in Seq([Name -> Type \cup {None}]) /\ Len(types') = Current
          /\ \A i \in 1..Current, m \in Name :
               types'[i][m] = IF i = Current /\ m = n THEN t ELSE types[i][m]
          /\ typeBindings' \in [Name -> Seq(Index)]
          /\ \A m \in Name : Enumerates(typeBindings'[m], Recorders(m)')
      BY <1>1, <1>2, <3>1, DefineTypeFacts
    <3> QED
      BY <1>3, <2>2, <3>1, <3>2
  <2> QED
    BY <2>1, <2>2
<1>5. Shape'
  BY <1>1, <1>2, <1>3, <1>4 DEF Shape
<1>6. ASSUME NEW i \in 1..Current, NEW m \in Name, ~(i = Current /\ m = n)
      PROVE  /\ scopes'[i][m] = scopes[i][m] /\ types'[i][m] = types[i][m]
             /\ scopes[i][m] # None => Get(arena', scopes[i][m]) = Get(arena, scopes[i][m])
  <2>1. i # Current \/ m # n
    BY <1>6
  <2>2. scopes'[i][m] = scopes[i][m]
    BY <1>2, <1>6
  <2>3. types'[i][m] = types[i][m]
    BY <1>4, <2>1
  <2> QED
    BY <1>2, <2>2, <2>3
<1>7. scopes'[Current][n] = h
  BY <1>2, <1>3
<1>8. RecordsOK'
  <2>1. ASSUME NEW i \in 1..Current, NEW m \in Name, types'[i][m] # None PROVE scopes'[i][m] # None
    <3>1. CASE i = Current /\ m = n
      BY <1>3, <1>7, <3>1
    <3>2. CASE ~(i = Current /\ m = n)
      <4>1. scopes'[i][m] = scopes[i][m] /\ types'[i][m] = types[i][m]
        BY <1>6, <3>2
      <4>2. types[i][m] # None => scopes[i][m] # None
        BY <1>1 DEF RecordsOK
      <4> QED
        BY <2>1, <4>1, <4>2
    <3> QED
      BY <3>1, <3>2
  <2> QED
    BY <1>3, <1>4, <2>1 DEF RecordsOK
<1>9. ItemsOK'
  <2> SUFFICES ASSUME NEW i \in 1..Current, NEW k \in 1..Len(items'[i])
               PROVE  /\ scopes'[i][items'[i][k]] # None
                      /\ types'[i][items'[i][k]] = None
                      /\ \A j \in 1..Len(items'[i]) : items'[i][j] = items'[i][k] => j = k
    BY <1>3, ItemsFollow
  <2>1. items'[i][k] \in Name
    OBVIOUS
  <2>2. /\ scopes[i][items'[i][k]] # None \/ (i = Current /\ items'[i][k] = n /\ UNCHANGED typing)
        /\ types[i][items'[i][k]] = None
        /\ \A j \in 1..Len(items'[i]) : items'[i][j] = items'[i][k] => j = k
    OBVIOUS
  <2> DEFINE m == items'[i][k]
  <2> HIDE DEF m
  <2>3. CASE i = Current /\ m = n
    <3>1. UNCHANGED typing
      BY <2>2, <2>3 DEF m
    <3> QED
      BY <1>2, <1>3, <1>4, <2>2, <2>3, <3>1 DEF m
  <2>4. CASE ~(i = Current /\ m = n)
    <3>1. m \in Name
      BY <2>1 DEF m
    <3>2. scopes'[i][m] = scopes[i][m] /\ types'[i][m] = types[i][m]
      BY <1>6, <2>4, <3>1
    <3> QED
      BY <2>2, <2>4, <3>2 DEF m
  <2> QED
    BY <2>3, <2>4
<1>10. ValuesHaveTypes'
  <2> SUFFICES ASSUME NEW i \in 1..Current, NEW m \in Name,
                      scopes'[i][m] # None, types'[i][m] # None, <<i, m>> \notin refused
               PROVE  Get(arena', scopes'[i][m]) \in Admits[types'[i][m]]
    BY <1>3 DEF ValuesHaveTypes
  <2>1. CASE i = Current /\ m = n
    BY <1>2, <1>4, <2>1
  <2>2. CASE ~(i = Current /\ m = n)
    <3>1. /\ scopes'[i][m] = scopes[i][m] /\ types'[i][m] = types[i][m]
          /\ scopes[i][m] # None => Get(arena', scopes[i][m]) = Get(arena, scopes[i][m])
      BY <1>6, <2>2
    <3> QED
      BY <1>1, <3>1 DEF ValuesHaveTypes
  <2> QED
    BY <2>1, <2>2
<1> QED
  BY <1>2, <1>5, <1>8, <1>9, <1>10 DEF IInv

-----------------------------------------------------------------------------
(* The actions preserve the invariant.                                       *)

LEMMA AtSame ==
  ASSUME scopes' = scopes, work.kind # "drain", work'.kind # "drain"
  PROVE  \A i \in Index, m \in Name : At(i, m)' = At(i, m)
BY DEF At, Current

LEMMA NothingToDo ==
  ASSUME work' = work, work = Idle
  PROVE  WorkOK' /\ work.kind # "drain" /\ work'.kind # "drain" /\ work.kind = "none"
BY NoWork DEF WorkOK

\* DefineStep, when no item of a pipeline is bound.
LEMMA DefineHere ==
  ASSUME IInv, NEW n \in Name, NEW b \in Bindings, DefineValue(n, b), scopes[Current][n] = None,
         \/ UNCHANGED typing
         \/ \E t \in Type : DefineType(n, t) /\ b.value \in Admits[t],
         UNCHANGED <<items, released, refused>>,
         work.kind # "drain", work'.kind # "drain", work' \in Work, WorkOK'
  PROVE  IInv'
<1>1. items' = items /\ items \in Seq(Seq(Name)) /\ Len(items) = Current
  BY DEF IInv, Shape
<1>2. \A i \in 1..Current : items'[i] \in Seq(Name)
  BY <1>1
<1>3. \A i \in 1..Current : \A k \in 1..Len(items'[i]) :
        /\ scopes[i][items'[i][k]] # None
        /\ types[i][items'[i][k]] = None
        /\ \A j \in 1..Len(items'[i]) : items'[i][j] = items'[i][k] => j = k
  BY <1>1 DEF IInv, ItemsOK
<1> QED
  BY <1>1, <1>2, <1>3, DefineStep

LEMMA DeclareStep ==
  ASSUME IInv, NEW n \in Name, NEW t \in Type, NEW b \in Bindings, Declare(n, t, b)
  PROVE  IInv'
<1>1. work = Idle /\ items[Current] = <<>> /\ b.value \in Admits[t] /\ DefineType(n, t)
      /\ items' = items /\ work' = work /\ released' = released
  BY DEF Declare, Statement
<1>2. WorkOK' /\ work.kind # "drain" /\ work'.kind # "drain"
  BY <1>1, NothingToDo
<1>3. Shape /\ CellsOK /\ BindingsOK /\ RecordsOK /\ ItemsOK /\ ValuesHaveTypes /\ work' \in Work
  BY <1>1 DEF IInv, Shape
<1>4. CASE scopes[Current][n] = None
  <2>1. DefineValue(n, b) /\ refused' = refused
    BY <1>4 DEF Declare
  <2> QED
    BY <1>1, <1>2, <1>3, <1>4, <2>1, DefineHere
<1>5. CASE scopes[Current][n] # None
  <2>1. /\ refused' = refused \cup {<<Current, n>>}
        /\ arena' = arena /\ scopes' = scopes /\ bindings' = bindings /\ mutability' = mutability
        /\ references' = references /\ exclusives' = exclusives /\ Current' = Current
    BY <1>5 DEF Declare, storage, Current
  <2>2. Current \in 1..Current /\ Current \in Nat
    BY <1>3, ShapeFacts
  <2>3. /\ types' \in Seq([Name -> Type \cup {None}]) /\ Len(types') = Current
        /\ \A i \in 1..Current, m \in Name :
             types'[i][m] = IF i = Current /\ m = n THEN t ELSE types[i][m]
        /\ typeBindings' \in [Name -> Seq(Index)]
        /\ \A m \in Name : Enumerates(typeBindings'[m], Recorders(m)')
    BY <1>1, <1>3, <2>1, DefineTypeFacts
  <2>4. \A i \in Index, m \in Name : At(i, m)' = At(i, m)
    BY <1>2, <2>1, AtSame
  <2>5. CellsOK'
    BY <1>1, <1>3, <2>1, <2>4, CellsSame
  <2>6. BindingsOK'
    BY <1>3, <2>1, <2>4, BindingsSame
  <2>7. Shape'
    <3>1. /\ ArenaOK(arena')
          /\ scopes' \in Seq([Name -> Handle \cup {None}]) /\ scopes' # <<>>
          /\ mutability' \in [Name -> Seq(BOOLEAN)]
          /\ references' \in [Name -> Seq(BOOLEAN)]
          /\ exclusives' \in [Name -> Seq(BOOLEAN)]
          /\ bindings' \in [Name -> Seq(Index)]
      BY <1>3, <2>1 DEF Shape
    <3>2. items' \in Seq(Seq(Name)) /\ Len(items') = Current' /\ work' \in Work /\ released' \subseteq Handle
      BY <1>1, <1>3, <2>1 DEF Shape
    <3>3. refused' \subseteq Nat \X Name
      BY <1>3, <2>1, <2>2 DEF Shape
    <3>4. /\ types' \in Seq([Name -> Type \cup {None}]) /\ Len(types') = Current'
          /\ typeBindings' \in [Name -> Seq(Index)]
      BY <2>1, <2>3
    <3> QED
      BY <3>1, <3>2, <3>3, <3>4 DEF Shape
  <2>8. RecordsOK'
    <3>1. ASSUME NEW i \in 1..Current, NEW m \in Name, types'[i][m] # None PROVE scopes[i][m] # None
      <4>1. CASE i = Current /\ m = n
        BY <1>5, <4>1
      <4>2. CASE ~(i = Current /\ m = n)
        <5>1. types'[i][m] = types[i][m]
          BY <2>3, <4>2
        <5> QED
          BY <1>3, <3>1, <5>1 DEF RecordsOK
      <4> QED
        BY <4>1, <4>2
    <3>2. \A m \in Name : Enumerates(typeBindings'[m], Recorders(m)')
      BY <2>3
    <3> QED
      BY <2>1, <3>1, <3>2 DEF RecordsOK
  <2>9. ItemsOK'
    <3> SUFFICES ASSUME NEW i \in 1..Current, NEW k \in 1..Len(items[i])
                 PROVE  types'[i][items[i][k]] = None
      BY <1>1, <1>3, <2>1 DEF ItemsOK
    <3>1. i # Current
      BY <1>1
    <3>2. items[i] \in Seq(Name)
      BY <1>3 DEF Shape
    <3>3. items[i][k] \in Name
      BY <3>2
    <3>4. types[i][items[i][k]] = None
      BY <1>3 DEF ItemsOK
    <3>5. types'[i][items[i][k]] = types[i][items[i][k]]
      BY <2>3, <3>1, <3>3
    <3> QED
      BY <3>4, <3>5
  <2>10. ValuesHaveTypes'
    <3> SUFFICES ASSUME NEW i \in 1..Current, NEW m \in Name,
                        scopes[i][m] # None, types'[i][m] # None, <<i, m>> \notin refused'
                 PROVE  Get(arena, scopes[i][m]) \in Admits[types'[i][m]]
      BY <2>1 DEF ValuesHaveTypes
    <3>1. ~(i = Current /\ m = n) /\ <<i, m>> \notin refused
      BY <2>1
    <3>2. types'[i][m] = types[i][m]
      BY <2>3, <3>1
    <3>3. types[i][m] # None => Get(arena, scopes[i][m]) \in Admits[types[i][m]]
      BY <1>3, <3>1 DEF ValuesHaveTypes
    <3> QED
      BY <3>2, <3>3
  <2> QED
    BY <1>2, <2>5, <2>6, <2>7, <2>8, <2>9, <2>10 DEF IInv
<1> QED
  BY <1>4, <1>5

LEMMA DeclareManyStep ==
  ASSUME IInv, NEW new \in [Name -> Plain \cup {None}], DeclareMany(new)
  PROVE  IInv'
<1>1. /\ work = Idle /\ work' = [kind |-> "define", todo |-> new]
      /\ \A n \in Name : new[n] # None => scopes[Current][n] = None
      /\ UNCHANGED <<storage, typing, items, released, refused>> /\ scopes' = scopes /\ Current' = Current
  BY DEF DeclareMany, Statement, storage, Current
<1>2. LoopOver("define", new)
  BY DEF LoopOver
<1>3. work' \in Work
  BY <1>1, <1>2, WorkIn
<1>4. work'.kind = "define" /\ work'.todo = new /\ work.kind = "none"
  BY <1>1, NoWork
<1>5. \A i \in Index, m \in Name : At(i, m)' = At(i, m)
  BY <1>1, <1>4, AtSame
<1>6. WorkOK'
  BY <1>1, <1>4 DEF WorkOK
<1> QED
  BY <1>1, <1>3, <1>5, <1>6, WorkStep

LEMMA DeclareNextStep ==
  ASSUME IInv, NEW n \in Name, DeclareNext(n)
  PROVE  IInv'
<1> DEFINE b == work.todo[n]
           t == TypeOf[b.value]
<1>1. /\ work.kind = "define" /\ b # None /\ DefineValue(n, b) /\ DefineType(n, t)
      /\ work' = [work EXCEPT !.todo[n] = None]
      /\ UNCHANGED <<items, released, refused>> /\ released' = released
  BY DEF DeclareNext
<1>2. Shape /\ CellsOK /\ BindingsOK /\ WorkOK /\ work \in Work
  BY DEF IInv, Shape
<1>3. b \in Plain
  BY <1>1, <1>2, WorkKinds
<1>4. b \in Bindings
  BY <1>3 DEF Plain
<1>5. scopes[Current][n] = None
  BY <1>1, <1>2 DEF WorkOK
<1>6. /\ work' \in Work /\ work'.kind = "define"
      /\ \A m \in Name : work'.todo[m] = IF m = n THEN None ELSE work.todo[m]
  BY <1>1, <1>2, TodoNext
<1> HIDE DEF b
<1>7. t \in Type /\ b.value \in Admits[t]
  BY <1>4, BindingFacts, DataAssumption
<1> HIDE DEF t
<1>8. /\ Len(scopes') = Len(scopes)
      /\ \A i \in 1..Current, m \in Name :
           scopes'[i][m] = IF i = Current /\ m = n THEN NextHandle(arena) ELSE scopes[i][m]
  BY <1>1, <1>2, <1>4, <1>5, <1>6, DefineValueFacts
<1>9. Current' = Current /\ Current \in 1..Current
  BY <1>2, <1>8, ShapeFacts DEF Current
<1>10. WorkOK'
  <2> SUFFICES ASSUME NEW m \in Name, work'.todo[m] # None PROVE scopes'[Current][m] = None
    BY <1>6, <1>9 DEF WorkOK
  <2>1. m # n /\ work.todo[m] # None
    BY <1>6
  <2>2. scopes[Current][m] = None
    BY <1>1, <1>2, <2>1 DEF WorkOK
  <2> QED
    BY <1>8, <1>9, <2>1, <2>2
<1> QED
  BY <1>1, <1>4, <1>5, <1>6, <1>7, <1>10, DefineHere

LEMMA DeclareLoopStep ==
  ASSUME IInv, NEW n \in Name, NEW b \in Plain, DeclareLoop(n, b)
  PROVE  IInv'
<1>1. /\ work = Idle /\ work' = work /\ DefineValue(n, b) /\ scopes[Current] = Unbound
      /\ UNCHANGED <<typing, items, released, refused>>
  BY DEF DeclareLoop, Statement
<1>2. scopes[Current][n] = None
  BY <1>1 DEF Unbound
<1>3. b \in Bindings
  BY DEF Plain
<1>4. WorkOK' /\ work.kind # "drain" /\ work'.kind # "drain"
  BY <1>1, NothingToDo
<1>5. work' \in Work
  BY <1>1 DEF IInv, Shape
<1> QED
  BY <1>1, <1>2, <1>3, <1>4, <1>5, DefineHere

LEMMA BindingIn ==
  ASSUME NEW v \in Val
  PROVE  Binding(v, FALSE, FALSE) \in Bindings
<1>1. \A mutable, reference \in BOOLEAN : Binding(v, mutable, reference) \in Bindings
  BY DEF Bindings
<1> QED
  BY <1>1

LEMMA BindItemStep ==
  ASSUME IInv, NEW n \in Name, NEW v \in Val, BindItem(n, v)
  PROVE  IInv'
<1> DEFINE b == Binding(v, FALSE, FALSE)
<1>1. /\ work = Idle /\ work' = work /\ DefineValue(n, b) /\ scopes[Current][n] = None
      /\ items' = [items EXCEPT ![Current] = Append(@, n)]
      /\ UNCHANGED typing /\ UNCHANGED <<released, refused>>
  BY DEF BindItem
<1>2. b \in Bindings
  BY BindingIn
<1> HIDE DEF b
<1>3. WorkOK' /\ work.kind # "drain" /\ work'.kind # "drain"
  BY <1>1, NothingToDo
<1>4. /\ Shape /\ RecordsOK /\ ItemsOK /\ work' \in Work /\ items \in Seq(Seq(Name)) /\ Len(items) = Current
      /\ items[Current] \in Seq(Name) /\ Current \in 1..Current
  <2>1. Shape /\ RecordsOK /\ ItemsOK
    BY DEF IInv
  <2>2. work' \in Work /\ items \in Seq(Seq(Name)) /\ Len(items) = Current
    BY <1>1, <2>1 DEF Shape
  <2>3. Current \in 1..Current
    BY <2>1, ShapeFacts
  <2>4. items[Current] \in Seq(Name)
    BY <2>2, <2>3
  <2> QED
    BY <2>1, <2>2, <2>3, <2>4
<1> DEFINE s == Append(items[Current], n)
<1>5. /\ s \in Seq(Name) /\ Len(s) = Len(items[Current]) + 1 /\ Len(items[Current]) \in Nat
      /\ s[Len(items[Current]) + 1] = n
      /\ \A k \in 1..Len(items[Current]) : s[k] = items[Current][k]
  BY <1>4, AppendFacts
<1>6. items' = [items EXCEPT ![Current] = s]
  BY <1>1
<1> HIDE DEF s
<1>7. /\ items' \in Seq(Seq(Name)) /\ Len(items') = Current
      /\ \A i \in 1..Current : items'[i] = IF i = Current THEN s ELSE items[i]
  BY <1>4, <1>5, <1>6
<1>8. \A i \in 1..Current : items'[i] \in Seq(Name)
  BY <1>4, <1>5, <1>7
<1>9. types[Current][n] = None
  BY <1>1, <1>4 DEF RecordsOK
<1>10. ASSUME NEW i \in 1..Current, NEW k \in 1..Len(items'[i])
       PROVE  /\ scopes[i][items'[i][k]] # None \/ (i = Current /\ items'[i][k] = n /\ UNCHANGED typing)
              /\ types[i][items'[i][k]] = None
              /\ \A j \in 1..Len(items'[i]) : items'[i][j] = items'[i][k] => j = k
  <2>1. CASE i # Current
    BY <1>4, <1>7, <2>1 DEF ItemsOK
  <2>2. CASE i = Current
    <3>1. items'[i] = s
      BY <1>7, <2>2
    <3>2. ASSUME NEW j \in 1..Len(s) PROVE j = Len(items[Current]) + 1 \/ j \in 1..Len(items[Current])
      BY <1>5, UpToLast
    <3>3. ASSUME NEW j \in 1..Len(items[Current])
          PROVE  s[j] = items[Current][j] /\ scopes[Current][s[j]] # None /\ types[Current][s[j]] = None /\ s[j] # n
      <4>1. scopes[Current][items[Current][j]] # None /\ types[Current][items[Current][j]] = None
        BY <1>4 DEF ItemsOK
      <4>2. s[j] = items[Current][j]
        BY <1>5
      <4> QED
        BY <1>1, <4>1, <4>2
    <3>4. k \in 1..Len(s)
      BY <3>1
    <3>5. CASE k = Len(items[Current]) + 1
      <4>1. items'[i][k] = n
        BY <1>5, <3>1, <3>5
      <4>2. \A j \in 1..Len(s) : s[j] = n => j = k
        BY <3>2, <3>3, <3>5
      <4> QED
        BY <1>1, <1>9, <2>2, <3>1, <4>1, <4>2
    <3>6. CASE k \in 1..Len(items[Current])
      <4>1. scopes[Current][s[k]] # None /\ types[Current][s[k]] = None
        BY <3>3, <3>6
      <4>2. ASSUME NEW j \in 1..Len(s), s[j] = s[k] PROVE j = k
        <5>1. j \in 1..Len(items[Current])
          BY <1>5, <3>2, <3>3, <3>6, <4>2
        <5> QED
          BY <1>4, <3>3, <3>6, <4>2, <5>1 DEF ItemsOK
      <4> QED
        BY <2>2, <3>1, <4>1, <4>2
    <3> QED
      BY <3>2, <3>4, <3>5, <3>6
  <2> QED
    BY <2>1, <2>2
<1> QED
  BY <1>1, <1>2, <1>3, <1>4, <1>7, <1>8, <1>10, DefineStep

\* The visible binding of a name is its last one.
LEMMA Visible ==
  ASSUME IInv, work.kind # "drain", NEW n \in Name
  PROVE  /\ bindings[n] # <<>> =>
              /\ End(bindings[n]) \in 1..Current /\ scopes[End(bindings[n])][n] # None
              /\ \A i \in 1..Current : scopes[i][n] # None => i <= End(bindings[n])
              /\ ScopeOf(n) = End(bindings[n])
         /\ bindings[n] = <<>> => ScopeOf(n) = 0 /\ \A i \in 1..Current : scopes[i][n] = None
<1>1. Shape /\ BindingsOK
  BY DEF IInv
<1>2. /\ Current \in Nat \ {0} /\ Current \in 1..Current
      /\ \A i \in Index : i <= Current <=> i \in 1..Current
      /\ \A i \in 1..Current : At(i, n) = scopes[i][n] /\ i \in Index
  BY <1>1, ShapeFacts DEF Index
<1>3. \A i \in Index : At(i, n) # None => i \in 1..Current
  BY <1>2 DEF At
<1> HIDE DEF Current
<1>4. CASE bindings[n] # <<>>
  <2> DEFINE c == End(bindings[n])
  <2>1. c \in Index /\ At(c, n) # None /\ \A i \in Index : At(i, n) # None => i <= c
    BY <1>1, <1>4, LastBinder
  <2> HIDE DEF c
  <2>2. c \in 1..Current /\ scopes[c][n] # None
    BY <1>2, <1>3, <2>1
  <2>3. \A i \in 1..Current : scopes[i][n] # None => i <= c
    BY <1>2, <2>1
  <2>4. scopes[Current][n] # None => c = Current
    BY <1>2, <2>2, <2>3
  <2>5. ScopeOf(n) = c
    BY <1>4, <2>4 DEF ScopeOf, c
  <2> QED
    BY <1>4, <2>2, <2>3, <2>5 DEF c
<1>5. CASE bindings[n] = <<>>
  <2>1. \A i \in Index : At(i, n) = None
    BY <1>1, <1>5, LastBinder
  <2>2. \A i \in 1..Current : scopes[i][n] = None
    BY <1>2, <2>1
  <2> QED
    BY <1>2, <1>5, <2>2 DEF ScopeOf
<1> QED
  BY <1>4, <1>5

\* A type that is recorded where the visible binding is, is the visible one.
LEMMA VisibleType ==
  ASSUME IInv, work.kind # "drain", NEW n \in Name, bindings[n] # <<>>,
         types[End(bindings[n])][n] # None
  PROVE  TypeScopeOf(n) = End(bindings[n]) /\ TypeScopeOf(n) # 0
<1> DEFINE c == End(bindings[n])
<1>1. /\ c \in 1..Current /\ scopes[c][n] # None
      /\ \A i \in 1..Current : scopes[i][n] # None => i <= c
  BY Visible
<1>2. types[c][n] # None
  OBVIOUS
<1> HIDE DEF c
<1>3. Shape /\ RecordsOK
  BY DEF IInv
<1>4. /\ Current \in Nat \ {0} /\ Current \in 1..Current /\ Len(types) = Current
      /\ \A i \in Index : i <= Current <=> i \in 1..Current
      /\ \A i \in 1..Current : TypeAt(i, n) = types[i][n] /\ i \in Index
  <2>1. Len(types) = Current
    BY <1>3 DEF Shape
  <2>2. /\ Current \in Nat \ {0} /\ Current \in 1..Current
        /\ \A i \in Index : i <= Current <=> i \in 1..Current
        /\ \A i \in 1..Current : TypeAt(i, n) = types[i][n]
    BY <1>3, ShapeFacts
  <2>3. \A i \in 1..Current : i \in Index
    BY <2>2 DEF Index
  <2> QED
    BY <2>1, <2>2, <2>3
<1>5. \A i \in Index : TypeAt(i, n) # None => i \in 1..Current /\ i <= c
  <2>1. ASSUME NEW i \in Index, TypeAt(i, n) # None PROVE i \in 1..Current
    BY <1>4, <2>1 DEF TypeAt
  <2>2. ASSUME NEW i \in 1..Current, TypeAt(i, n) # None PROVE scopes[i][n] # None
    BY <1>3, <1>4, <2>2 DEF RecordsOK
  <2> QED
    BY <1>1, <2>1, <2>2
<1> HIDE DEF Current
<1>6. Enumerates(typeBindings[n], Recorders(n)) /\ \A i \in Index : i \in Recorders(n) <=> TypeAt(i, n) # None
  BY <1>3 DEF RecordsOK, Recorders
<1>7. c \in Recorders(n)
  BY <1>1, <1>2, <1>4, <1>6
<1> DEFINE e == End(typeBindings[n])
<1>8. typeBindings[n] # <<>> /\ e \in Index /\ e \in Recorders(n) /\ c <= e
  BY <1>1, <1>4, <1>6, <1>7, EnumeratesEnd
<1> HIDE DEF e
<1>9. e = c
  BY <1>1, <1>4, <1>5, <1>6, <1>8 DEF Index
<1>10. types[Current][n] # None => c = Current
  BY <1>1, <1>4, <1>5
<1>11. TypeScopeOf(n) = c
  <2>1. CASE types[Current][n] # None
    BY <1>4, <1>10, <2>1 DEF TypeScopeOf
  <2>2. CASE types[Current][n] = None
    BY <1>4, <1>8, <1>9, <2>2 DEF TypeScopeOf, e
  <2> QED
    BY <2>1, <2>2
<1> QED
  BY <1>1, <1>4, <1>11 DEF c

LEMMA ReassignStep ==
  ASSUME IInv, NEW n \in Name, NEW v \in Val, Reassign(n, v)
  PROVE  IInv'
<1>1. /\ work = Idle /\ Contains(n) /\ MayAssign(n, v) /\ work' = work
      /\ arena' = Put(arena, scopes[ScopeOf(n)][n], v)
      /\ UNCHANGED <<scopes, bindings, mutability, references, exclusives, typing, items, released, refused>>
  BY DEF Reassign, Statement
<1>2. WorkOK' /\ work.kind # "drain" /\ work'.kind # "drain"
  BY <1>1, NothingToDo
<1>3. work' \in Work
  BY <1>1 DEF IInv, Shape
<1>4. bindings[n] # <<>>
  BY <1>1, <1>2, Visible DEF Contains
<1>5. /\ End(bindings[n]) \in 1..Current /\ scopes[End(bindings[n])][n] # None
      /\ ScopeOf(n) = End(bindings[n])
  BY <1>2, <1>4, Visible
<1>6. types[End(bindings[n])][n] # None => v \in Admits[types[End(bindings[n])][n]]
  BY <1>1, <1>2, <1>4, VisibleType DEF MayAssign
<1> QED
  BY <1>1, <1>2, <1>3, <1>5, <1>6, PutStep

LEMMA ReassignManyStep ==
  ASSUME IInv, NEW values \in [Name -> Val \cup {None}], ReassignMany(values)
  PROVE  IInv'
<1> DEFINE todo == [n \in Name |-> IF values[n] = None THEN None
                                   ELSE [scope |-> End(bindings[n]), value |-> values[n]]]
<1>1. /\ work = Idle /\ work' = [kind |-> "assign", todo |-> todo]
      /\ \A n \in Name : values[n] # None => bindings[n] # <<>> /\ MayAssign(n, values[n])
      /\ UNCHANGED <<storage, typing, items, released, refused>>
      /\ scopes' = scopes /\ types' = types /\ bindings' = bindings /\ refused' = refused /\ Current' = Current
  BY DEF ReassignMany, Statement, storage, typing, Current
<1>2. work.kind # "drain"
  BY <1>1, NoWork
<1>3. Shape /\ Current \in Nat
  BY ShapeFacts DEF IInv
<1>4. ASSUME NEW n \in Name, values[n] # None
      PROVE  /\ End(bindings[n]) \in 1..Current /\ End(bindings[n]) \in Index /\ values[n] \in Val
             /\ bindings[n] # <<>>
             /\ types[End(bindings[n])][n] # None => values[n] \in Admits[types[End(bindings[n])][n]]
  <2>1. End(bindings[n]) \in 1..Current /\ bindings[n] # <<>>
    BY <1>1, <1>2, <1>4, Visible
  <2>2. types[End(bindings[n])][n] # None => values[n] \in Admits[types[End(bindings[n])][n]]
    BY <1>1, <1>2, <1>4, VisibleType DEF MayAssign
  <2>3. End(bindings[n]) \in Index
    BY <1>3, <2>1 DEF Index
  <2> QED
    BY <1>4, <2>1, <2>2, <2>3
<1>5. ASSUME NEW n \in Name, values[n] # None
      PROVE  todo[n].scope = End(bindings[n]) /\ todo[n].value = values[n] /\ todo[n] \in Write
  <2>1. todo[n] = [scope |-> End(bindings[n]), value |-> values[n]]
    BY <1>5
  <2>2. End(bindings[n]) \in Nat \ {0} /\ values[n] \in Val
    BY <1>4, <1>5 DEF Index
  <2> HIDE DEF todo
  <2> QED
    BY <2>1, <2>2 DEF Write
<1>6. \A n \in Name : values[n] = None => todo[n] = None
  OBVIOUS
<1>7. DOMAIN todo = Name /\ todo = [n \in Name |-> todo[n]]
  OBVIOUS
<1> HIDE DEF todo
<1>8. todo \in [Name -> Write \cup {None}]
  BY <1>5, <1>6, <1>7
<1>9. LoopOver("assign", todo)
  BY <1>8 DEF LoopOver
<1>10. work' \in Work
  BY ONLY <1>1, <1>9, WorkIn
<1>11. work'.kind = "assign" /\ work'.todo = todo
  BY <1>1
<1>12. \A i \in Index, m \in Name : At(i, m)' = At(i, m)
  BY <1>1, <1>2, <1>11, AtSame
<1>13. WorkOK'
  <2> SUFFICES ASSUME NEW n \in Name, todo[n] # None
               PROVE  LET i == todo[n].scope
                      IN  /\ i \in 1..Current /\ bindings[n] # <<>> /\ End(bindings[n]) = i
                          /\ types[i][n] # None /\ <<i, n>> \notin refused => todo[n].value \in Admits[types[i][n]]
    BY <1>1, <1>11 DEF WorkOK
  <2>1. values[n] # None
    BY <1>6
  <2> QED
    BY <1>4, <1>5, <2>1
<1> QED
  BY <1>1, <1>10, <1>12, <1>13, WorkStep

LEMMA ReassignNextStep ==
  ASSUME IInv, NEW n \in Name, ReassignNext(n)
  PROVE  IInv'
<1> DEFINE w == work.todo[n]
<1>1. /\ work.kind = "assign" /\ w # None
      /\ arena' = Put(arena, scopes[w.scope][n], w.value)
      /\ work' = [work EXCEPT !.todo[n] = None]
      /\ UNCHANGED <<scopes, bindings, mutability, references, exclusives, typing, items, released, refused>>
      /\ scopes' = scopes /\ types' = types /\ bindings' = bindings /\ refused' = refused /\ Current' = Current
  BY DEF ReassignNext, typing, Current
<1>2. Shape /\ WorkOK /\ work \in Work
  BY DEF IInv, Shape
<1>3. w \in Write
  BY <1>1, <1>2, WorkKinds
<1>4. w.value \in Val
  BY <1>3 DEF Write
<1>5. /\ work' \in Work /\ work'.kind = "assign"
      /\ \A m \in Name : work'.todo[m] = IF m = n THEN None ELSE work.todo[m]
  BY <1>1, <1>2, TodoNext
<1>6. /\ w.scope \in 1..Current /\ bindings[n] # <<>> /\ End(bindings[n]) = w.scope
      /\ types[w.scope][n] # None /\ <<w.scope, n>> \notin refused => w.value \in Admits[types[w.scope][n]]
  BY <1>1, <1>2 DEF WorkOK
<1>7. scopes[w.scope][n] # None
  BY <1>1, <1>6, Visible
<1>8. WorkOK'
  <2> SUFFICES ASSUME NEW m \in Name, work'.todo[m] # None
               PROVE  LET i == work'.todo[m].scope
                      IN  /\ i \in 1..Current /\ bindings[m] # <<>> /\ End(bindings[m]) = i
                          /\ types[i][m] # None /\ <<i, m>> \notin refused
                               => work'.todo[m].value \in Admits[types[i][m]]
    BY <1>1, <1>5 DEF WorkOK
  <2>1. work'.todo[m] = work.todo[m] /\ work.todo[m] # None
    BY <1>5
  <2> QED
    BY <1>1, <1>2, <2>1 DEF WorkOK
<1> HIDE DEF w
<1> QED
  BY <1>1, <1>4, <1>5, <1>6, <1>7, <1>8, PutStep

LEMMA RebindStep ==
  ASSUME IInv, NEW n \in Name, NEW v \in Val, Rebind(n, v)
  PROVE  IInv'
<1>1. /\ work = Idle /\ scopes[Current][n] # None /\ work' = work
      /\ types[Current][n] = None \/ types[Current][n] = TypeOf[v]
      /\ arena' = Put(arena, scopes[Current][n], v)
      /\ UNCHANGED <<scopes, bindings, mutability, references, exclusives, typing, items, released, refused>>
  BY DEF Rebind, Statement
<1>2. WorkOK' /\ work.kind # "drain" /\ work'.kind # "drain"
  BY <1>1, NothingToDo
<1>3. work' \in Work /\ Shape
  BY <1>1 DEF IInv, Shape
<1>4. types[Current][n] # None => v \in Admits[types[Current][n]]
  BY <1>1, DataAssumption
<1>5. Current \in 1..Current
  BY <1>3, ShapeFacts
<1> QED
  BY <1>1, <1>2, <1>3, <1>4, <1>5, PutStep

LEMMA FinishStep ==
  ASSUME IInv, Finish
  PROVE  IInv'
<1>1. /\ work.todo = Unbound /\ work' = Idle /\ UNCHANGED <<storage, typing, items, released, refused>>
      /\ scopes' = scopes /\ Current' = Current
  BY DEF Finish, storage, Current
<1>2. \A n \in Name : work.todo[n] = None /\ work'.todo[n] = None
  BY <1>1 DEF Unbound, Idle
<1>3. work' \in Work
  BY <1>1 DEF Work, Idle
<1>4. WorkOK'
  BY <1>2 DEF WorkOK
<1>5. \A i \in Index, m \in Name : At(i, m)' = At(i, m)
  BY <1>1, <1>2 DEF At
<1> QED
  BY <1>1, <1>3, <1>4, <1>5, WorkStep

LEMMA DropItemStep ==
  ASSUME IInv, DropItem
  PROVE  IInv'
<1> DEFINE n == End(items[Current])
<1>1. /\ work = Idle /\ work' = work /\ items[Current] # <<>>
      /\ Release(scopes[Current][n]) /\ scopes' = WithCurrent(scopes, n, None) /\ Forget(n)
      /\ items' = [items EXCEPT ![Current] = Cut(@)]
      /\ UNCHANGED typing /\ types' = types /\ typeBindings' = typeBindings /\ refused' = refused
  BY DEF DropItem, typing
<1>2. Shape /\ CellsOK /\ BindingsOK /\ RecordsOK /\ ItemsOK /\ ValuesHaveTypes
  BY DEF IInv
<1>3. WorkOK' /\ work.kind = "none" /\ work'.kind = "none" /\ work' \in Work
  BY <1>1, <1>2, NothingToDo DEF Shape
<1>4. /\ Current \in Nat \ {0} /\ Current \in Index /\ Current \in 1..Current
      /\ \A i \in Index : i <= Current <=> i \in 1..Current
      /\ \A i \in 1..Current, m \in Name : At(i, m) = scopes[i][m]
      /\ \A i \in 1..Current : i \in Index
  BY <1>2, ShapeFacts DEF Index
<1>5. items \in Seq(Seq(Name)) /\ Len(items) = Current
  BY <1>2 DEF Shape
<1>6. items[Current] \in Seq(Name)
  BY <1>4, <1>5
<1> DEFINE s == Cut(items[Current])
<1>7. /\ s \in Seq(Name) /\ Len(s) = Len(items[Current]) - 1
      /\ \A k \in 1..(Len(items[Current]) - 1) : s[k] = items[Current][k]
      /\ Len(items[Current]) \in Nat \ {0} /\ Len(items[Current]) \in 1..Len(items[Current])
      /\ n = items[Current][Len(items[Current])] /\ n \in Name
  BY <1>1, <1>6, CutFacts
<1>8. items' = [items EXCEPT ![Current] = s]
  BY <1>1
<1> HIDE DEF s, n
<1>9. /\ items' \in Seq(Seq(Name)) /\ Len(items') = Current
      /\ \A i \in 1..Current : items'[i] = IF i = Current THEN s ELSE items[i]
  BY <1>4, <1>5, <1>7, <1>8
<1>10. /\ scopes[Current][n] # None /\ types[Current][n] = None
       /\ \A j \in 1..Len(items[Current]) : items[Current][j] = n => j = Len(items[Current])
  BY <1>2, <1>4, <1>7 DEF ItemsOK
<1>11. /\ scopes' \in Seq([Name -> Handle \cup {None}]) /\ scopes' # <<>> /\ Len(scopes') = Len(scopes)
       /\ \A i \in 1..Len(scopes), m \in Name :
            scopes'[i][m] = IF i = Len(scopes) /\ m = n THEN None ELSE scopes[i][m]
  <2> DEFINE S == Handle \cup {None}
  <2>1. None \in S /\ scopes \in Seq([Name -> S]) /\ scopes # <<>> /\ scopes' = WithCurrent(scopes, n, None)
    BY <1>1, <1>2 DEF Shape
  <2> HIDE DEF S
  <2>2. WithOne(S, scopes, n, None, scopes')
    BY <1>7, <2>1, WithCurrentFacts
  <2> QED
    BY <2>2 DEF S, WithOne
<1>12. Current' = Current /\ Len(scopes) = Current
  BY <1>11 DEF Current
<1>13. \A i \in 1..Current, m \in Name :
         scopes'[i][m] = IF i = Current /\ m = n THEN None ELSE scopes[i][m]
  BY <1>11, <1>12
<1>14. ASSUME NEW i \in Index, NEW m \in Name
       PROVE  At(i, m)' = IF i = Current /\ m = n THEN None ELSE At(i, m)
  <2>1. CASE i \in 1..Current
    BY <1>4, <1>12, <1>13, <2>1 DEF At
  <2>2. CASE i \notin 1..Current
    BY <1>3, <1>4, <1>12, <2>2 DEF At
  <2> QED
    BY <2>1, <2>2
<1>15. At(Current, n) = scopes[Current][n] /\ At(Current, n) # None /\ Release(At(Current, n))
  BY <1>1, <1>4, <1>7, <1>10
<1>16. /\ CellsOK' /\ ArenaOK(arena') /\ released' \subseteq Handle
       /\ \A i \in Index, m \in Name : At(i, m)' # None => Get(arena', At(i, m)) = Get(arena, At(i, m))
  BY <1>2, <1>4, <1>7, <1>14, <1>15, CellsRelease
<1>17. \A j \in Index : At(j, n) # None => j <= Current
  BY <1>3, <1>4 DEF At
<1>18. /\ bindings' \in [Name -> Seq(Index)]
       /\ mutability' \in [Name -> Seq(BOOLEAN)]
       /\ references' \in [Name -> Seq(BOOLEAN)]
       /\ exclusives' \in [Name -> Seq(BOOLEAN)]
       /\ BindingsOK'
  BY <1>1, <1>2, <1>4, <1>7, <1>14, <1>15, <1>17, ForgetFacts
<1>19. Shape'
  BY <1>1, <1>2, <1>3, <1>9, <1>11, <1>12, <1>16, <1>18 DEF Shape
<1>20. RecordsOK'
  <2>1. \A m \in Name : Enumerates(typeBindings'[m], Recorders(m)')
    BY <1>1, <1>2, <1>11, RecordsSame
  <2>2. ASSUME NEW i \in 1..Current, NEW m \in Name, types[i][m] # None PROVE scopes'[i][m] # None
    <3>1. ~(i = Current /\ m = n) /\ scopes[i][m] # None
      BY <1>2, <1>10, <2>2 DEF RecordsOK
    <3> QED
      BY <1>13, <3>1
  <2> QED
    BY <1>1, <1>12, <2>1, <2>2 DEF RecordsOK
<1>21. ItemsOK'
  <2> SUFFICES ASSUME NEW i \in 1..Current, NEW k \in 1..Len(items'[i])
               PROVE  /\ scopes'[i][items'[i][k]] # None
                      /\ types[i][items'[i][k]] = None
                      /\ \A j \in 1..Len(items'[i]) : items'[i][j] = items'[i][k] => j = k
    BY <1>1, <1>12 DEF ItemsOK
  <2>1. CASE i # Current
    <3>1. items'[i] = items[i] /\ items[i] \in Seq(Name)
      BY <1>5, <1>9, <2>1
    <3>2. items[i][k] \in Name /\ k \in 1..Len(items[i])
      BY <3>1
    <3>3. /\ scopes[i][items[i][k]] # None /\ types[i][items[i][k]] = None
          /\ \A j \in 1..Len(items[i]) : items[i][j] = items[i][k] => j = k
      BY <1>2, <3>2 DEF ItemsOK
    <3>4. scopes'[i][items[i][k]] = scopes[i][items[i][k]]
      BY <1>13, <2>1, <3>2
    <3> QED
      BY <3>1, <3>3, <3>4
  <2>2. CASE i = Current
    <3>1. items'[i] = s
      BY <1>9, <2>2
    <3>2. \A j \in 1..Len(s) : j \in 1..(Len(items[Current]) - 1) /\ j \in 1..Len(items[Current])
                               /\ j # Len(items[Current])
      BY <1>7
    <3>3. ASSUME NEW j \in 1..Len(s) PROVE s[j] = items[Current][j] /\ s[j] \in Name
      <4>1. s[j] = items[Current][j]
        BY <1>7, <3>2
      <4>2. s \in Seq(Name)
        BY <1>7
      <4> QED
        BY <4>1, <4>2
    <3>4. k \in 1..Len(s)
      BY <3>1
    <3>5. /\ scopes[Current][s[k]] # None /\ types[Current][s[k]] = None /\ s[k] # n
          /\ \A j \in 1..Len(s) : s[j] = s[k] => j = k
      <4>1. k \in 1..Len(items[Current]) /\ k # Len(items[Current]) /\ s[k] = items[Current][k]
        BY <3>2, <3>3, <3>4
      <4>2. /\ scopes[Current][items[Current][k]] # None /\ types[Current][items[Current][k]] = None
            /\ \A j \in 1..Len(items[Current]) : items[Current][j] = items[Current][k] => j = k
        BY <1>2, <1>4, <4>1 DEF ItemsOK
      <4>3. s[k] # n
        BY <1>10, <4>1
      <4> QED
        BY <3>2, <3>3, <4>1, <4>2, <4>3
    <3>6. scopes'[Current][s[k]] = scopes[Current][s[k]]
      <4>1. s[k] \in Name
        BY <3>3, <3>4
      <4> QED
        BY <1>4, <1>13, <3>5, <4>1
    <3> QED
      BY <2>2, <3>1, <3>5, <3>6
  <2> QED
    BY <2>1, <2>2
<1>22. ValuesHaveTypes'
  <2> SUFFICES ASSUME NEW i \in 1..Current, NEW m \in Name,
                      scopes'[i][m] # None, types[i][m] # None, <<i, m>> \notin refused
               PROVE  Get(arena', scopes'[i][m]) \in Admits[types[i][m]]
    BY <1>1, <1>12 DEF ValuesHaveTypes
  <2>1. scopes'[i][m] = scopes[i][m] /\ ~(i = Current /\ m = n)
    BY <1>13
  <2>2. At(i, m) = scopes[i][m] /\ At(i, m)' # None /\ i \in Index
    BY <1>4, <1>14, <2>1
  <2>3. Get(arena', scopes[i][m]) = Get(arena, scopes[i][m])
    BY <1>16, <2>2
  <2> QED
    BY <1>2, <2>1, <2>3 DEF ValuesHaveTypes
<1> QED
  BY <1>3, <1>16, <1>18, <1>19, <1>20, <1>21, <1>22 DEF IInv

LEMMA DrainNextStep ==
  ASSUME IInv, NEW n \in Name, DrainNext(n)
  PROVE  IInv'
<1> DEFINE h == work.todo[n]
           c == Current + 1
<1>1. /\ work.kind = "drain" /\ h # None /\ Release(h) /\ Forget(n)
      /\ work' = [work EXCEPT !.todo[n] = None]
      /\ UNCHANGED typing /\ scopes' = scopes /\ types' = types /\ typeBindings' = typeBindings
      /\ items' = items /\ refused' = refused /\ Current' = Current
  BY DEF DrainNext, typing, Current
<1>2. Shape /\ CellsOK /\ BindingsOK /\ RecordsOK /\ ItemsOK /\ ValuesHaveTypes /\ work \in Work
  BY DEF IInv, Shape
<1>3. /\ work' \in Work /\ work'.kind = "drain"
      /\ \A m \in Name : work'.todo[m] = IF m = n THEN None ELSE work.todo[m]
  BY <1>1, <1>2, TodoNext
<1>4. /\ Current \in Nat \ {0} /\ Current \in 1..Current
      /\ \A i \in Index : i <= Current <=> i \in 1..Current
      /\ \A i \in 1..Current, m \in Name : At(i, m) = scopes[i][m]
  BY <1>2, ShapeFacts
<1>5. c \in Index /\ ~(c <= Current)
  BY <1>4 DEF Index
<1>6. At(c, n) = h
  BY <1>1, <1>5 DEF At
<1>7. ASSUME NEW i \in Index, NEW m \in Name
      PROVE  At(i, m)' = IF i = c /\ m = n THEN None ELSE At(i, m)
  <2>1. CASE i <= Current
    BY <1>1, <1>5, <2>1 DEF At
  <2>2. CASE ~(i <= Current)
    BY <1>1, <1>3, <1>5, <2>2 DEF At
  <2> QED
    BY <2>1, <2>2
<1>8. \A j \in Index : At(j, n) # None => j <= c
  <2>1. \A j \in Index : At(j, n) # None => j <= Current \/ j = Current + 1
    BY DEF At
  <2> QED
    BY <1>4, <2>1 DEF Index
<1> HIDE DEF h, c
<1>9. /\ CellsOK' /\ ArenaOK(arena') /\ released' \subseteq Handle
      /\ \A i \in Index, m \in Name : At(i, m)' # None => Get(arena', At(i, m)) = Get(arena, At(i, m))
  BY <1>1, <1>2, <1>5, <1>6, <1>7, CellsRelease
<1>10. /\ bindings' \in [Name -> Seq(Index)]
       /\ mutability' \in [Name -> Seq(BOOLEAN)]
       /\ references' \in [Name -> Seq(BOOLEAN)]
       /\ exclusives' \in [Name -> Seq(BOOLEAN)]
       /\ BindingsOK'
  BY <1>1, <1>2, <1>5, <1>6, <1>7, <1>8, ForgetFacts
<1>11. Shape'
  BY <1>1, <1>2, <1>3, <1>9, <1>10 DEF Shape
<1>12. RecordsOK'
  <2>1. \A m \in Name : Enumerates(typeBindings'[m], Recorders(m)')
    BY <1>1, <1>2, RecordsSame
  <2> QED
    BY <1>1, <1>2, <2>1 DEF RecordsOK
<1>13. ItemsOK'
  BY <1>1, <1>2 DEF ItemsOK
<1>14. WorkOK'
  BY <1>3 DEF WorkOK
<1>15. ValuesHaveTypes'
  <2> SUFFICES ASSUME NEW i \in 1..Current, NEW m \in Name,
                      scopes[i][m] # None, types[i][m] # None, <<i, m>> \notin refused
               PROVE  Get(arena', scopes[i][m]) \in Admits[types[i][m]]
    BY <1>1 DEF ValuesHaveTypes
  <2>1. At(i, m) = scopes[i][m] /\ i \in Index /\ i <= Current
    BY <1>4 DEF Index
  <2>2. At(i, m)' = scopes[i][m]
    BY <1>5, <1>7, <2>1
  <2>3. Get(arena', scopes[i][m]) = Get(arena, scopes[i][m])
    BY <1>9, <2>1, <2>2
  <2> QED
    BY <1>2, <2>3 DEF ValuesHaveTypes
<1> QED
  BY <1>9, <1>10, <1>11, <1>12, <1>13, <1>14, <1>15 DEF IInv

LEMMA PushStep ==
  ASSUME IInv, Push
  PROVE  IInv'
<1>1. /\ work = Idle /\ work' = work /\ scopes' = Append(scopes, Unbound) /\ types' = Append(types, Unbound)
      /\ items' = Append(items, <<>>)
      /\ arena' = arena /\ bindings' = bindings /\ mutability' = mutability /\ references' = references
      /\ exclusives' = exclusives /\ typeBindings' = typeBindings /\ released' = released /\ refused' = refused
  BY DEF Push
<1>2. Shape /\ CellsOK /\ BindingsOK /\ RecordsOK /\ ItemsOK /\ ValuesHaveTypes
  BY DEF IInv
<1>3. WorkOK' /\ work.kind = "none" /\ work'.kind = "none"
  BY <1>1, NothingToDo
<1>4. /\ scopes \in Seq([Name -> Handle \cup {None}]) /\ types \in Seq([Name -> Type \cup {None}])
      /\ items \in Seq(Seq(Name)) /\ Len(types) = Current /\ Len(items) = Current /\ Len(scopes) = Current
  BY <1>2 DEF Shape, Current
<1>5. /\ Unbound \in [Name -> Handle \cup {None}] /\ Unbound \in [Name -> Type \cup {None}]
      /\ \A n \in Name : Unbound[n] = None
      /\ <<>> \in Seq(Name)
  BY DEF Unbound
<1>6. Current \in Nat \ {0} /\ \A i \in Index : i <= Current <=> i \in 1..Current
  BY <1>2, ShapeFacts
<1>7. /\ scopes' \in Seq([Name -> Handle \cup {None}]) /\ scopes' # <<>> /\ Len(scopes') = Current + 1
      /\ \A i \in 1..Current : scopes'[i] = scopes[i]
      /\ scopes'[Current + 1] = Unbound
  <2> DEFINE F == [Name -> Handle \cup {None}]
  <2>1. scopes \in Seq(F) /\ Unbound \in F
    BY <1>4, <1>5
  <2> HIDE DEF F
  <2>2. /\ scopes' \in Seq(F) /\ scopes' # <<>> /\ Len(scopes') = Current + 1
        /\ \A i \in 1..Current : scopes'[i] = scopes[i]
        /\ scopes'[Current + 1] = Unbound
    BY <1>1, <1>4, <2>1, AppendFacts
  <2> QED
    BY <2>2 DEF F
<1>8. /\ types' \in Seq([Name -> Type \cup {None}]) /\ Len(types') = Current + 1
      /\ \A i \in 1..Current : types'[i] = types[i]
      /\ types'[Current + 1] = Unbound
  <2> DEFINE F == [Name -> Type \cup {None}]
  <2>1. types \in Seq(F) /\ Unbound \in F
    BY <1>4, <1>5
  <2> HIDE DEF F
  <2>2. /\ types' \in Seq(F) /\ Len(types') = Current + 1
        /\ \A i \in 1..Current : types'[i] = types[i]
        /\ types'[Current + 1] = Unbound
    BY <1>1, <1>4, <2>1, AppendFacts
  <2> QED
    BY <2>2 DEF F
<1>9. /\ items' \in Seq(Seq(Name)) /\ Len(items') = Current + 1
      /\ \A i \in 1..Current : items'[i] = items[i]
      /\ items'[Current + 1] = <<>>
  BY <1>1, <1>4, <1>5, AppendFacts
<1>10. Current' = Current + 1
  BY <1>7 DEF Current
<1> HIDE DEF Current
<1>11. \A i \in 1..(Current + 1) : i = Current + 1 \/ i \in 1..Current
  BY <1>6, UpToLast
<1>12. ASSUME NEW i \in Index, NEW n \in Name
       PROVE  At(i, n)' = At(i, n) /\ TypeAt(i, n)' = TypeAt(i, n)
  <2>1. CASE i \in 1..Current
    <3>1. i <= Current /\ i <= Current + 1
      BY <1>6, <2>1
    <3> QED
      BY <1>7, <1>8, <1>10, <2>1, <3>1 DEF At, TypeAt
  <2>2. CASE i = Current + 1
    <3>1. ~(i <= Current) /\ i <= Current + 1
      BY <1>6, <2>2
    <3> QED
      BY <1>3, <1>5, <1>7, <1>8, <1>10, <2>2, <3>1 DEF At, TypeAt
  <2>3. CASE i \notin 1..Current /\ i # Current + 1
    <3>1. ~(i <= Current) /\ ~(i <= Current + 1)
      BY <1>6, <2>3 DEF Index
    <3> QED
      BY <1>3, <1>10, <3>1 DEF At, TypeAt
  <2> QED
    BY <2>1, <2>2, <2>3
<1>13. CellsOK'
  BY <1>1, <1>2, <1>12, CellsSame
<1>14. BindingsOK'
  BY <1>1, <1>2, <1>12, BindingsSame
<1>15. Shape'
  BY <1>1, <1>2, <1>7, <1>8, <1>9, <1>10 DEF Shape
<1>16. RecordsOK'
  <2>1. ASSUME NEW m \in Name PROVE Enumerates(typeBindings'[m], Recorders(m)')
    <3>1. \A i \in Index : i \in Recorders(m)' <=> i \in Recorders(m)
      BY <1>12 DEF Recorders
    <3> QED
      BY <1>1, <1>2, <3>1, EnumeratesSame DEF RecordsOK
  <2>2. \A i \in 1..(Current + 1), m \in Name : types'[i][m] # None => scopes'[i][m] # None
    BY <1>2, <1>5, <1>7, <1>8, <1>11 DEF RecordsOK
  <2> QED
    BY <1>10, <2>1, <2>2 DEF RecordsOK
<1>17. ItemsOK'
  <2> SUFFICES ASSUME NEW i \in 1..(Current + 1), NEW k \in 1..Len(items'[i])
               PROVE  /\ scopes'[i][items'[i][k]] # None
                      /\ types'[i][items'[i][k]] = None
                      /\ \A j \in 1..Len(items'[i]) : items'[i][j] = items'[i][k] => j = k
    BY <1>10 DEF ItemsOK
  <2>1. i \in 1..Current
    BY <1>9, <1>11
  <2>2. items'[i] = items[i] /\ scopes'[i] = scopes[i] /\ types'[i] = types[i]
    BY <1>7, <1>8, <1>9, <2>1
  <2>3. k \in 1..Len(items[i])
    BY <2>2
  <2>4. /\ scopes[i][items[i][k]] # None /\ types[i][items[i][k]] = None
        /\ \A j \in 1..Len(items[i]) : items[i][j] = items[i][k] => j = k
    BY <1>2, <2>1, <2>3 DEF ItemsOK
  <2> QED
    BY <2>2, <2>4
<1>18. ValuesHaveTypes'
  <2> SUFFICES ASSUME NEW i \in 1..(Current + 1), NEW m \in Name,
                      scopes'[i][m] # None, types'[i][m] # None, <<i, m>> \notin refused
               PROVE  Get(arena, scopes'[i][m]) \in Admits[types'[i][m]]
    BY <1>1, <1>10 DEF ValuesHaveTypes
  <2>1. i \in 1..Current
    BY <1>5, <1>7, <1>11
  <2> QED
    BY <1>2, <1>7, <1>8, <2>1 DEF ValuesHaveTypes
<1> QED
  BY <1>3, <1>13, <1>14, <1>15, <1>16, <1>17, <1>18 DEF IInv

LEMMA PopStep ==
  ASSUME IInv, Pop
  PROVE  IInv'
<1>1. /\ work = Idle /\ Current > 1
      /\ scopes' = Cut(scopes) /\ types' = Cut(types) /\ items' = Cut(items)
      /\ typeBindings' = [n \in Name |-> IF types[Current][n] = None THEN typeBindings[n]
                                         ELSE Cut(typeBindings[n])]
      /\ work' = [kind |-> "drain", todo |-> scopes[Current]]
      /\ refused' = {r \in refused : r[1] < Current}
      /\ arena' = arena /\ bindings' = bindings /\ mutability' = mutability /\ references' = references
      /\ exclusives' = exclusives /\ released' = released
  BY DEF Pop, Statement
<1>2. Shape /\ CellsOK /\ BindingsOK /\ RecordsOK /\ ItemsOK /\ ValuesHaveTypes
  BY DEF IInv
<1>3. work.kind = "none"
  BY <1>1, NoWork
<1>4. /\ scopes \in Seq([Name -> Handle \cup {None}]) /\ types \in Seq([Name -> Type \cup {None}])
      /\ items \in Seq(Seq(Name)) /\ Len(types) = Current /\ Len(items) = Current /\ Len(scopes) = Current
      /\ typeBindings \in [Name -> Seq(Index)] /\ refused \subseteq Nat \X Name
  BY <1>2 DEF Shape, Current
<1>5. /\ Current \in Nat \ {0} /\ Current \in Index /\ Current \in 1..Current /\ Current - 1 \in Nat \ {0}
      /\ \A i \in Index : i <= Current <=> i \in 1..Current
  BY <1>1, <1>2, ShapeFacts
<1>6. scopes # <<>> /\ types # <<>> /\ items # <<>>
  BY <1>4, <1>5
<1>7. /\ scopes' \in Seq([Name -> Handle \cup {None}]) /\ Len(scopes') = Current - 1
      /\ \A i \in 1..(Current - 1) : scopes'[i] = scopes[i]
      /\ scopes[Current] \in [Name -> Handle \cup {None}]
  <2> DEFINE F == [Name -> Handle \cup {None}]
  <2>1. scopes \in Seq(F)
    BY <1>4
  <2> HIDE DEF F
  <2>2. /\ scopes' \in Seq(F) /\ Len(scopes') = Current - 1
        /\ \A i \in 1..(Current - 1) : scopes'[i] = scopes[i]
    BY <1>1, <1>4, <1>6, <2>1, CutFacts
  <2>3. scopes[Current] \in F
    BY <1>4, <1>5, <2>1
  <2> QED
    BY <2>2, <2>3 DEF F
<1>8. /\ types' \in Seq([Name -> Type \cup {None}]) /\ Len(types') = Current - 1
      /\ \A i \in 1..(Current - 1) : types'[i] = types[i]
  <2> DEFINE F == [Name -> Type \cup {None}]
  <2>1. types \in Seq(F)
    BY <1>4
  <2> HIDE DEF F
  <2>2. /\ types' \in Seq(F) /\ Len(types') = Current - 1
        /\ \A i \in 1..(Current - 1) : types'[i] = types[i]
    BY <1>1, <1>4, <1>6, <2>1, CutFacts
  <2> QED
    BY <2>2 DEF F
<1>9. /\ items' \in Seq(Seq(Name)) /\ Len(items') = Current - 1
      /\ \A i \in 1..(Current - 1) : items'[i] = items[i]
  BY <1>1, <1>4, <1>6, CutFacts
<1>10. scopes' # <<>> /\ Current' = Current - 1
  BY <1>5, <1>7 DEF Current
<1>11. work'.kind = "drain" /\ work'.todo = scopes[Current] /\ work' \in Work
  <2>1. LoopOver("drain", scopes[Current])
    BY <1>7 DEF LoopOver
  <2>2. work' \in Work
    BY ONLY <1>1, <2>1, WorkIn
  <2> QED
    BY <1>1, <2>2
<1> HIDE DEF Current
<1>12. \A i \in 1..(Current - 1) : i \in 1..Current /\ i # Current /\ i < Current
  BY <1>5
<1>13. ASSUME NEW i \in Index, NEW n \in Name
       PROVE  /\ At(i, n)' = At(i, n)
              /\ TypeAt(i, n)' = IF i = Current THEN None ELSE TypeAt(i, n)
  <2>1. CASE i \in 1..(Current - 1)
    <3>1. i <= Current /\ i <= Current - 1 /\ i # Current
      BY <1>5, <2>1
    <3> QED
      BY <1>7, <1>8, <1>10, <2>1, <3>1 DEF At, TypeAt
  <2>2. CASE i = Current
    <3>1. i <= Current /\ ~(i <= Current - 1) /\ i = (Current - 1) + 1
      BY <1>5, <2>2
    <3> QED
      BY <1>10, <1>11, <2>2, <3>1 DEF At, TypeAt
  <2>3. CASE i \notin 1..(Current - 1) /\ i # Current
    <3>1. ~(i <= Current) /\ ~(i <= Current - 1) /\ i # (Current - 1) + 1
      BY <1>5, <2>3 DEF Index
    <3> QED
      BY <1>3, <1>10, <3>1 DEF At, TypeAt
  <2> QED
    BY <2>1, <2>2, <2>3
<1>14. CellsOK'
  BY <1>1, <1>2, <1>13, CellsSame
<1>15. BindingsOK'
  BY <1>1, <1>2, <1>13, BindingsSame
<1>16. ASSUME NEW m \in Name PROVE Enumerates(typeBindings'[m], Recorders(m)')
  <2>1. Enumerates(typeBindings[m], Recorders(m)) /\ TypeAt(Current, m) = types[Current][m]
    BY <1>2, <1>5 DEF RecordsOK, TypeAt
  <2>2. CASE types[Current][m] = None
    <3>1. \A i \in Index : i \in Recorders(m)' <=> i \in Recorders(m)
      BY <1>13, <2>1, <2>2 DEF Recorders
    <3> QED
      BY <1>1, <2>1, <2>2, <3>1, EnumeratesSame
  <2>3. CASE types[Current][m] # None
    <3>1. \A i \in Index : i \in Recorders(m)' <=> i \in Recorders(m) \ {Current}
      BY <1>13 DEF Recorders
    <3>2. Current \in Recorders(m) /\ \A j \in Index : j \in Recorders(m) => j <= Current
      BY <1>5, <2>1, <2>3 DEF Recorders, TypeAt
    <3>3. Enumerates(Cut(typeBindings[m]), Recorders(m) \ {Current})
      BY <1>5, <2>1, <3>2, EnumeratesCut
    <3>4. typeBindings'[m] = Cut(typeBindings[m])
      BY <1>1, <2>3
    <3> QED
      BY <3>1, <3>3, <3>4, EnumeratesSame
  <2> QED
    BY <2>2, <2>3
<1>17. typeBindings' \in [Name -> Seq(Index)]
  <2>1. \A m \in Name : typeBindings'[m] \in Seq(Index)
    BY <1>16 DEF Enumerates
  <2> QED
    BY <1>1, <2>1
<1>18. Shape'
  BY <1>1, <1>2, <1>4, <1>7, <1>8, <1>9, <1>10, <1>11, <1>17 DEF Shape
<1>19. RecordsOK'
  <2>1. \A i \in 1..(Current - 1), m \in Name : types'[i][m] # None => scopes'[i][m] # None
    BY <1>2, <1>7, <1>8, <1>12 DEF RecordsOK
  <2> QED
    BY <1>10, <1>16, <2>1 DEF RecordsOK
<1>20. ItemsOK'
  <2> SUFFICES ASSUME NEW i \in 1..(Current - 1), NEW k \in 1..Len(items'[i])
               PROVE  /\ scopes'[i][items'[i][k]] # None
                      /\ types'[i][items'[i][k]] = None
                      /\ \A j \in 1..Len(items'[i]) : items'[i][j] = items'[i][k] => j = k
    BY <1>10 DEF ItemsOK
  <2>1. items'[i] = items[i] /\ scopes'[i] = scopes[i] /\ types'[i] = types[i] /\ i \in 1..Current
    BY <1>7, <1>8, <1>9, <1>12
  <2>2. k \in 1..Len(items[i])
    BY <2>1
  <2>3. /\ scopes[i][items[i][k]] # None /\ types[i][items[i][k]] = None
        /\ \A j \in 1..Len(items[i]) : items[i][j] = items[i][k] => j = k
    BY <1>2, <2>1, <2>2 DEF ItemsOK
  <2> QED
    BY <2>1, <2>3
<1>21. WorkOK'
  BY <1>11 DEF WorkOK
<1>22. ValuesHaveTypes'
  <2> SUFFICES ASSUME NEW i \in 1..(Current - 1), NEW m \in Name,
                      scopes'[i][m] # None, types'[i][m] # None, <<i, m>> \notin refused'
               PROVE  Get(arena, scopes'[i][m]) \in Admits[types'[i][m]]
    BY <1>1, <1>10 DEF ValuesHaveTypes
  <2>1. i \in 1..Current /\ i < Current
    BY <1>12
  <2>2. <<i, m>> \notin refused
    BY <1>1, <2>1
  <2> QED
    BY <1>2, <1>7, <1>8, <2>1, <2>2 DEF ValuesHaveTypes
<1> QED
  BY <1>14, <1>15, <1>18, <1>19, <1>20, <1>21, <1>22 DEF IInv

LEMMA InitInvariant ==
  ASSUME Init
  PROVE  IInv
<1>1. /\ arena = EmptyArena /\ scopes = <<Unbound>> /\ bindings = [n \in Name |-> <<>>]
      /\ mutability = bindings /\ references = bindings /\ exclusives = bindings
      /\ types = <<Unbound>> /\ typeBindings = bindings /\ items = << <<>> >>
      /\ work = Idle /\ released = {} /\ refused = {}
  BY DEF Init
<1>2. /\ Unbound \in [Name -> Handle \cup {None}] /\ Unbound \in [Name -> Type \cup {None}]
      /\ \A n \in Name : Unbound[n] = None
  BY DEF Unbound
<1>3. Len(scopes) = 1 /\ Len(types) = 1 /\ Len(items) = 1 /\ scopes[1] = Unbound /\ types[1] = Unbound
      /\ items[1] = <<>>
  BY <1>1
<1>4. Current = 1 /\ 1..Current = {1}
  BY <1>3 DEF Current
<1>5. work \in Work /\ work.kind = "none" /\ \A n \in Name : work.todo[n] = None
  BY <1>1, NoWork DEF Work, Idle
<1>6. /\ scopes \in Seq([Name -> Handle \cup {None}]) /\ types \in Seq([Name -> Type \cup {None}])
      /\ scopes # <<>> /\ items \in Seq(Seq(Name))
  <2>1. \A S : \A x \in S : <<x>> \in Seq(S)
    OBVIOUS
  <2>2. <<>> \in Seq(Name)
    OBVIOUS
  <2> QED
    BY <1>1, <1>2, <1>3, <2>1, <2>2
<1>7. ArenaOK(arena)
  BY <1>1 DEF ArenaOK, EmptyArena
<1>8. /\ bindings \in [Name -> Seq(Index)] /\ mutability \in [Name -> Seq(BOOLEAN)]
      /\ references \in [Name -> Seq(BOOLEAN)] /\ exclusives \in [Name -> Seq(BOOLEAN)]
      /\ typeBindings \in [Name -> Seq(Index)]
  BY <1>1
<1>9. Shape
  BY <1>1, <1>3, <1>4, <1>5, <1>6, <1>7, <1>8 DEF Shape
<1>10. \A i \in Index, n \in Name : At(i, n) = None /\ TypeAt(i, n) = None
  <2>1. \A i \in Index : i <= 1 => i = 1
    BY DEF Index
  <2> QED
    BY <1>2, <1>3, <1>4, <1>5, <2>1 DEF At, TypeAt
<1>11. CellsOK
  BY <1>1, <1>10 DEF CellsOK
<1>12. ASSUME NEW n \in Name
       PROVE  Enumerates(bindings[n], Binders(n)) /\ Enumerates(typeBindings[n], Recorders(n))
  <2>1. bindings[n] = <<>> /\ typeBindings[n] = <<>>
    BY <1>1
  <2>2. \A i \in Index : i \notin Binders(n) /\ i \notin Recorders(n)
    BY <1>10 DEF Binders, Recorders
  <2> QED
    BY <2>1, <2>2 DEF Enumerates, Increasing
<1>13. BindingsOK
  BY <1>1, <1>12 DEF BindingsOK
<1>14. RecordsOK
  BY <1>2, <1>3, <1>4, <1>12 DEF RecordsOK
<1>15. ItemsOK
  BY <1>3, <1>4 DEF ItemsOK
<1>16. WorkOK
  BY <1>5 DEF WorkOK
<1>17. ValuesHaveTypes
  BY <1>2, <1>3, <1>4 DEF ValuesHaveTypes
<1> QED
  BY <1>9, <1>11, <1>13, <1>14, <1>15, <1>16, <1>17 DEF IInv

LEMMA StutterInvariant ==
  ASSUME IInv, UNCHANGED vars
  PROVE  IInv'
<1>1. /\ UNCHANGED <<storage, typing, items, released, refused>> /\ work' = work /\ scopes' = scopes
      /\ types' = types /\ bindings' = bindings /\ refused' = refused /\ Current' = Current
  BY DEF vars, storage, typing, Current
<1>2. work' \in Work /\ WorkOK'
  BY <1>1 DEF IInv, Shape, WorkOK
<1>3. \A i \in Index, m \in Name : At(i, m)' = At(i, m)
  BY <1>1 DEF At
<1> QED
  BY <1>1, <1>2, <1>3, WorkStep

LEMMA NextInvariant ==
  ASSUME IInv, [Next]_vars
  PROVE  IInv'
<1>1. CASE UNCHANGED vars
  BY <1>1, StutterInvariant
<1>2. CASE Push
  BY <1>2, PushStep
<1>3. CASE Pop
  BY <1>3, PopStep
<1>4. CASE DropItem
  BY <1>4, DropItemStep
<1>5. CASE Finish
  BY <1>5, FinishStep
<1>6. ASSUME NEW n \in Name, DeclareNext(n) PROVE IInv'
  BY <1>6, DeclareNextStep
<1>7. ASSUME NEW n \in Name, ReassignNext(n) PROVE IInv'
  BY <1>7, ReassignNextStep
<1>8. ASSUME NEW n \in Name, DrainNext(n) PROVE IInv'
  BY <1>8, DrainNextStep
<1>9. ASSUME NEW n \in Name, NEW t \in Type, NEW b \in Bindings, Declare(n, t, b) PROVE IInv'
  BY <1>9, DeclareStep
<1>10. ASSUME NEW n \in Name, NEW b \in Plain, DeclareLoop(n, b) PROVE IInv'
  BY <1>10, DeclareLoopStep
<1>11. ASSUME NEW n \in Name, NEW v \in Val, Reassign(n, v) \/ Rebind(n, v) \/ BindItem(n, v) PROVE IInv'
  BY <1>11, ReassignStep, RebindStep, BindItemStep
<1>12. ASSUME NEW new \in [Name -> Plain \cup {None}], DeclareMany(new) PROVE IInv'
  BY <1>12, DeclareManyStep
<1>13. ASSUME NEW values \in [Name -> Val \cup {None}], ReassignMany(values) PROVE IInv'
  BY <1>13, ReassignManyStep
<1> QED
  BY <1>1, <1>2, <1>3, <1>4, <1>5, <1>6, <1>7, <1>8, <1>9, <1>10, <1>11, <1>12, <1>13 DEF Next

\* The invariant: every cell of every scope has a handle of its own, which
\* resolves; handles given up are dead; each name's indices enumerate the scopes
\* that bind it, a scope that is being drained included, and those that record a
\* type for it; what a loop is still to define or write is where it was resolved
\* (runtime/scope.rs, runtime/arena.rs, evaluator.rs).
THEOREM StorageInvariant == Spec => []IInv
<1>1. Init => IInv
  BY InitInvariant
<1>2. IInv /\ [Next]_vars => IInv'
  BY NextInvariant
<1> QED
  BY <1>1, <1>2, PTL DEF Spec

-----------------------------------------------------------------------------
(* What follows from the invariant.                                          *)

LEMMA TypesFollow ==
  ASSUME IInv
  PROVE  TypeOK
<1>1. Shape
  BY DEF IInv
<1>2. /\ arena.slots \in Seq([generation : 0..MaxGeneration, value : Val \cup {None}])
      /\ arena.free \in Seq(Nat \ {0})
  BY <1>1 DEF Shape, ArenaOK, Slot, Index
<1>3. bindings \in [Name -> Seq(Nat \ {0})] /\ typeBindings \in [Name -> Seq(Nat \ {0})]
  BY <1>1 DEF Shape, Index
<1> QED
  BY <1>1, <1>2, <1>3 DEF TypeOK, Shape

\* The cells of At are those of Held.
LEMMA HeldCells ==
  ASSUME IInv
  PROVE  /\ \A p \in Held : /\ p = <<p[1], p[2]>> /\ p[1] \in Index /\ p[2] \in Name
                            /\ HandleAt(p) = At(p[1], p[2]) /\ HandleAt(p) # None
         /\ \A i \in Index, n \in Name : At(i, n) # None => <<i, n>> \in Held
<1>1. /\ Current \in Nat \ {0}
      /\ \A i \in Index : i <= Current <=> i \in 1..Current
      /\ \A i \in 1..Current, n \in Name : At(i, n) = scopes[i][n]
      /\ \A i \in 1..Current : i \in Index /\ i <= Current
  <2>1. Shape
    BY DEF IInv
  <2> QED
    BY <2>1, ShapeFacts DEF Index
<1>2. Current + 1 \in Index /\ ~(Current + 1 <= Current)
  BY <1>1 DEF Index
<1> HIDE DEF Current
<1>3. ASSUME NEW p \in Held
      PROVE  /\ p = <<p[1], p[2]>> /\ p[1] \in Index /\ p[2] \in Name
             /\ HandleAt(p) = At(p[1], p[2]) /\ HandleAt(p) # None
  <2>1. CASE p \in {q \in (1..Current) \X Name : scopes[q[1]][q[2]] # None}
    <3>1. p = <<p[1], p[2]>> /\ p[1] \in 1..Current /\ p[2] \in Name /\ scopes[p[1]][p[2]] # None
      BY <2>1
    <3> QED
      BY <1>1, <3>1 DEF HandleAt
  <2>2. CASE p \in {<<Current + 1, n>> : n \in {m \in Name : work.kind = "drain" /\ work.todo[m] # None}}
    <3>1. PICK n \in Name : work.kind = "drain" /\ work.todo[n] # None /\ p = <<Current + 1, n>>
      BY <2>2
    <3>2. p[1] = Current + 1 /\ p[2] = n
      BY <3>1
    <3> QED
      BY <1>2, <3>1, <3>2 DEF HandleAt, At
  <2> QED
    BY <2>1, <2>2 DEF Held
<1>4. ASSUME NEW i \in Index, NEW n \in Name, At(i, n) # None
      PROVE  <<i, n>> \in Held
  <2>1. CASE i <= Current
    <3>1. i \in 1..Current /\ scopes[i][n] # None
      BY <1>1, <1>4, <2>1
    <3>2. <<i, n>> \in {q \in (1..Current) \X Name : scopes[q[1]][q[2]] # None}
      BY <3>1
    <3> QED
      BY <3>2 DEF Held
  <2>2. CASE ~(i <= Current)
    <3>1. i = Current + 1 /\ work.kind = "drain" /\ work.todo[n] # None
      BY <1>4, <2>2 DEF At
    <3>2. <<i, n>> \in {<<Current + 1, m>> : m \in {x \in Name : work.kind = "drain" /\ work.todo[x] # None}}
      BY <3>1
    <3> QED
      BY <3>2 DEF Held
  <2> QED
    BY <2>1, <2>2
<1> QED
  BY <1>3, <1>4

LEMMA LiveFollows ==
  ASSUME IInv
  PROVE  HandlesLive
<1>1. CellsOK /\ ArenaOK(arena)
  BY DEF IInv, Shape
<1>2. ASSUME NEW p \in Held PROVE Resolves(arena, HandleAt(p))
  BY <1>1, HeldCells DEF CellsOK
<1>3. ASSUME NEW p \in Held, NEW q \in Held, HandleAt(p).index = HandleAt(q).index PROVE p = q
  <2>1. /\ p = <<p[1], p[2]>> /\ p[1] \in Index /\ p[2] \in Name
        /\ HandleAt(p) = At(p[1], p[2]) /\ HandleAt(p) # None
        /\ q = <<q[1], q[2]>> /\ q[1] \in Index /\ q[2] \in Name
        /\ HandleAt(q) = At(q[1], q[2]) /\ HandleAt(q) # None
    BY HeldCells
  <2>2. p[1] = q[1] /\ p[2] = q[2]
    BY <1>1, <1>3, <2>1 DEF CellsOK
  <2> QED
    BY <2>1, <2>2
<1> QED
  BY <1>1, <1>2, <1>3 DEF HandlesLive, ArenaOK

LEMMA StaleFollows ==
  ASSUME IInv
  PROVE  StaleStaysDead
BY DeadNeverResolves DEF IInv, Shape, CellsOK, StaleStaysDead

LEMMA MapsFollow ==
  ASSUME IInv
  PROVE  MapsAgree
<1>1. Shape /\ BindingsOK /\ RecordsOK
  BY DEF IInv
<1>2. /\ Current \in Nat \ {0} /\ Len(types) = Current /\ Len(items) = Current
      /\ \A i \in Index : i <= Current <=> i \in 1..Current
      /\ \A i \in 1..Current, n \in Name : At(i, n) = scopes[i][n] /\ TypeAt(i, n) = types[i][n]
  BY <1>1, ShapeFacts DEF Shape
<1>3. \A i \in 1..(Current + 1) : i \in Index
  BY <1>2 DEF Index
<1>4. \A i \in 1..Current : i \in Index
  BY <1>2 DEF Index
<1>5. ValueMapsAgree
  <2> SUFFICES ASSUME NEW n \in Name
               PROVE  /\ Increasing(bindings[n])
                      /\ \A i \in 1..(Current + 1) :
                           <<i, n>> \in Held <=> \E k \in 1..Len(bindings[n]) : bindings[n][k] = i
                      /\ \A k \in 1..Len(bindings[n]) : bindings[n][k] <= Current + 1
                      /\ Len(mutability[n]) = Len(bindings[n])
                      /\ Len(references[n]) = Len(bindings[n])
                      /\ Len(exclusives[n]) = Len(bindings[n])
    BY <1>2 DEF ValueMapsAgree
  <2>1. /\ bindings[n] \in Seq(Index) /\ Increasing(bindings[n])
        /\ \A i \in Index : At(i, n) # None <=> \E k \in 1..Len(bindings[n]) : bindings[n][k] = i
    BY <1>1 DEF BindingsOK, Enumerates, Binders
  <2>2. ASSUME NEW i \in 1..(Current + 1)
        PROVE  <<i, n>> \in Held <=> At(i, n) # None
    <3>1. ASSUME <<i, n>> \in Held PROVE At(i, n) # None
      <4>1. <<i, n>>[1] = i /\ <<i, n>>[2] = n
        OBVIOUS
      <4> QED
        BY <3>1, <4>1, HeldCells
    <3>2. At(i, n) # None => <<i, n>> \in Held
      BY <1>3, HeldCells
    <3> QED
      BY <3>1, <3>2
  <2>3. ASSUME NEW k \in 1..Len(bindings[n]) PROVE bindings[n][k] <= Current + 1
    <3>1. bindings[n][k] \in Index
      BY <2>1
    <3>2. At(bindings[n][k], n) # None
      BY <2>1, <3>1
    <3>3. bindings[n][k] <= Current \/ bindings[n][k] = Current + 1
      BY <3>2 DEF At
    <3> QED
      BY <1>2, <3>1, <3>3 DEF Index
  <2> QED
    BY <1>1, <1>3, <2>1, <2>2, <2>3 DEF BindingsOK
<1>6. TypeMapsAgree
  <2> SUFFICES ASSUME NEW n \in Name
               PROVE  /\ Increasing(typeBindings[n])
                      /\ \A k \in 1..Len(typeBindings[n]) : typeBindings[n][k] \in 1..Current
                      /\ \A i \in 1..Current :
                           types[i][n] # None <=> \E k \in 1..Len(typeBindings[n]) : typeBindings[n][k] = i
    BY <1>2 DEF TypeMapsAgree
  <2>1. /\ typeBindings[n] \in Seq(Index) /\ Increasing(typeBindings[n])
        /\ \A i \in Index : TypeAt(i, n) # None <=> \E k \in 1..Len(typeBindings[n]) : typeBindings[n][k] = i
    BY <1>1 DEF RecordsOK, Enumerates, Recorders
  <2>2. ASSUME NEW k \in 1..Len(typeBindings[n]) PROVE typeBindings[n][k] \in 1..Current
    <3>1. typeBindings[n][k] \in Index
      BY <2>1
    <3>2. TypeAt(typeBindings[n][k], n) # None
      BY <2>1, <3>1
    <3>3. typeBindings[n][k] <= Current
      BY <3>2 DEF TypeAt
    <3> QED
      BY <1>2, <3>1, <3>3
  <2> QED
    BY <1>2, <1>4, <2>1, <2>2
<1> QED
  BY <1>5, <1>6 DEF MapsAgree

LEMMA CapturesFollow ==
  ASSUME IInv
  PROVE  CapturesWhatIsSeen
<1> SUFFICES ASSUME work = Idle, NEW n \in Name
             PROVE  IF Contains(n) THEN Captured(n) = Lookup(n) ELSE Captured(n) = None
  BY DEF CapturesWhatIsSeen
<1>1. work.kind # "drain"
  BY NoWork
<1>2. Current \in Nat /\ \A i \in 1..Current : i \in Nat /\ i # 0
  BY ShapeFacts DEF IInv
<1> DEFINE Binds == {i \in 1..Current : scopes[i][n] # None}
<1>3. Captured(n) = IF Binds = {} THEN None
                    ELSE Get(arena, scopes[CHOOSE i \in Binds : \A j \in Binds : j <= i][n])
  BY DEF Captured
<1>4. CASE bindings[n] = <<>>
  <2>1. ScopeOf(n) = 0 /\ Binds = {}
    BY <1>1, <1>4, Visible
  <2> QED
    BY <1>3, <2>1 DEF Contains
<1>5. CASE bindings[n] # <<>>
  <2> DEFINE c == End(bindings[n])
  <2>1. c \in 1..Current /\ scopes[c][n] # None /\ ScopeOf(n) = c
        /\ \A i \in 1..Current : scopes[i][n] # None => i <= c
    BY <1>1, <1>5, Visible
  <2> HIDE DEF c
  <2>2. c \in Binds /\ \A j \in Binds : j <= c
    BY <2>1
  <2>3. \A i \in Binds : (\A j \in Binds : j <= i) => i = c
    BY <1>2, <2>1, <2>2
  <2>4. (CHOOSE i \in Binds : \A j \in Binds : j <= i) = c
    BY <2>2, <2>3
  <2>5. Binds # {}
    BY <2>2
  <2> HIDE DEF Binds
  <2> QED
    BY <1>2, <1>3, <2>1, <2>4, <2>5 DEF Contains, Lookup
<1> QED
  BY <1>4, <1>5

\* The variables have their types (runtime/scope.rs, evaluator.rs).
THEOREM StorageTypes == Spec => []TypeOK
BY StorageInvariant, TypesFollow, PTL

\* The expectations at which scope.rs and arena.rs would panic never fail: every
\* handle a scope holds resolves and is held once, and the free list offers
\* empty slots only.
THEOREM HandlesResolve == Spec => []HandlesLive
BY StorageInvariant, LiveFollows, PTL

\* However often slots are reused, a handle that was given up never resolves
\* again: a slot whose generation cannot grow is retired (Arena::remove).
THEOREM StaleHandlesFail == Spec => []StaleStaysDead
BY StorageInvariant, StaleFollows, PTL

\* The maps of the two stacks agree at every step, also halfway through a loop
\* over names (define, pop and remove_current of scope.rs; TypeScopes).
THEOREM MapsStayInStep == Spec => []MapsAgree
BY StorageInvariant, MapsFollow, PTL

\* A binding holds a value of the type recorded for it, also while several are
\* written one after another, unless a second declaration of it was refused
\* (execution.rs, Stmt::Assign and Stmt::DestructureReassign).
THEOREM TypesAreKept == Spec => []ValuesHaveTypes
<1>1. IInv => ValuesHaveTypes
  BY DEF IInv
<1> QED
  BY <1>1, StorageInvariant, PTL

\* What a closure captures of a name, walking all scopes, is what a lookup at its
\* place finds by the name's last index (values_for and lookup of scope.rs).
THEOREM CapturesAreVisible == Spec => []CapturesWhatIsSeen
BY StorageInvariant, CapturesFollow, PTL
=============================================================================
