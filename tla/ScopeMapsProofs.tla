--------------------------- MODULE ScopeMapsProofs ---------------------------
(* The scopes implement ScopeMaps, a stack of maps whose operations happen at *)
(* once: every step of ScopeStorage is one of its steps or none.              *)
EXTENDS ScopeStorageProofs

-----------------------------------------------------------------------------
(* The flags of a binding.                                                   *)

Flag(s, flags, i) == \E k \in 1..Len(s) : s[k] = i /\ flags[k]

LEMMA FlagAppend ==
  ASSUME NEW s \in Seq(Index), NEW flags \in Seq(BOOLEAN), Len(flags) = Len(s), NEW c \in Index,
         NEW f \in BOOLEAN, \A k \in 1..Len(s) : s[k] # c
  PROVE  /\ Flag(Append(s, c), Append(flags, f), c) <=> f
         /\ \A i \in Index : i # c => (Flag(Append(s, c), Append(flags, f), i) <=> Flag(s, flags, i))
<1> DEFINE t == Append(s, c)
           g == Append(flags, f)
<1>1. /\ Len(t) = Len(s) + 1 /\ \A k \in 1..Len(s) : t[k] = s[k]
      /\ t[Len(s) + 1] = c /\ Len(s) \in Nat
  BY AppendFacts
<1>2. (\A k \in 1..Len(s) : g[k] = flags[k]) /\ g[Len(s) + 1] = f
  BY AppendFacts
<1> HIDE DEF t, g
<1>3. \A k \in 1..Len(t) : k = Len(s) + 1 \/ k \in 1..Len(s)
  BY <1>1, UpToLast
<1>4. Len(s) + 1 \in 1..Len(t) /\ \A k \in 1..Len(s) : k \in 1..Len(t)
  BY <1>1
<1>5. Flag(t, g, c) <=> f
  BY <1>1, <1>2, <1>3, <1>4 DEF Flag
<1>6. \A i \in Index : i # c => (Flag(t, g, i) <=> Flag(s, flags, i))
  BY <1>1, <1>2, <1>3, <1>4 DEF Flag
<1> QED
  BY <1>5, <1>6 DEF t, g

LEMMA FlagCut ==
  ASSUME NEW s \in Seq(Index), NEW flags \in Seq(BOOLEAN), Len(flags) = Len(s), s # <<>>
  PROVE  \A i \in Index : i # End(s) => (Flag(Cut(s), Cut(flags), i) <=> Flag(s, flags, i))
<1> DEFINE t == Cut(s)
           g == Cut(flags)
<1>1. /\ Len(t) = Len(s) - 1 /\ \A k \in 1..(Len(s) - 1) : t[k] = s[k]
      /\ Len(s) \in Nat \ {0} /\ End(s) = s[Len(s)]
  BY CutFacts
<1>2. flags # <<>>
  BY <1>1
<1>3. \A k \in 1..(Len(s) - 1) : g[k] = flags[k]
  BY <1>2, CutFacts
<1> HIDE DEF t, g
<1>4. \A k \in 1..Len(s) : k = Len(s) \/ k \in 1..(Len(s) - 1)
  BY <1>1
<1>5. \A k \in 1..(Len(s) - 1) : k \in 1..Len(s)
  BY <1>1
<1>6. \A i \in Index : i # End(s) => (Flag(t, g, i) <=> Flag(s, flags, i))
  BY <1>1, <1>3, <1>4, <1>5 DEF Flag
<1> QED
  BY <1>6 DEF t, g

\* The last flag is that of the last binding.
LEMMA FlagEnd ==
  ASSUME NEW s, NEW S, Enumerates(s, S), s # <<>>, NEW flags \in Seq(BOOLEAN), Len(flags) = Len(s)
  PROVE  Flag(s, flags, End(s)) <=> End(flags)
<1>1. Len(s) \in 1..Len(s)
  BY CutFacts DEF Enumerates
<1>2. \A k \in 1..Len(s) : s[k] = End(s) <=> k = Len(s)
  BY EnumeratesEnd
<1> QED
  BY <1>1, <1>2 DEF Flag, End

LEMMA SameBoolean ==
  ASSUME NEW x \in BOOLEAN, NEW y \in BOOLEAN, x <=> y
  PROVE  x = y
OBVIOUS

LEMMA FlagIsBoolean ==
  /\ \A i, n : /\ FlagOf(mutability, i, n) \in BOOLEAN
               /\ FlagOf(references, i, n) \in BOOLEAN
               /\ FlagOf(exclusives, i, n) \in BOOLEAN
  /\ \A i, n : /\ FlagOf(mutability, i, n)' \in BOOLEAN
               /\ FlagOf(references, i, n)' \in BOOLEAN
               /\ FlagOf(exclusives, i, n)' \in BOOLEAN
BY DEF FlagOf

-----------------------------------------------------------------------------
(* The cells of the stack of maps.                                           *)

Entry(i, n, v) ==
  [value |-> v, mutable |-> FlagOf(mutability, i, n), reference |-> FlagOf(references, i, n),
   exclusive |-> FlagOf(exclusives, i, n)]

ValueAt(i, n) == IF Pending(i, n) THEN work.todo[n].value ELSE Get(arena, scopes[i][n])

Seen(i, n) ==
  IF work.kind = "define" /\ i = Current /\ work.todo[n] # None THEN work.todo[n]
  ELSE IF scopes[i][n] = None THEN None ELSE Entry(i, n, ValueAt(i, n))

Cells == Maps!Binding \cup {None}

LEMMA StackCells ==
  /\ Stack = [i \in 1..Current |-> [n \in Name |-> Seen(i, n)]]
  /\ Stack' = [i \in 1..Current' |-> [n \in Name |-> Seen(i, n)']]
BY DEF Stack, Seen, ValueAt, Entry

LEMMA StackFacts ==
  ASSUME IInv
  PROVE  /\ Len(Stack) = Current /\ \E V : Stack \in Seq(V)
         /\ \A i \in 1..Current : Stack[i] = [n \in Name |-> Seen(i, n)]
         /\ \A i \in 1..Current, n \in Name : Stack[i][n] = Seen(i, n)
         /\ Current \in Nat \ {0} /\ Current \in 1..Current /\ \A i \in 1..Current : i \in Index
<1>1. Current \in Nat \ {0} /\ Current \in 1..Current /\ \A i \in 1..Current : i \in Index
  BY ShapeFacts DEF IInv, Index
<1> DEFINE V == {Seen(i, n) : i \in 1..Current, n \in Name}
<1>2. \A i \in 1..Current, n \in Name : Seen(i, n) \in V
  OBVIOUS
<1> HIDE DEF Current, V
<1>3. \A i \in 1..Current : [n \in Name |-> Seen(i, n)] \in [Name -> V]
  BY <1>2
<1>4. Stack \in [1..Current -> [Name -> V]]
  BY <1>3, StackCells
<1>5. Stack \in Seq([Name -> V]) /\ Len(Stack) = Current
  BY <1>1, <1>4
<1>6. \A i \in 1..Current : Stack[i] = [n \in Name |-> Seen(i, n)]
  BY StackCells
<1> QED
  BY <1>1, <1>5, <1>6

LEMMA SameStack ==
  ASSUME Current' = Current, \A i \in 1..Current, n \in Name : Seen(i, n)' = Seen(i, n)
  PROVE  Stack' = Stack
BY StackCells

LEMMA DefinesStack ==
  ASSUME IInv, Current' = Current, NEW new \in [Name -> Cells],
         \A n \in Name : new[n] # None => Seen(Current, n) = None,
         \A i \in 1..Current, n \in Name :
           Seen(i, n)' = IF i = Current /\ new[n] # None THEN new[n] ELSE Seen(i, n)
  PROVE  Maps!Next
<1>1. /\ Len(Stack) = Current /\ Current \in 1..Current
      /\ \A i \in 1..Current : Stack[i] = [n \in Name |-> Seen(i, n)]
      /\ \A i \in 1..Current, n \in Name : Stack[i][n] = Seen(i, n)
  BY StackFacts
<1> DEFINE row == [n \in Name |-> IF new[n] # None THEN new[n] ELSE Stack[Current][n]]
<1>2. row = [n \in Name |-> Seen(Current, n)']
  BY <1>1
<1>3. \A i \in 1..Current : i # Current => [n \in Name |-> Seen(i, n)'] = Stack[i]
  BY <1>1
<1> HIDE DEF row
<1>4. DOMAIN Stack = 1..Current /\ Stack = [i \in 1..Current |-> Stack[i]]
  BY StackCells
<1> HIDE DEF Current
<1>5. Stack' = [Stack EXCEPT ![Current] = row]
  BY <1>1, <1>2, <1>3, <1>4, StackCells
<1>6. Maps!Define(new)
  BY <1>1, <1>5 DEF Maps!Define, Maps!Top, row
<1> QED
  BY <1>6 DEF Maps!Next, Cells

\* Other values in visible cells; the flags stay.
LEMMA AssignsStack ==
  ASSUME IInv, Current' = Current, NEW values \in [Name -> Val \cup {None}],
         \A n \in Name : values[n] # None =>
           \E i \in 1..Current : /\ Maps!Innermost(i, n)
                                 /\ Seen(i, n).mutable \/ i = Current,
         \A i \in 1..Current, n \in Name :
           Seen(i, n)' = IF values[n] # None /\ Maps!Innermost(i, n)
                         THEN [Seen(i, n) EXCEPT !.value = values[n]] ELSE Seen(i, n)
  PROVE  Maps!Next
<1>1. /\ Len(Stack) = Current
      /\ \A i \in 1..Current, n \in Name : Stack[i][n] = Seen(i, n)
  BY StackFacts
<1> HIDE DEF Current
<1>2. Stack' = [i \in 1..Current |-> [n \in Name |->
                  IF values[n] # None /\ Maps!Innermost(i, n)
                  THEN [Stack[i][n] EXCEPT !.value = values[n]] ELSE Stack[i][n]]]
  BY <1>1, StackCells
<1>3. Maps!Assign(values)
  BY <1>1, <1>2 DEF Maps!Assign, Maps!Top
<1> QED
  BY <1>3 DEF Maps!Next

LEMMA RemovesStack ==
  ASSUME IInv, Current' = Current, NEW n \in Name, Seen(Current, n) # None,
         \A i \in 1..Current, m \in Name :
           Seen(i, m)' = IF i = Current /\ m = n THEN None ELSE Seen(i, m)
  PROVE  Maps!Next
<1>1. /\ Len(Stack) = Current /\ Current \in 1..Current
      /\ \A i \in 1..Current : Stack[i] = [m \in Name |-> Seen(i, m)]
      /\ \A i \in 1..Current, m \in Name : Stack[i][m] = Seen(i, m)
  BY StackFacts
<1> DEFINE row == [Stack[Current] EXCEPT ![n] = None]
<1>2. row = [m \in Name |-> Seen(Current, m)']
  BY <1>1
<1>3. \A i \in 1..Current : i # Current => [m \in Name |-> Seen(i, m)'] = Stack[i]
  BY <1>1
<1> HIDE DEF row
<1>4. DOMAIN Stack = 1..Current /\ Stack = [i \in 1..Current |-> Stack[i]]
  BY StackCells
<1> HIDE DEF Current
<1>5. Stack' = [Stack EXCEPT ![Current] = row]
  BY <1>1, <1>2, <1>3, <1>4, StackCells
<1>6. Maps!Remove(n)
  BY <1>1, <1>5 DEF Maps!Remove, Maps!Top, row
<1> QED
  BY <1>6 DEF Maps!Next

-----------------------------------------------------------------------------
(* How the operations change a cell.                                         *)

\* The name is bound in the current scope: its entry is the binding; the other
\* entries stay.
LEMMA EntryDefined ==
  ASSUME IInv, NEW n \in Name, NEW b \in Bindings, DefineValue(n, b), scopes[Current][n] = None,
         work.kind # "drain", work'.kind # "drain", released' = released
  PROVE  /\ Current' = Current /\ scopes'[Current][n] # None /\ Get(arena', scopes'[Current][n]) = b.value
         /\ Entry(Current, n, b.value)' = b
         /\ \A i \in 1..Current, m \in Name : ~(i = Current /\ m = n) =>
              /\ scopes'[i][m] = scopes[i][m]
              /\ scopes[i][m] # None => Get(arena', scopes[i][m]) = Get(arena, scopes[i][m])
              /\ \A v : Entry(i, m, v)' = Entry(i, m, v)
<1>1. Shape /\ CellsOK /\ BindingsOK
  BY DEF IInv
<1>2. /\ Get(arena', NextHandle(arena)) = b.value /\ NextHandle(arena) \in Handle
      /\ Len(scopes') = Len(scopes)
      /\ \A i \in 1..Current, m \in Name :
           scopes'[i][m] = IF i = Current /\ m = n THEN NextHandle(arena) ELSE scopes[i][m]
      /\ \A i \in 1..Current, m \in Name :
           scopes[i][m] # None => Get(arena', scopes[i][m]) = Get(arena, scopes[i][m])
  BY <1>1, DefineValueFacts
<1>3. /\ Current \in Nat \ {0} /\ Current \in 1..Current /\ Current' = Current
      /\ \A i \in 1..Current : i \in Index
  BY <1>1, <1>2, StackFacts DEF Current
<1>4. scopes'[Current][n] = NextHandle(arena) /\ NextHandle(arena) # None
  BY <1>2, <1>3, DataAssumption
<1>5. /\ bindings \in [Name -> Seq(Index)] /\ mutability \in [Name -> Seq(BOOLEAN)]
      /\ references \in [Name -> Seq(BOOLEAN)] /\ exclusives \in [Name -> Seq(BOOLEAN)]
      /\ Len(mutability[n]) = Len(bindings[n]) /\ Len(references[n]) = Len(bindings[n])
      /\ Len(exclusives[n]) = Len(bindings[n])
  BY <1>1 DEF Shape, BindingsOK
<1>6. /\ bindings' = [bindings EXCEPT ![n] = Append(@, Current)]
      /\ mutability' = [mutability EXCEPT ![n] = Append(@, b.mutable)]
      /\ references' = [references EXCEPT ![n] = Append(@, b.reference)]
      /\ exclusives' = [exclusives EXCEPT ![n] = Append(@, b.exclusive)]
  BY DEF DefineValue
<1>7. \A k \in 1..Len(bindings[n]) : bindings[n][k] # Current
  <2>1. \A i \in Index : At(i, n) # None <=> \E k \in 1..Len(bindings[n]) : bindings[n][k] = i
    BY <1>1 DEF BindingsOK, Enumerates, Binders
  <2>2. At(Current, n) = None /\ Current \in Index
    BY <1>1, <1>3, ShapeFacts
  <2> QED
    BY <2>1, <2>2
<1>8. /\ b.value \in Val /\ b.mutable \in BOOLEAN /\ b.reference \in BOOLEAN /\ b.exclusive \in BOOLEAN
      /\ b = [value |-> b.value, mutable |-> b.mutable, reference |-> b.reference, exclusive |-> b.exclusive]
  BY BindingFacts
<1> HIDE DEF Current
<1>9. ASSUME NEW flags, NEW new, flags \in [Name -> Seq(BOOLEAN)], Len(flags[n]) = Len(bindings[n]),
             NEW f \in BOOLEAN, new = [flags EXCEPT ![n] = Append(@, f)]
      PROVE  /\ Flag(bindings'[n], new[n], Current) <=> f
             /\ \A i \in 1..Current, m \in Name : ~(i = Current /\ m = n) =>
                  (Flag(bindings'[m], new[m], i) <=> Flag(bindings[m], flags[m], i))
  <2>1. bindings'[n] = Append(bindings[n], Current) /\ new[n] = Append(flags[n], f)
    BY <1>5, <1>6, <1>9
  <2>2. /\ Flag(bindings'[n], new[n], Current) <=> f
        /\ \A i \in Index : i # Current =>
             (Flag(bindings'[n], new[n], i) <=> Flag(bindings[n], flags[n], i))
    <3>1. bindings[n] \in Seq(Index) /\ flags[n] \in Seq(BOOLEAN) /\ Current \in Index
      BY <1>3, <1>5, <1>9
    <3> QED
      BY <1>7, <1>9, <2>1, <3>1, FlagAppend
  <2>3. ASSUME NEW i \in 1..Current, NEW m \in Name, ~(i = Current /\ m = n)
        PROVE  Flag(bindings'[m], new[m], i) <=> Flag(bindings[m], flags[m], i)
    <3>1. CASE m = n
      BY <1>3, <2>2, <2>3, <3>1
    <3>2. CASE m # n
      BY <1>5, <1>6, <1>9, <3>2
    <3> QED
      BY <3>1, <3>2
  <2> QED
    BY <2>2, <2>3
<1>10. /\ \A i, m : FlagOf(mutability, i, m) <=> Flag(bindings[m], mutability[m], i)
       /\ \A i, m : FlagOf(references, i, m) <=> Flag(bindings[m], references[m], i)
       /\ \A i, m : FlagOf(exclusives, i, m) <=> Flag(bindings[m], exclusives[m], i)
       /\ \A i, m : FlagOf(mutability, i, m)' <=> Flag(bindings'[m], mutability'[m], i)
       /\ \A i, m : FlagOf(references, i, m)' <=> Flag(bindings'[m], references'[m], i)
       /\ \A i, m : FlagOf(exclusives, i, m)' <=> Flag(bindings'[m], exclusives'[m], i)
  BY DEF FlagOf, Flag
<1>11. /\ FlagOf(mutability, Current, n)' <=> b.mutable
       /\ \A i \in 1..Current, m \in Name : ~(i = Current /\ m = n) =>
            (FlagOf(mutability, i, m)' <=> FlagOf(mutability, i, m))
  BY <1>3, <1>5, <1>6, <1>8, <1>9, <1>10
<1>12. /\ FlagOf(references, Current, n)' <=> b.reference
       /\ \A i \in 1..Current, m \in Name : ~(i = Current /\ m = n) =>
            (FlagOf(references, i, m)' <=> FlagOf(references, i, m))
  BY <1>3, <1>5, <1>6, <1>8, <1>9, <1>10
<1>13. /\ FlagOf(exclusives, Current, n)' <=> b.exclusive
       /\ \A i \in 1..Current, m \in Name : ~(i = Current /\ m = n) =>
            (FlagOf(exclusives, i, m)' <=> FlagOf(exclusives, i, m))
  BY <1>3, <1>5, <1>6, <1>8, <1>9, <1>10
<1>14. Entry(Current, n, b.value)' = b
  <2>1. Entry(Current, n, b.value)' =
          [value |-> b.value, mutable |-> FlagOf(mutability, Current, n)',
           reference |-> FlagOf(references, Current, n)', exclusive |-> FlagOf(exclusives, Current, n)']
    BY <1>3 DEF Entry
  <2>2. /\ FlagOf(mutability, Current, n)' = b.mutable
        /\ FlagOf(references, Current, n)' = b.reference
        /\ FlagOf(exclusives, Current, n)' = b.exclusive
    BY <1>8, <1>11, <1>12, <1>13, FlagIsBoolean, SameBoolean
  <2> QED
    BY <1>8, <2>1, <2>2
<1>15. ASSUME NEW i \in 1..Current, NEW m \in Name, ~(i = Current /\ m = n), NEW v
       PROVE  Entry(i, m, v)' = Entry(i, m, v)
  <2>1. /\ FlagOf(mutability, i, m)' = FlagOf(mutability, i, m)
        /\ FlagOf(references, i, m)' = FlagOf(references, i, m)
        /\ FlagOf(exclusives, i, m)' = FlagOf(exclusives, i, m)
    BY <1>11, <1>12, <1>13, <1>15, FlagIsBoolean, SameBoolean
  <2> QED
    BY <2>1 DEF Entry
<1> QED
  BY <1>2, <1>3, <1>4, <1>14, <1>15

\* The last binding of a name is dropped: the other entries stay.
LEMMA EntryForgot ==
  ASSUME IInv, NEW n \in Name, Forget(n), NEW c \in Index, At(c, n) # None,
         \A j \in Index : At(j, n) # None => j <= c
  PROVE  \A i \in 1..Current, m \in Name : ~(i = c /\ m = n) => \A v : Entry(i, m, v)' = Entry(i, m, v)
<1>1. Shape /\ BindingsOK
  BY DEF IInv
<1>2. \A i \in 1..Current : i \in Index
  BY <1>1, StackFacts
<1>3. /\ bindings \in [Name -> Seq(Index)] /\ mutability \in [Name -> Seq(BOOLEAN)]
      /\ references \in [Name -> Seq(BOOLEAN)] /\ exclusives \in [Name -> Seq(BOOLEAN)]
      /\ Len(mutability[n]) = Len(bindings[n]) /\ Len(references[n]) = Len(bindings[n])
      /\ Len(exclusives[n]) = Len(bindings[n])
  BY <1>1 DEF Shape, BindingsOK
<1>4. /\ bindings' = [bindings EXCEPT ![n] = Cut(@)] /\ mutability' = [mutability EXCEPT ![n] = Cut(@)]
      /\ references' = [references EXCEPT ![n] = Cut(@)] /\ exclusives' = [exclusives EXCEPT ![n] = Cut(@)]
  BY DEF Forget
<1>5. bindings[n] # <<>> /\ End(bindings[n]) = c
  <2>1. bindings[n] # <<>> /\ End(bindings[n]) \in Index /\ c <= End(bindings[n]) /\ End(bindings[n]) <= c
    BY <1>1, LastBinder
  <2> QED
    BY <2>1 DEF Index
<1> HIDE DEF Current
<1>6. ASSUME NEW flags, NEW new, flags \in [Name -> Seq(BOOLEAN)], Len(flags[n]) = Len(bindings[n]),
             new = [flags EXCEPT ![n] = Cut(@)]
      PROVE  \A i \in 1..Current, m \in Name : ~(i = c /\ m = n) =>
               (Flag(bindings'[m], new[m], i) <=> Flag(bindings[m], flags[m], i))
  <2>1. bindings'[n] = Cut(bindings[n]) /\ new[n] = Cut(flags[n])
    BY <1>3, <1>4, <1>6
  <2>2. \A i \in Index : i # c => (Flag(bindings'[n], new[n], i) <=> Flag(bindings[n], flags[n], i))
    <3>1. bindings[n] \in Seq(Index) /\ flags[n] \in Seq(BOOLEAN)
      BY <1>3, <1>6
    <3> QED
      BY <1>5, <1>6, <2>1, <3>1, FlagCut
  <2> SUFFICES ASSUME NEW i \in 1..Current, NEW m \in Name, ~(i = c /\ m = n)
               PROVE  Flag(bindings'[m], new[m], i) <=> Flag(bindings[m], flags[m], i)
    OBVIOUS
  <2>3. CASE m = n
    BY <1>2, <2>2, <2>3
  <2>4. CASE m # n
    BY <1>3, <1>4, <1>6, <2>4
  <2> QED
    BY <2>3, <2>4
<1>7. /\ \A i, m : FlagOf(mutability, i, m) <=> Flag(bindings[m], mutability[m], i)
      /\ \A i, m : FlagOf(references, i, m) <=> Flag(bindings[m], references[m], i)
      /\ \A i, m : FlagOf(exclusives, i, m) <=> Flag(bindings[m], exclusives[m], i)
      /\ \A i, m : FlagOf(mutability, i, m)' <=> Flag(bindings'[m], mutability'[m], i)
      /\ \A i, m : FlagOf(references, i, m)' <=> Flag(bindings'[m], references'[m], i)
      /\ \A i, m : FlagOf(exclusives, i, m)' <=> Flag(bindings'[m], exclusives'[m], i)
  BY DEF FlagOf, Flag
<1>8. \A i \in 1..Current, m \in Name : ~(i = c /\ m = n) => (FlagOf(mutability, i, m)' <=> FlagOf(mutability, i, m))
  BY <1>3, <1>4, <1>6, <1>7
<1>9. \A i \in 1..Current, m \in Name : ~(i = c /\ m = n) => (FlagOf(references, i, m)' <=> FlagOf(references, i, m))
  BY <1>3, <1>4, <1>6, <1>7
<1>10. \A i \in 1..Current, m \in Name : ~(i = c /\ m = n) => (FlagOf(exclusives, i, m)' <=> FlagOf(exclusives, i, m))
  BY <1>3, <1>4, <1>6, <1>7
<1> SUFFICES ASSUME NEW i \in 1..Current, NEW m \in Name, ~(i = c /\ m = n), NEW v
             PROVE  Entry(i, m, v)' = Entry(i, m, v)
  OBVIOUS
<1>11. /\ FlagOf(mutability, i, m)' = FlagOf(mutability, i, m)
       /\ FlagOf(references, i, m)' = FlagOf(references, i, m)
       /\ FlagOf(exclusives, i, m)' = FlagOf(exclusives, i, m)
  BY <1>8, <1>9, <1>10, FlagIsBoolean, SameBoolean
<1> QED
  BY <1>11 DEF Entry

LEMMA EntrySame ==
  ASSUME UNCHANGED <<bindings, mutability, references, exclusives>>
  PROVE  \A i, m, v : Entry(i, m, v)' = Entry(i, m, v)
BY DEF Entry, FlagOf

\* A name that is to be defined by the loop under way.
Coming(i, n) == work.kind = "define" /\ i = Current /\ work.todo[n] # None

\* What is seen of a cell, before and after a step.
LEMMA SeenCases ==
  ASSUME NEW i, NEW n
  PROVE  /\ Coming(i, n) => Seen(i, n) = work.todo[n]
         /\ ~Coming(i, n) /\ scopes[i][n] = None => Seen(i, n) = None
         /\ ~Coming(i, n) /\ scopes[i][n] # None /\ Pending(i, n) => Seen(i, n) = Entry(i, n, work.todo[n].value)
         /\ ~Coming(i, n) /\ scopes[i][n] # None /\ ~Pending(i, n) => Seen(i, n) = Entry(i, n, Get(arena, scopes[i][n]))
BY DEF Seen, Coming, ValueAt

LEMMA SeenNext ==
  ASSUME NEW i, NEW n
  PROVE  /\ Coming(i, n)' => Seen(i, n)' = work'.todo[n]
         /\ ~Coming(i, n)' /\ scopes'[i][n] = None => Seen(i, n)' = None
         /\ \A v : ~Coming(i, n)' /\ scopes'[i][n] # None /\ Pending(i, n)' /\ v = work'.todo[n].value
                     => Seen(i, n)' = Entry(i, n, v)'
         /\ \A v : ~Coming(i, n)' /\ scopes'[i][n] # None /\ ~Pending(i, n)' /\ v = Get(arena', scopes'[i][n])
                     => Seen(i, n)' = Entry(i, n, v)'
BY DEF Seen, Coming, ValueAt, Entry

\* A cell that is seen holds a binding.
LEMMA SeenEntries ==
  ASSUME IInv, NEW i \in 1..Current, NEW n \in Name
  PROVE  /\ Coming(i, n) => Seen(i, n) \in Bindings /\ Seen(i, n) # None /\ scopes[i][n] = None
         /\ scopes[i][n] # None => Seen(i, n) \in Entries /\ Seen(i, n) # None
         /\ Seen(i, n) # None => Coming(i, n) \/ scopes[i][n] # None
<1>1. Shape /\ CellsOK /\ WorkOK /\ work \in Work
  BY DEF IInv, Shape
<1>2. ASSUME Coming(i, n) PROVE work.todo[n] \in Bindings /\ scopes[i][n] = None
  <2>1. work.kind = "define" /\ work.todo[n] # None /\ i = Current
    BY <1>2 DEF Coming
  <2>2. work.todo[n] \in Plain
    BY <1>1, <2>1, WorkKinds
  <2> QED
    BY <1>1, <2>1, <2>2 DEF Plain, WorkOK
<1>3. Coming(i, n) => Seen(i, n) \in Bindings /\ Seen(i, n) # None /\ scopes[i][n] = None
  BY <1>2, BindingFacts, SeenCases
<1>4. ASSUME scopes[i][n] # None PROVE Seen(i, n) \in Entries /\ Seen(i, n) # None
  <2>1. ~Coming(i, n)
    BY <1>2, <1>4
  <2>2. \A v \in Val : Entry(i, n, v) \in Entries
    BY FlagIsBoolean DEF Entry, Entries
  <2>3. CASE Pending(i, n)
    <3>1. work.kind = "assign" /\ work.todo[n] # None
      BY <2>3 DEF Pending
    <3>2. work.todo[n] \in Write
      BY <1>1, <3>1, WorkKinds
    <3>3. work.todo[n].value \in Val
      BY <3>2 DEF Write
    <3> QED
      BY <1>4, <2>1, <2>2, <2>3, <3>3, SeenCases, DataAssumption
  <2>4. CASE ~Pending(i, n)
    <3>1. Resolves(arena, scopes[i][n]) /\ ArenaOK(arena)
      BY <1>1, <1>4, CellFacts DEF Shape
    <3> DEFINE s == arena.slots[scopes[i][n].index]
    <3>2. s \in Slot /\ s.value # None
      BY <3>1 DEF Resolves, ArenaOK
    <3>3. s.value \in Val
      BY <3>2 DEF Slot
    <3>4. Get(arena, scopes[i][n]) \in Val
      BY <3>3 DEF Get
    <3> QED
      BY <1>4, <2>1, <2>2, <2>4, <3>4, SeenCases, DataAssumption
  <2> QED
    BY <2>3, <2>4
<1> QED
  BY <1>3, <1>4, SeenCases

\* Between statements, the cell in which a name is visible.
LEMMA InnermostIs ==
  ASSUME IInv, work = Idle, NEW n \in Name
  PROVE  /\ \A i \in 1..Current : Maps!Innermost(i, n) <=> bindings[n] # <<>> /\ i = End(bindings[n])
         /\ \A i \in 1..Current : ~Coming(i, n) /\ ~Pending(i, n)
<1>1. work.kind = "none"
  BY NoWork
<1>2. \A i \in 1..Current : ~Coming(i, n) /\ ~Pending(i, n)
  BY <1>1 DEF Coming, Pending
<1>3. \A i \in 1..Current : Seen(i, n) # None <=> scopes[i][n] # None
  BY <1>2, SeenEntries
<1>4. /\ Len(Stack) = Current /\ \A i \in 1..Current : Stack[i][n] = Seen(i, n)
      /\ Current \in Nat
  BY StackFacts
<1>5. ASSUME NEW i \in 1..Current
      PROVE  Maps!Innermost(i, n) <=> /\ scopes[i][n] # None
                                      /\ \A j \in (i + 1)..Current : scopes[j][n] = None
  <2>1. \A j \in (i + 1)..Current : j \in 1..Current
    BY <1>4
  <2> QED
    BY <1>3, <1>4, <2>1 DEF Maps!Innermost
<1>6. /\ bindings[n] # <<>> => /\ End(bindings[n]) \in 1..Current /\ scopes[End(bindings[n])][n] # None
                               /\ \A i \in 1..Current : scopes[i][n] # None => i <= End(bindings[n])
      /\ bindings[n] = <<>> => \A i \in 1..Current : scopes[i][n] = None
  BY <1>1, Visible
<1> HIDE DEF Current
<1>7. ASSUME NEW i \in 1..Current
      PROVE  Maps!Innermost(i, n) <=> bindings[n] # <<>> /\ i = End(bindings[n])
  <2>1. CASE bindings[n] = <<>>
    BY <1>5, <1>6, <2>1
  <2>2. CASE bindings[n] # <<>>
    <3> DEFINE c == End(bindings[n])
    <3>1. c \in 1..Current /\ scopes[c][n] # None /\ \A j \in 1..Current : scopes[j][n] # None => j <= c
      BY <1>6, <2>2
    <3> HIDE DEF c
    <3>2. i < c => c \in (i + 1)..Current
      BY <1>4, <3>1
    <3>3. i = c => \A j \in (i + 1)..Current : scopes[j][n] = None
      BY <1>4, <3>1
    <3>4. Maps!Innermost(i, n) <=> i = c
      BY <1>4, <1>5, <3>1, <3>2, <3>3
    <3> QED
      BY <2>2, <3>4 DEF c
  <2> QED
    BY <2>1, <2>2
<1> QED
  BY <1>2, <1>7

-----------------------------------------------------------------------------
(* The actions are steps of the maps, or none.                               *)

\* A definition outside of a loop.
LEMMA DefineMaps ==
  ASSUME IInv, NEW n \in Name, NEW b \in Bindings, DefineValue(n, b), scopes[Current][n] = None,
         work = Idle, work' = work, released' = released
  PROVE  Maps!Next
<1>1. work.kind = "none" /\ work'.kind = "none"
  BY NoWork
<1>2. /\ Current' = Current /\ scopes'[Current][n] # None /\ Get(arena', scopes'[Current][n]) = b.value
      /\ Entry(Current, n, b.value)' = b
      /\ \A i \in 1..Current, m \in Name : ~(i = Current /\ m = n) =>
           /\ scopes'[i][m] = scopes[i][m]
           /\ scopes[i][m] # None => Get(arena', scopes[i][m]) = Get(arena, scopes[i][m])
           /\ \A v : Entry(i, m, v)' = Entry(i, m, v)
  BY <1>1, EntryDefined
<1>3. /\ \A i, m : ~Coming(i, m) /\ ~Pending(i, m)
      /\ \A i, m : ~Coming(i, m)' /\ ~Pending(i, m)'
  BY <1>1 DEF Coming, Pending
<1>4. Seen(Current, n)' = b
  BY <1>2, <1>3, SeenNext
<1>5. ASSUME NEW i \in 1..Current, NEW m \in Name, ~(i = Current /\ m = n)
      PROVE  Seen(i, m)' = Seen(i, m)
  <2>1. /\ scopes'[i][m] = scopes[i][m]
        /\ scopes[i][m] # None => Get(arena', scopes[i][m]) = Get(arena, scopes[i][m])
        /\ \A v : Entry(i, m, v)' = Entry(i, m, v)
    BY <1>2, <1>5
  <2>2. CASE scopes[i][m] = None
    BY <1>3, <2>1, <2>2, SeenCases, SeenNext
  <2>3. CASE scopes[i][m] # None
    <3>1. Seen(i, m) = Entry(i, m, Get(arena, scopes[i][m]))
      BY <1>3, <2>3, SeenCases
    <3> DEFINE v == Get(arena, scopes[i][m])
    <3>2. v = Get(arena', scopes'[i][m])
      BY <2>1, <2>3
    <3>3. PICK x : x = v
      OBVIOUS
    <3>4. Seen(i, m)' = Entry(i, m, x)'
      BY <1>3, <2>1, <2>3, <3>2, <3>3, SeenNext
    <3>5. Entry(i, m, x)' = Entry(i, m, x)
      BY <2>1
    <3> QED
      BY <3>1, <3>3, <3>4, <3>5
  <2> QED
    BY <2>2, <2>3
<1> DEFINE new == [m \in Name |-> IF m = n THEN b ELSE None]
<1>6. b \in Entries /\ b # None
  BY BindingFacts
<1>7. new \in [Name -> Cells]
  BY <1>6 DEF Cells, Entries, Maps!Binding
<1>8. \A m \in Name : new[m] = IF m = n THEN b ELSE None
  OBVIOUS
<1> HIDE DEF new
<1>9. Seen(Current, n) = None
  BY <1>3, SeenCases
<1>10. \A i \in 1..Current, m \in Name :
         Seen(i, m)' = IF i = Current /\ new[m] # None THEN new[m] ELSE Seen(i, m)
  <2> SUFFICES ASSUME NEW i \in 1..Current, NEW m \in Name
               PROVE  Seen(i, m)' = IF i = Current /\ new[m] # None THEN new[m] ELSE Seen(i, m)
    OBVIOUS
  <2>1. CASE i = Current /\ m = n
    BY <1>2, <1>4, <1>6, <1>8, <2>1
  <2>2. CASE ~(i = Current /\ m = n)
    BY <1>5, <1>8, <2>2
  <2> QED
    BY <2>1, <2>2
<1> QED
  BY <1>2, <1>7, <1>8, <1>9, <1>10, DefinesStack

LEMMA DeclareMaps ==
  ASSUME IInv, NEW n \in Name, NEW t \in Type, NEW b \in Bindings, Declare(n, t, b)
  PROVE  Maps!Next \/ Stack' = Stack
<1>1. work = Idle /\ work' = work /\ released' = released
  BY DEF Declare, Statement
<1>2. CASE scopes[Current][n] = None
  <2>1. DefineValue(n, b)
    BY <1>2 DEF Declare
  <2> QED
    BY <1>1, <1>2, <2>1, DefineMaps
<1>3. CASE scopes[Current][n] # None
  <2>1. UNCHANGED storage
    BY <1>3 DEF Declare
  <2> QED
    BY <1>1, <2>1 DEF storage, Stack, FlagOf, Pending, Current
<1> QED
  BY <1>2, <1>3

LEMMA DeclareLoopMaps ==
  ASSUME IInv, NEW n \in Name, NEW b \in Plain, DeclareLoop(n, b)
  PROVE  Maps!Next
<1>1. /\ work = Idle /\ work' = work /\ released' = released /\ DefineValue(n, b)
      /\ scopes[Current] = Unbound
  BY DEF DeclareLoop, Statement
<1>2. scopes[Current][n] = None /\ b \in Bindings
  BY <1>1 DEF Unbound, Plain
<1> QED
  BY <1>1, <1>2, DefineMaps

LEMMA BindItemMaps ==
  ASSUME IInv, NEW n \in Name, NEW v \in Val, BindItem(n, v)
  PROVE  Maps!Next
<1>1. /\ work = Idle /\ work' = work /\ released' = released /\ DefineValue(n, Binding(v, FALSE, FALSE))
      /\ scopes[Current][n] = None
  BY DEF BindItem
<1> QED
  BY <1>1, BindingIn, DefineMaps

\* The names of a loop are there when it begins.
LEMMA DeclareManyMaps ==
  ASSUME IInv, NEW new \in [Name -> Plain \cup {None}], DeclareMany(new)
  PROVE  Maps!Next
<1>1. /\ work = Idle /\ work' = [kind |-> "define", todo |-> new]
      /\ \A n \in Name : new[n] # None => scopes[Current][n] = None
      /\ arena' = arena /\ scopes' = scopes /\ UNCHANGED <<bindings, mutability, references, exclusives>>
      /\ Current' = Current
  BY DEF DeclareMany, Statement, storage, Current
<1>2. work.kind = "none" /\ work'.kind = "define" /\ work'.todo = new
  BY <1>1, NoWork
<1>3. /\ \A i, m : ~Coming(i, m) /\ ~Pending(i, m)
      /\ \A i, m : ~Pending(i, m)'
      /\ \A i, m : Coming(i, m)' <=> i = Current /\ new[m] # None
  BY <1>1, <1>2 DEF Coming, Pending
<1>4. \A i \in 1..Current, n \in Name :
        Seen(i, n)' = IF i = Current /\ new[n] # None THEN new[n] ELSE Seen(i, n)
  <2> SUFFICES ASSUME NEW i \in 1..Current, NEW n \in Name
               PROVE  Seen(i, n)' = IF i = Current /\ new[n] # None THEN new[n] ELSE Seen(i, n)
    OBVIOUS
  <2>1. CASE i = Current /\ new[n] # None
    BY <1>2, <1>3, <2>1, SeenNext
  <2>2. CASE ~(i = Current /\ new[n] # None)
    <3>1. CASE scopes[i][n] = None
      BY <1>1, <1>3, <2>2, <3>1, SeenCases, SeenNext
    <3>2. CASE scopes[i][n] # None
      <4>1. Seen(i, n) = Entry(i, n, Get(arena, scopes[i][n]))
        BY <1>3, <3>2, SeenCases
      <4>2. PICK x : x = Get(arena, scopes[i][n])
        OBVIOUS
      <4>3. Seen(i, n)' = Entry(i, n, x)'
        BY <1>1, <1>3, <2>2, <3>2, <4>2, SeenNext
      <4> QED
        BY <1>1, <2>2, <4>1, <4>2, <4>3, EntrySame
    <3> QED
      BY <3>1, <3>2
  <2> QED
    BY <2>1, <2>2
<1>5. new \in [Name -> Cells]
  <2>1. \A b \in Plain : b \in Cells
    BY BindingFacts DEF Plain, Cells, Entries, Maps!Binding
  <2> QED
    BY <2>1 DEF Cells
<1>6. \A n \in Name : new[n] # None => Seen(Current, n) = None
  BY <1>1, <1>3, SeenCases
<1> QED
  BY <1>1, <1>4, <1>5, <1>6, DefinesStack

LEMMA DeclareNextMaps ==
  ASSUME IInv, NEW n \in Name, DeclareNext(n)
  PROVE  Stack' = Stack
<1>1. /\ work.kind = "define" /\ work.todo[n] # None /\ DefineValue(n, work.todo[n])
      /\ work' = [work EXCEPT !.todo[n] = None] /\ released' = released
  BY DEF DeclareNext
<1>2. work \in Work
  BY DEF IInv, Shape
<1>3. /\ work'.kind = "define"
      /\ \A m \in Name : work'.todo[m] = IF m = n THEN None ELSE work.todo[m]
  BY <1>1, <1>2, TodoNext
<1>4. Current \in 1..Current
  BY StackFacts
<1>5. Coming(Current, n)
  BY <1>1 DEF Coming
<1>6. Seen(Current, n) = work.todo[n] /\ work.todo[n] \in Bindings /\ scopes[Current][n] = None
  BY <1>4, <1>5, SeenEntries, SeenCases
<1>7. PICK b \in Bindings : b = work.todo[n]
  BY <1>6
<1>8. /\ Current' = Current /\ scopes'[Current][n] # None /\ Get(arena', scopes'[Current][n]) = b.value
      /\ Entry(Current, n, b.value)' = b
      /\ \A i \in 1..Current, m \in Name : ~(i = Current /\ m = n) =>
           /\ scopes'[i][m] = scopes[i][m]
           /\ scopes[i][m] # None => Get(arena', scopes[i][m]) = Get(arena, scopes[i][m])
           /\ \A v : Entry(i, m, v)' = Entry(i, m, v)
  BY <1>1, <1>3, <1>6, <1>7, EntryDefined
<1>9. /\ \A i, m : ~Pending(i, m)
      /\ \A i, m : ~Pending(i, m)'
  BY <1>1, <1>3 DEF Pending
<1>10. \A i \in 1..Current, m \in Name : Coming(i, m)' <=> Coming(i, m) /\ m # n
  BY <1>1, <1>3, <1>8 DEF Coming
<1>11. Seen(Current, n)' = b
  <2>1. ~Coming(Current, n)'
    BY <1>4, <1>8, <1>10
  <2> QED
    BY <1>8, <1>9, <2>1, SeenNext
<1>12. ASSUME NEW i \in 1..Current, NEW m \in Name, ~(i = Current /\ m = n)
       PROVE  Seen(i, m)' = Seen(i, m)
  <2>1. /\ scopes'[i][m] = scopes[i][m]
        /\ scopes[i][m] # None => Get(arena', scopes[i][m]) = Get(arena, scopes[i][m])
        /\ \A v : Entry(i, m, v)' = Entry(i, m, v)
    BY <1>8, <1>12
  <2>2. Coming(i, m)' <=> Coming(i, m)
    BY <1>10, <1>12 DEF Coming
  <2>3. CASE Coming(i, m)
    <3>1. m # n
      BY <1>12, <2>3 DEF Coming
    <3> QED
      BY <1>3, <2>2, <2>3, <3>1, SeenCases, SeenNext
  <2>4. CASE ~Coming(i, m) /\ scopes[i][m] = None
    BY <2>1, <2>2, <2>4, SeenCases, SeenNext
  <2>5. CASE ~Coming(i, m) /\ scopes[i][m] # None
    <3>1. Seen(i, m) = Entry(i, m, Get(arena, scopes[i][m]))
      BY <1>9, <2>5, SeenCases
    <3>2. PICK x : x = Get(arena, scopes[i][m])
      OBVIOUS
    <3>3. Seen(i, m)' = Entry(i, m, x)'
      BY <1>9, <2>1, <2>2, <2>5, <3>2, SeenNext
    <3> QED
      BY <2>1, <3>1, <3>2, <3>3
  <2> QED
    BY <2>3, <2>4, <2>5
<1> QED
  BY <1>6, <1>7, <1>8, <1>11, <1>12, SameStack

\* Visible bindings are written, outside of a loop.
LEMMA WriteMaps ==
  ASSUME IInv, work = Idle, NEW n \in Name, NEW v \in Val, NEW c \in 1..Current,
         bindings[n] # <<>>, c = End(bindings[n]), IsMutable(n) \/ c = Current,
         arena' = Put(arena, scopes[c][n], v),
         UNCHANGED <<scopes, bindings, mutability, references, exclusives, work>>
  PROVE  Maps!Next
<1>1. work.kind = "none" /\ work'.kind = "none" /\ Current' = Current
  BY NoWork DEF Current
<1>2. /\ \A i, m : ~Coming(i, m) /\ ~Pending(i, m)
      /\ \A i, m : ~Coming(i, m)' /\ ~Pending(i, m)'
  BY <1>1 DEF Coming, Pending
<1>3. scopes[c][n] # None
  BY <1>1, Visible
<1>4. \A i \in 1..Current, m \in Name : scopes[i][m] # None =>
        Get(arena', scopes[i][m]) = IF i = c /\ m = n THEN v ELSE Get(arena, scopes[i][m])
  BY <1>3, PutCells
<1>5. ASSUME NEW i \in 1..Current, NEW m \in Name
      PROVE  Seen(i, m)' = IF i = c /\ m = n THEN [Seen(i, m) EXCEPT !.value = v] ELSE Seen(i, m)
  <2>1. CASE scopes[i][m] = None
    BY <1>2, <1>3, <2>1, SeenCases, SeenNext
  <2>2. CASE scopes[i][m] # None
    <3>1. Seen(i, m) = Entry(i, m, Get(arena, scopes[i][m]))
      BY <1>2, <2>2, SeenCases
    <3>2. PICK x : x = Get(arena', scopes'[i][m])
      OBVIOUS
    <3>3. Seen(i, m)' = Entry(i, m, x)'
      BY <1>2, <2>2, <3>2, SeenNext
    <3>4. Seen(i, m)' = Entry(i, m, x)
      BY <3>3, EntrySame
    <3>5. x = IF i = c /\ m = n THEN v ELSE Get(arena, scopes[i][m])
      BY <1>4, <2>2, <3>2
    <3>6. [Seen(i, m) EXCEPT !.value = v] = Entry(i, m, v)
      BY <3>1 DEF Entry
    <3> QED
      BY <3>1, <3>4, <3>5, <3>6
  <2> QED
    BY <2>1, <2>2
<1> DEFINE values == [m \in Name |-> IF m = n THEN v ELSE None]
<1>6. v # None
  BY DataAssumption
<1>7. values \in [Name -> Val \cup {None}] /\ \A m \in Name : values[m] # None <=> m = n
  BY <1>6
<1>8. values[n] = v
  OBVIOUS
<1> HIDE DEF values
<1>9. \A i \in 1..Current : Maps!Innermost(i, n) <=> i = c
  BY InnermostIs
<1>10. Seen(c, n).mutable \/ c = Current
  <2>1. CASE c = Current
    BY <2>1
  <2>2. CASE IsMutable(n)
    <3>1. Seen(c, n).mutable = FlagOf(mutability, c, n)
      BY <1>2, <1>3, SeenCases DEF Entry
    <3>2. Enumerates(bindings[n], Binders(n)) /\ mutability[n] \in Seq(BOOLEAN) /\ Len(mutability[n]) = Len(bindings[n])
      BY DEF IInv, Shape, BindingsOK
    <3>3. Flag(bindings[n], mutability[n], c)
      BY <2>2, <3>2, FlagEnd DEF IsMutable
    <3> QED
      BY <3>1, <3>3 DEF FlagOf, Flag
  <2> QED
    BY <2>1, <2>2
<1>11. \A m \in Name : values[m] # None =>
         \E i \in 1..Current : /\ Maps!Innermost(i, m)
                               /\ Seen(i, m).mutable \/ i = Current
  BY <1>7, <1>9, <1>10
<1>12. \A i \in 1..Current, m \in Name :
         Seen(i, m)' = IF values[m] # None /\ Maps!Innermost(i, m)
                       THEN [Seen(i, m) EXCEPT !.value = values[m]] ELSE Seen(i, m)
  <2> SUFFICES ASSUME NEW i \in 1..Current, NEW m \in Name
               PROVE  Seen(i, m)' = IF values[m] # None /\ Maps!Innermost(i, m)
                                    THEN [Seen(i, m) EXCEPT !.value = values[m]] ELSE Seen(i, m)
    OBVIOUS
  <2>1. values[m] # None /\ Maps!Innermost(i, m) <=> i = c /\ m = n
    BY <1>7, <1>9
  <2> QED
    BY <1>5, <1>8, <2>1
<1> QED
  BY <1>1, <1>7, <1>11, <1>12, AssignsStack

LEMMA ReassignMaps ==
  ASSUME IInv, NEW n \in Name, NEW v \in Val, Reassign(n, v)
  PROVE  Maps!Next
<1>1. /\ work = Idle /\ Contains(n) /\ IsMutable(n) /\ arena' = Put(arena, scopes[ScopeOf(n)][n], v)
      /\ UNCHANGED <<scopes, bindings, mutability, references, exclusives, work>>
  BY DEF Reassign, Statement
<1>2. work.kind # "drain"
  BY <1>1, NoWork
<1>3. bindings[n] # <<>> /\ ScopeOf(n) = End(bindings[n]) /\ End(bindings[n]) \in 1..Current
  BY <1>1, <1>2, Visible DEF Contains
<1> QED
  BY <1>1, <1>3, WriteMaps

LEMMA RebindMaps ==
  ASSUME IInv, NEW n \in Name, NEW v \in Val, Rebind(n, v)
  PROVE  Maps!Next
<1>1. /\ work = Idle /\ scopes[Current][n] # None /\ arena' = Put(arena, scopes[Current][n], v)
      /\ UNCHANGED <<scopes, bindings, mutability, references, exclusives, work>>
  BY DEF Rebind, Statement
<1>2. work.kind # "drain"
  BY <1>1, NoWork
<1>3. Current \in 1..Current /\ Current \in Nat
  BY StackFacts
<1>4. bindings[n] # <<>>
  BY <1>1, <1>2, <1>3, Visible
<1>5. End(bindings[n]) \in 1..Current /\ Current <= End(bindings[n])
  BY <1>1, <1>2, <1>3, <1>4, Visible
<1>6. End(bindings[n]) = Current
  BY <1>3, <1>5
<1> QED
  BY <1>1, <1>3, <1>4, <1>6, WriteMaps

\* The values of a loop are there when it begins.
LEMMA ReassignManyMaps ==
  ASSUME IInv, NEW values \in [Name -> Val \cup {None}], ReassignMany(values)
  PROVE  Maps!Next
<1> DEFINE todo == [n \in Name |-> IF values[n] = None THEN None
                                   ELSE [scope |-> End(bindings[n]), value |-> values[n]]]
<1>1. /\ work = Idle /\ work' = [kind |-> "assign", todo |-> todo]
      /\ \A n \in Name : values[n] # None => bindings[n] # <<>> /\ IsMutable(n)
      /\ arena' = arena /\ scopes' = scopes /\ UNCHANGED <<bindings, mutability, references, exclusives>>
      /\ Current' = Current
  BY DEF ReassignMany, Statement, storage, Current
<1>2. work.kind = "none" /\ work'.kind = "assign" /\ work'.todo = todo
  BY <1>1, NoWork
<1>3. Current \in Nat /\ \A i \in 1..Current : i \in Index
  BY StackFacts
<1>4. ASSUME NEW n \in Name, values[n] # None
      PROVE  /\ End(bindings[n]) \in 1..Current /\ scopes[End(bindings[n])][n] # None
             /\ todo[n] = [scope |-> End(bindings[n]), value |-> values[n]]
             /\ todo[n].scope = End(bindings[n]) /\ todo[n].value = values[n]
             /\ todo[n] # None
  <2>1. End(bindings[n]) \in 1..Current /\ scopes[End(bindings[n])][n] # None
    BY <1>1, <1>2, <1>4, Visible
  <2>2. todo[n] = [scope |-> End(bindings[n]), value |-> values[n]]
    BY <1>4
  <2> HIDE DEF todo
  <2>3. todo[n] \in Write
    <3>1. End(bindings[n]) \in Nat \ {0} /\ values[n] \in Val
      BY <1>3, <1>4, <2>1 DEF Index
    <3> QED
      BY <2>2, <3>1 DEF Write
  <2> QED
    BY <2>1, <2>2, <2>3, DataAssumption
<1>5. \A n \in Name : values[n] = None => todo[n] = None
  OBVIOUS
<1> HIDE DEF todo
<1>6. /\ \A i, m : ~Coming(i, m) /\ ~Pending(i, m)
      /\ \A i, m : ~Coming(i, m)'
  BY <1>2 DEF Coming, Pending
<1>7. \A i \in 1..Current, m \in Name :
        Pending(i, m)' <=> values[m] # None /\ Maps!Innermost(i, m)
  <2> SUFFICES ASSUME NEW i \in 1..Current, NEW m \in Name
               PROVE  Pending(i, m)' <=> values[m] # None /\ Maps!Innermost(i, m)
    OBVIOUS
  <2>1. Maps!Innermost(i, m) <=> bindings[m] # <<>> /\ i = End(bindings[m])
    BY <1>1, InnermostIs
  <2>2. Pending(i, m)' <=> todo[m] # None /\ todo[m].scope = i
    BY <1>2 DEF Pending
  <2> QED
    BY <1>1, <1>4, <1>5, <2>1, <2>2
<1>8. ASSUME NEW i \in 1..Current, NEW m \in Name
      PROVE  Seen(i, m)' = IF values[m] # None /\ Maps!Innermost(i, m)
                           THEN [Seen(i, m) EXCEPT !.value = values[m]] ELSE Seen(i, m)
  <2>1. CASE scopes[i][m] = None
    <3>1. ~(values[m] # None /\ Maps!Innermost(i, m))
      BY <1>1, <1>4, <2>1, InnermostIs
    <3> QED
      BY <1>1, <1>6, <2>1, <3>1, SeenCases, SeenNext
  <2>2. CASE scopes[i][m] # None
    <3>1. Seen(i, m) = Entry(i, m, Get(arena, scopes[i][m]))
      BY <1>6, <2>2, SeenCases
    <3>2. CASE values[m] # None /\ Maps!Innermost(i, m)
      <4>1. PICK x : x = values[m]
        OBVIOUS
      <4>2. x = work'.todo[m].value
        BY <1>2, <1>4, <3>2, <4>1
      <4>3. Seen(i, m)' = Entry(i, m, x)'
        BY <1>1, <1>6, <1>7, <2>2, <3>2, <4>2, SeenNext
      <4>4. Seen(i, m)' = Entry(i, m, x)
        BY <1>1, <4>3, EntrySame
      <4>5. [Seen(i, m) EXCEPT !.value = values[m]] = Entry(i, m, x)
        BY <3>1, <4>1 DEF Entry
      <4> QED
        BY <3>2, <4>4, <4>5
    <3>3. CASE ~(values[m] # None /\ Maps!Innermost(i, m))
      <4>1. PICK x : x = Get(arena, scopes[i][m])
        OBVIOUS
      <4>2. Seen(i, m)' = Entry(i, m, x)'
        BY <1>1, <1>6, <1>7, <2>2, <3>3, <4>1, SeenNext
      <4> QED
        BY <1>1, <3>1, <3>3, <4>1, <4>2, EntrySame
    <3> QED
      BY <3>2, <3>3
  <2> QED
    BY <2>1, <2>2
<1>9. ASSUME NEW m \in Name, values[m] # None
      PROVE  \E i \in 1..Current : /\ Maps!Innermost(i, m)
                                   /\ Seen(i, m).mutable \/ i = Current
  <2> DEFINE c == End(bindings[m])
  <2>1. c \in 1..Current /\ scopes[c][m] # None /\ bindings[m] # <<>> /\ IsMutable(m)
    BY <1>1, <1>4, <1>9
  <2>2. Maps!Innermost(c, m)
    BY <1>1, <2>1, InnermostIs
  <2>3. Seen(c, m).mutable = FlagOf(mutability, c, m)
    BY <1>6, <2>1, SeenCases DEF Entry
  <2>4. Enumerates(bindings[m], Binders(m)) /\ mutability[m] \in Seq(BOOLEAN) /\ Len(mutability[m]) = Len(bindings[m])
    BY DEF IInv, Shape, BindingsOK
  <2>5. Flag(bindings[m], mutability[m], c)
    BY <2>1, <2>4, FlagEnd DEF IsMutable
  <2>6. Seen(c, m).mutable
    BY <2>3, <2>5 DEF FlagOf, Flag
  <2> QED
    BY <2>1, <2>2, <2>6
<1> QED
  BY <1>1, <1>8, <1>9, AssignsStack

LEMMA ReassignNextMaps ==
  ASSUME IInv, NEW n \in Name, ReassignNext(n)
  PROVE  Stack' = Stack
<1> DEFINE w == work.todo[n]
<1>1. /\ work.kind = "assign" /\ w # None /\ arena' = Put(arena, scopes[w.scope][n], w.value)
      /\ work' = [work EXCEPT !.todo[n] = None]
      /\ scopes' = scopes /\ UNCHANGED <<bindings, mutability, references, exclusives>>
      /\ Current' = Current
  BY DEF ReassignNext, Current
<1>2. WorkOK /\ work \in Work
  BY DEF IInv, Shape
<1>3. /\ work'.kind = "assign"
      /\ \A m \in Name : work'.todo[m] = IF m = n THEN None ELSE work.todo[m]
  BY <1>1, <1>2, TodoNext
<1>4. w \in Write
  BY <1>1, <1>2, WorkKinds
<1>5. w.value \in Val /\ w.scope \in 1..Current /\ bindings[n] # <<>> /\ End(bindings[n]) = w.scope
  BY <1>1, <1>2, <1>4 DEF Write, WorkOK
<1>6. PICK c \in 1..Current, v \in Val : c = w.scope /\ v = w.value
  BY <1>5
<1>7. scopes[c][n] # None
  BY <1>1, <1>5, <1>6, Visible
<1>8. \A i \in 1..Current, m \in Name : scopes[i][m] # None =>
        Get(arena', scopes[i][m]) = IF i = c /\ m = n THEN v ELSE Get(arena, scopes[i][m])
  BY <1>1, <1>6, <1>7, PutCells
<1>9. /\ \A i, m : ~Coming(i, m)
      /\ \A i, m : ~Coming(i, m)'
      /\ \A i, m : Pending(i, m) <=> work.todo[m] # None /\ work.todo[m].scope = i
      /\ \A i, m : Pending(i, m)' <=> work'.todo[m] # None /\ work'.todo[m].scope = i
  BY <1>1, <1>3 DEF Coming, Pending
<1>10. ASSUME NEW i \in 1..Current, NEW m \in Name
       PROVE  Seen(i, m)' = Seen(i, m)
  <2>1. CASE scopes[i][m] = None
    BY <1>1, <1>9, <2>1, SeenCases, SeenNext
  <2>2. CASE scopes[i][m] # None /\ m # n
    <3>1. work'.todo[m] = work.todo[m] /\ (Pending(i, m)' <=> Pending(i, m))
      BY <1>3, <1>9, <2>2
    <3>2. PICK x : x = IF Pending(i, m) THEN work.todo[m].value ELSE Get(arena, scopes[i][m])
      OBVIOUS
    <3>3. Seen(i, m) = Entry(i, m, x)
      BY <1>9, <2>2, <3>2, SeenCases
    <3>4. Get(arena', scopes'[i][m]) = Get(arena, scopes[i][m])
      BY <1>1, <1>8, <2>2
    <3>5. Seen(i, m)' = Entry(i, m, x)'
      BY <1>1, <1>9, <2>2, <3>1, <3>2, <3>4, SeenNext
    <3> QED
      BY <1>1, <3>3, <3>5, EntrySame
  <2>3. CASE scopes[i][m] # None /\ m = n
    <3>1. ~Pending(i, m)' /\ (Pending(i, m) <=> i = c)
      BY <1>1, <1>3, <1>6, <1>9, <2>3
    <3>2. PICK x : x = IF i = c THEN v ELSE Get(arena, scopes[i][m])
      OBVIOUS
    <3>3. Seen(i, m) = Entry(i, m, x)
      BY <1>6, <1>9, <2>3, <3>1, <3>2, SeenCases
    <3>4. x = Get(arena', scopes'[i][m])
      BY <1>1, <1>8, <2>3, <3>2
    <3>5. Seen(i, m)' = Entry(i, m, x)'
      BY <1>1, <1>9, <2>3, <3>1, <3>4, SeenNext
    <3> QED
      BY <1>1, <3>3, <3>5, EntrySame
  <2> QED
    BY <2>1, <2>2, <2>3
<1> QED
  BY <1>1, <1>10, SameStack

\* A cell gives its handle up: the values of the others stay.
LEMMA ReleaseCells ==
  ASSUME IInv, NEW c \in Index, NEW x \in Name, At(c, x) # None, Release(At(c, x))
  PROVE  \A i \in 1..Current, m \in Name : scopes[i][m] # None /\ ~(i = c /\ m = x) =>
           Get(arena', scopes[i][m]) = Get(arena, scopes[i][m])
<1> DEFINE h == At(c, x)
<1>1. Shape /\ CellsOK
  BY DEF IInv
<1>2. h \in Handle /\ Resolves(arena, h) /\ arena' = Remove(arena, h)
  BY <1>1, ShapeFacts DEF CellsOK, Release
<1>3. Removed(arena, arena', h)
  BY <1>1, <1>2, RemoveFacts DEF Shape
<1> HIDE DEF h
<1>4. ASSUME NEW i \in 1..Current, NEW m \in Name, scopes[i][m] # None, ~(i = c /\ m = x)
      PROVE  Get(arena', scopes[i][m]) = Get(arena, scopes[i][m])
  <2>1. i \in Index /\ At(i, m) = scopes[i][m] /\ scopes[i][m] \in Handle /\ Resolves(arena, scopes[i][m])
    BY <1>1, <1>4, CellFacts
  <2>2. scopes[i][m].index # h.index
    BY <1>1, <1>4, <2>1 DEF CellsOK, h
  <2> QED
    BY <1>3, <2>1, <2>2 DEF Removed
<1> QED
  BY <1>4

LEMMA DropItemMaps ==
  ASSUME IInv, DropItem
  PROVE  Maps!Next
<1> DEFINE n == End(items[Current])
<1>1. /\ work = Idle /\ work' = work /\ items[Current] # <<>>
      /\ Release(scopes[Current][n]) /\ scopes' = WithCurrent(scopes, n, None) /\ Forget(n)
  BY DEF DropItem
<1>2. Shape /\ ItemsOK
  BY DEF IInv
<1>3. /\ Current \in Nat \ {0} /\ Current \in Index /\ Current \in 1..Current
      /\ \A i \in Index : i <= Current <=> i \in 1..Current
      /\ \A i \in 1..Current, m \in Name : At(i, m) = scopes[i][m]
  BY <1>2, ShapeFacts
<1>4. items[Current] \in Seq(Name)
  <2>1. items \in Seq(Seq(Name)) /\ Len(items) = Current
    BY <1>2 DEF Shape
  <2> QED
    BY <1>3, <2>1
<1>5. n \in Name /\ n = items[Current][Len(items[Current])] /\ Len(items[Current]) \in 1..Len(items[Current])
  BY <1>1, <1>4, CutFacts
<1> HIDE DEF n
<1>6. scopes[Current][n] # None
  BY <1>2, <1>3, <1>5 DEF ItemsOK
<1>7. /\ Len(scopes') = Len(scopes)
      /\ \A i \in 1..Len(scopes), m \in Name :
           scopes'[i][m] = IF i = Len(scopes) /\ m = n THEN None ELSE scopes[i][m]
  <2> DEFINE S == Handle \cup {None}
  <2>1. None \in S /\ scopes \in Seq([Name -> S]) /\ scopes # <<>>
    BY <1>2 DEF Shape
  <2> HIDE DEF S
  <2>2. WithOne(S, scopes, n, None, scopes')
    BY <1>1, <1>5, <2>1, WithCurrentFacts
  <2> QED
    BY <2>2 DEF WithOne
<1>8. /\ Current' = Current
      /\ \A i \in 1..Current, m \in Name :
           scopes'[i][m] = IF i = Current /\ m = n THEN None ELSE scopes[i][m]
  BY <1>7 DEF Current
<1>9. work.kind = "none" /\ work'.kind = "none"
  BY <1>1, NoWork
<1>10. /\ \A i, m : ~Coming(i, m) /\ ~Pending(i, m)
       /\ \A i, m : ~Coming(i, m)' /\ ~Pending(i, m)'
  BY <1>9 DEF Coming, Pending
<1>11. At(Current, n) = scopes[Current][n]
  BY <1>3, <1>5
<1>12. \A j \in Index : At(j, n) # None => j <= Current
  BY <1>3, <1>9 DEF At
<1>13. /\ \A i \in 1..Current, m \in Name : scopes[i][m] # None /\ ~(i = Current /\ m = n) =>
            Get(arena', scopes[i][m]) = Get(arena, scopes[i][m])
       /\ \A i \in 1..Current, m \in Name : ~(i = Current /\ m = n) => \A v : Entry(i, m, v)' = Entry(i, m, v)
  BY <1>1, <1>3, <1>5, <1>6, <1>11, <1>12, ReleaseCells, EntryForgot
<1>14. Seen(Current, n) # None
  BY <1>3, <1>5, <1>6, SeenEntries
<1>15. ASSUME NEW i \in 1..Current, NEW m \in Name
       PROVE  Seen(i, m)' = IF i = Current /\ m = n THEN None ELSE Seen(i, m)
  <2>1. CASE i = Current /\ m = n
    BY <1>8, <1>10, <2>1, SeenNext
  <2>2. CASE ~(i = Current /\ m = n) /\ scopes[i][m] = None
    BY <1>8, <1>10, <2>2, SeenCases, SeenNext
  <2>3. CASE ~(i = Current /\ m = n) /\ scopes[i][m] # None
    <3>1. PICK x : x = Get(arena, scopes[i][m])
      OBVIOUS
    <3>2. Seen(i, m) = Entry(i, m, x)
      BY <1>10, <2>3, <3>1, SeenCases
    <3>3. scopes'[i][m] = scopes[i][m] /\ x = Get(arena', scopes'[i][m])
      BY <1>8, <1>13, <2>3, <3>1
    <3>4. Seen(i, m)' = Entry(i, m, x)'
      BY <1>10, <2>3, <3>3, SeenNext
    <3> QED
      BY <1>13, <2>3, <3>2, <3>4
  <2> QED
    BY <2>1, <2>2, <2>3
<1> QED
  BY <1>5, <1>8, <1>14, <1>15, RemovesStack

\* The scope is gone before its bindings are released.
LEMMA DrainNextMaps ==
  ASSUME IInv, NEW n \in Name, DrainNext(n)
  PROVE  Stack' = Stack
<1>1. /\ work.kind = "drain" /\ work.todo[n] # None /\ Release(work.todo[n]) /\ Forget(n)
      /\ work' = [work EXCEPT !.todo[n] = None] /\ scopes' = scopes /\ Current' = Current
  BY DEF DrainNext, Current
<1>2. work \in Work
  BY DEF IInv, Shape
<1>3. work'.kind = "drain"
  BY <1>1, <1>2, TodoNext
<1>4. /\ \A i, m : ~Coming(i, m) /\ ~Pending(i, m)
      /\ \A i, m : ~Coming(i, m)' /\ ~Pending(i, m)'
  BY <1>1, <1>3 DEF Coming, Pending
<1> DEFINE c == Current + 1
<1>5. Current \in Nat \ {0}
  BY StackFacts
<1>6. c \in Index /\ ~(c <= Current) /\ \A i \in 1..Current : i # c
  BY <1>5 DEF Index
<1>7. At(c, n) = work.todo[n]
  BY <1>1, <1>6 DEF At
<1>8. \A j \in Index : At(j, n) # None => j <= c
  <2>1. \A j \in Index : At(j, n) # None => j <= Current \/ j = Current + 1
    BY DEF At
  <2> QED
    BY <1>5, <2>1 DEF Index
<1> HIDE DEF c
<1>9. /\ \A i \in 1..Current, m \in Name : scopes[i][m] # None =>
           Get(arena', scopes[i][m]) = Get(arena, scopes[i][m])
      /\ \A i \in 1..Current, m \in Name : \A v : Entry(i, m, v)' = Entry(i, m, v)
  BY <1>1, <1>6, <1>7, <1>8, ReleaseCells, EntryForgot
<1>10. ASSUME NEW i \in 1..Current, NEW m \in Name
       PROVE  Seen(i, m)' = Seen(i, m)
  <2>1. CASE scopes[i][m] = None
    BY <1>1, <1>4, <2>1, SeenCases, SeenNext
  <2>2. CASE scopes[i][m] # None
    <3>1. PICK x : x = Get(arena, scopes[i][m])
      OBVIOUS
    <3>2. Seen(i, m) = Entry(i, m, x)
      BY <1>4, <2>2, <3>1, SeenCases
    <3>3. x = Get(arena', scopes'[i][m])
      BY <1>1, <1>9, <2>2, <3>1
    <3>4. Seen(i, m)' = Entry(i, m, x)'
      BY <1>1, <1>4, <2>2, <3>3, SeenNext
    <3> QED
      BY <1>9, <3>2, <3>4
  <2> QED
    BY <2>1, <2>2
<1> QED
  BY <1>1, <1>10, SameStack

LEMMA FinishMaps ==
  ASSUME Finish
  PROVE  Stack' = Stack
<1>1. work.todo = Unbound /\ work' = Idle /\ UNCHANGED storage /\ Current' = Current
  BY DEF Finish, storage, Current
<1>2. \A m \in Name : work.todo[m] = None /\ work'.todo[m] = None
  BY <1>1 DEF Unbound, Idle
<1>3. /\ \A i, m : m \in Name => ~Coming(i, m) /\ ~Pending(i, m)
      /\ \A i, m : m \in Name => ~Coming(i, m)' /\ ~Pending(i, m)'
  BY <1>2 DEF Coming, Pending
<1>4. ASSUME NEW i \in 1..Current, NEW m \in Name
      PROVE  Seen(i, m)' = Seen(i, m)
  <2>1. CASE scopes[i][m] = None
    BY <1>1, <1>3, <2>1, SeenCases, SeenNext DEF storage
  <2>2. CASE scopes[i][m] # None
    <3>1. PICK x : x = Get(arena, scopes[i][m])
      OBVIOUS
    <3>2. Seen(i, m) = Entry(i, m, x)
      BY <1>3, <2>2, <3>1, SeenCases
    <3>3. Seen(i, m)' = Entry(i, m, x)'
      BY <1>1, <1>3, <2>2, <3>1, SeenNext DEF storage
    <3> QED
      BY <1>1, <3>2, <3>3, EntrySame DEF storage
  <2> QED
    BY <2>1, <2>2
<1> QED
  BY <1>1, <1>4, SameStack

\* A sequence is the function of its places.
LEMMA SequenceIsFunction ==
  ASSUME NEW S, NEW s \in Seq(S), NEW k \in Nat, Len(s) = k
  PROVE  s = [i \in 1..k |-> s[i]]
OBVIOUS

LEMMA PushMaps ==
  ASSUME IInv, Push
  PROVE  Maps!Next
<1>1. /\ work = Idle /\ work' = work /\ scopes' = Append(scopes, Unbound) /\ arena' = arena
      /\ UNCHANGED <<bindings, mutability, references, exclusives>>
  BY DEF Push
<1>2. scopes \in Seq([Name -> Handle \cup {None}])
  BY DEF IInv, Shape
<1>3. Unbound \in [Name -> Handle \cup {None}] /\ \A m \in Name : Unbound[m] = None
  BY DEF Unbound
<1>4. /\ Len(scopes') = Len(scopes) + 1 /\ \A i \in 1..Len(scopes) : scopes'[i] = scopes[i]
      /\ scopes'[Len(scopes) + 1] = Unbound
  <2> DEFINE F == [Name -> Handle \cup {None}]
  <2>1. scopes \in Seq(F) /\ Unbound \in F
    BY <1>2, <1>3
  <2> HIDE DEF F
  <2> QED
    BY <1>1, <2>1, AppendFacts
<1>5. /\ Current' = Current + 1 /\ \A i \in 1..Current : scopes'[i] = scopes[i]
      /\ scopes'[Current + 1] = Unbound
  BY <1>4 DEF Current
<1>6. /\ \A i, m : ~Coming(i, m) /\ ~Pending(i, m)
      /\ \A i, m : ~Coming(i, m)' /\ ~Pending(i, m)'
  BY <1>1, NoWork DEF Coming, Pending
<1>7. /\ Len(Stack) = Current /\ (\E V : Stack \in Seq(V)) /\ Current \in Nat
      /\ \A i \in 1..Current : Stack[i] = [n \in Name |-> Seen(i, n)]
  BY StackFacts
<1>8. Stack' = [i \in 1..(Current + 1) |-> [n \in Name |-> Seen(i, n)']]
  BY <1>5, StackCells
<1> HIDE DEF Current
<1>9. ASSUME NEW i \in 1..Current, NEW m \in Name
      PROVE  Seen(i, m)' = Seen(i, m)
  <2>1. CASE scopes[i][m] = None
    BY <1>5, <1>6, <2>1, SeenCases, SeenNext
  <2>2. CASE scopes[i][m] # None
    <3>1. PICK x : x = Get(arena, scopes[i][m])
      OBVIOUS
    <3>2. Seen(i, m) = Entry(i, m, x)
      BY <1>6, <2>2, <3>1, SeenCases
    <3>3. scopes'[i][m] # None /\ x = Get(arena', scopes'[i][m])
      BY <1>1, <1>5, <2>2, <3>1
    <3>4. Seen(i, m)' = Entry(i, m, x)'
      BY <1>6, <3>3, SeenNext
    <3> QED
      BY <1>1, <3>2, <3>4, EntrySame
  <2> QED
    BY <2>1, <2>2
<1>10. PICK top : top = Current + 1
  OBVIOUS
<1>11. \A m \in Name : Seen(top, m)' = None
  BY <1>3, <1>5, <1>6, <1>10, SeenNext
<1>12. \A i \in 1..(Current + 1) :
         [n \in Name |-> Seen(i, n)'] = IF i = Current + 1 THEN Maps!Empty ELSE Stack[i]
  <2> SUFFICES ASSUME NEW i \in 1..(Current + 1)
               PROVE  [n \in Name |-> Seen(i, n)'] = IF i = Current + 1 THEN Maps!Empty ELSE Stack[i]
    OBVIOUS
  <2>1. CASE i = Current + 1
    BY <1>10, <1>11, <2>1 DEF Maps!Empty
  <2>2. CASE i # Current + 1
    <3>1. i \in 1..Current
      BY <1>7, <2>2, UpToLast
    <3> QED
      BY <1>7, <1>9, <2>2, <3>1
  <2> QED
    BY <2>1, <2>2
<1>13. Stack' = [i \in 1..(Current + 1) |-> IF i = Current + 1 THEN Maps!Empty ELSE Stack[i]]
  BY <1>8, <1>12
<1>14. Append(Stack, Maps!Empty) = [i \in 1..(Current + 1) |-> IF i = Current + 1 THEN Maps!Empty ELSE Stack[i]]
  <2>1. PICK e : e = Maps!Empty
    OBVIOUS
  <2>2. PICK V : Stack \in Seq(V)
    BY <1>7
  <2>3. PICK W : W = V \cup {e}
    OBVIOUS
  <2>4. Stack \in Seq(W) /\ e \in W
    BY ONLY <2>2, <2>3
  <2>5. /\ Append(Stack, e) \in Seq(W)
        /\ Len(Append(Stack, e)) = Current + 1
        /\ \A i \in 1..Current : Append(Stack, e)[i] = Stack[i]
        /\ Append(Stack, e)[Current + 1] = e
    BY <1>7, <2>4, AppendProperties
  <2>6. Append(Stack, e) = [i \in 1..(Current + 1) |-> Append(Stack, e)[i]]
    <3>1. PICK s : s = Append(Stack, e)
      OBVIOUS
    <3>2. s \in Seq(W) /\ Len(s) = Current + 1 /\ Current + 1 \in Nat
      BY ONLY <1>7, <2>5, <3>1
    <3>3. s = [i \in 1..(Current + 1) |-> s[i]]
      BY ONLY <3>2, SequenceIsFunction
    <3> QED
      BY ONLY <3>1, <3>3
  <2>7. \A i \in 1..(Current + 1) :
          Append(Stack, e)[i] = IF i = Current + 1 THEN e ELSE Stack[i]
    BY ONLY <1>7, <2>5, UpToLast
  <2>8. Append(Stack, e) = [i \in 1..(Current + 1) |-> IF i = Current + 1 THEN e ELSE Stack[i]]
    BY ONLY <2>6, <2>7
  <2> QED
    BY ONLY <2>1, <2>8
<1> QED
  BY <1>13, <1>14 DEF Maps!Next, Maps!Push

LEMMA PopMaps ==
  ASSUME IInv, Pop
  PROVE  Maps!Next
<1>1. /\ work = Idle /\ Current > 1 /\ scopes' = Cut(scopes) /\ arena' = arena
      /\ work' = [kind |-> "drain", todo |-> scopes[Current]]
      /\ UNCHANGED <<bindings, mutability, references, exclusives>>
  BY DEF Pop, Statement
<1>2. scopes \in Seq([Name -> Handle \cup {None}]) /\ scopes # <<>>
  BY DEF IInv, Shape
<1>3. Len(scopes') = Len(scopes) - 1 /\ \A i \in 1..(Len(scopes) - 1) : scopes'[i] = scopes[i]
  BY <1>1, <1>2, CutFacts
<1>4. Current' = Current - 1 /\ \A i \in 1..(Current - 1) : scopes'[i] = scopes[i]
  BY <1>3 DEF Current
<1>5. work.kind = "none" /\ work'.kind = "drain"
  BY <1>1, NoWork
<1>6. /\ \A i, m : ~Coming(i, m) /\ ~Pending(i, m)
      /\ \A i, m : ~Coming(i, m)' /\ ~Pending(i, m)'
  BY <1>5 DEF Coming, Pending
<1>7. /\ Len(Stack) = Current /\ (\E V : Stack \in Seq(V)) /\ Current \in Nat
      /\ \A i \in 1..Current : Stack[i] = [n \in Name |-> Seen(i, n)]
  BY StackFacts
<1>8. Stack' = [i \in 1..(Current - 1) |-> [n \in Name |-> Seen(i, n)']]
  BY <1>4, StackCells
<1> HIDE DEF Current
<1>9. ASSUME NEW i \in 1..(Current - 1), NEW m \in Name
      PROVE  Seen(i, m)' = Seen(i, m)
  <2>1. CASE scopes[i][m] = None
    BY <1>4, <1>6, <2>1, SeenCases, SeenNext
  <2>2. CASE scopes[i][m] # None
    <3>1. PICK x : x = Get(arena, scopes[i][m])
      OBVIOUS
    <3>2. Seen(i, m) = Entry(i, m, x)
      BY <1>6, <2>2, <3>1, SeenCases
    <3>3. Seen(i, m)' = Entry(i, m, x)'
      BY <1>1, <1>4, <1>6, <2>2, <3>1, SeenNext
    <3> QED
      BY <1>1, <3>2, <3>3, EntrySame
  <2> QED
    BY <2>1, <2>2
<1>10. \A i \in 1..(Current - 1) : [n \in Name |-> Seen(i, n)'] = Stack[i]
  <2> SUFFICES ASSUME NEW i \in 1..(Current - 1)
               PROVE  [n \in Name |-> Seen(i, n)'] = Stack[i]
    OBVIOUS
  <2>1. i \in 1..Current
    BY <1>7
  <2> QED
    BY <1>7, <1>9, <2>1
<1>11. Stack' = [i \in 1..(Current - 1) |-> Stack[i]]
  BY <1>8, <1>10
<1>12. SubSeq(Stack, 1, Len(Stack) - 1) = [i \in 1..(Current - 1) |-> Stack[i]]
  BY <1>7
<1> QED
  BY <1>1, <1>7, <1>11, <1>12 DEF Maps!Next, Maps!Pop

LEMMA InitMaps ==
  ASSUME Init
  PROVE  Maps!Init
<1>1. scopes = <<Unbound>> /\ work = Idle
  BY DEF Init
<1>2. Current = 1 /\ scopes[1] = Unbound /\ \A m \in Name : Unbound[m] = None
  BY <1>1 DEF Current, Unbound
<1>3. \A i, m : ~Coming(i, m)
  BY <1>1, NoWork DEF Coming
<1>4. \A m \in Name : Seen(1, m) = None
  BY <1>2, <1>3, SeenCases
<1>5. Stack = [i \in 1..1 |-> Maps!Empty]
  BY <1>2, <1>4, StackCells DEF Maps!Empty
<1>6. [i \in 1..1 |-> Maps!Empty] = <<Maps!Empty>>
  OBVIOUS
<1> QED
  BY <1>5, <1>6 DEF Maps!Init

LEMMA NextMaps ==
  ASSUME IInv, [Next]_vars
  PROVE  [Maps!Next]_Stack
<1>1. CASE UNCHANGED vars
  BY <1>1 DEF vars, storage, Stack, FlagOf, Pending, Current
<1>2. CASE Push
  BY <1>2, PushMaps
<1>3. CASE Pop
  BY <1>3, PopMaps
<1>4. CASE DropItem
  BY <1>4, DropItemMaps
<1>5. CASE Finish
  BY <1>5, FinishMaps
<1>6. ASSUME NEW n \in Name, DeclareNext(n) \/ ReassignNext(n) \/ DrainNext(n) PROVE Stack' = Stack
  BY <1>6, DeclareNextMaps, ReassignNextMaps, DrainNextMaps
<1>7. ASSUME NEW n \in Name, NEW t \in Type, NEW b \in Bindings, Declare(n, t, b) PROVE Maps!Next \/ Stack' = Stack
  BY <1>7, DeclareMaps
<1>8. ASSUME NEW n \in Name, NEW b \in Plain, DeclareLoop(n, b) PROVE Maps!Next
  BY <1>8, DeclareLoopMaps
<1>9. ASSUME NEW n \in Name, NEW v \in Val, Reassign(n, v) \/ Rebind(n, v) \/ BindItem(n, v) PROVE Maps!Next
  BY <1>9, ReassignMaps, RebindMaps, BindItemMaps
<1>10. ASSUME NEW new \in [Name -> Plain \cup {None}], DeclareMany(new) PROVE Maps!Next
  BY <1>10, DeclareManyMaps
<1>11. ASSUME NEW values \in [Name -> Val \cup {None}], ReassignMany(values) PROVE Maps!Next
  BY <1>11, ReassignManyMaps
<1> QED
  BY <1>1, <1>2, <1>3, <1>4, <1>5, <1>6, <1>7, <1>8, <1>9, <1>10, <1>11 DEF Next

\* The scopes are a stack of maps whose operations happen at once: a loop's work
\* counts as done when it begins, and every later step of it changes nothing that
\* can be seen (define, assign, remove_current, push and pop of runtime/scope.rs;
\* the statements of evaluator/execution.rs that use them).
THEOREM ScopesAreMaps == Spec => ImplementsMaps
<1>1. Init => Maps!Init
  BY InitMaps
<1>2. IInv /\ [Next]_vars => [Maps!Next]_Stack
  BY NextMaps
<1> QED
  BY <1>1, <1>2, StorageInvariant, PTL DEF Spec, ImplementsMaps, Maps!Spec
=============================================================================
