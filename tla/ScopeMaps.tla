------------------------------ MODULE ScopeMaps ------------------------------
(* What the scopes of the evaluator promise: a stack of maps from names to    *)
(* bindings, in which every operation happens at once.                        *)
EXTENDS Integers, Sequences

CONSTANTS Name, Val, None

VARIABLE stack

Binding == [value : Val, mutable : BOOLEAN, reference : BOOLEAN, exclusive : BOOLEAN]

Empty == [n \in Name |-> None]
Top == Len(stack)

\* The scope in which n is visible.
Innermost(i, n) ==
  /\ stack[i][n] # None
  /\ \A j \in (i + 1)..Len(stack) : stack[j][n] = None

Init == stack = <<Empty>>

Push == stack' = Append(stack, Empty)

Pop == Len(stack) > 1 /\ stack' = SubSeq(stack, 1, Len(stack) - 1)

\* New names in the current scope.
Define(new) ==
  /\ \A n \in Name : new[n] # None => stack[Top][n] = None
  /\ stack' = [stack EXCEPT ![Top] = [n \in Name |-> IF new[n] # None THEN new[n] ELSE stack[Top][n]]]

\* New values of visible names, mutable ones or such of the current scope.
Assign(values) ==
  /\ \A n \in Name : values[n] # None =>
       \E i \in 1..Len(stack) : Innermost(i, n) /\ (stack[i][n].mutable \/ i = Top)
  /\ stack' = [i \in 1..Len(stack) |-> [n \in Name |->
                 IF values[n] # None /\ Innermost(i, n)
                 THEN [stack[i][n] EXCEPT !.value = values[n]] ELSE stack[i][n]]]

Remove(n) ==
  /\ stack[Top][n] # None
  /\ stack' = [stack EXCEPT ![Top] = [stack[Top] EXCEPT ![n] = None]]

Next ==
  \/ Push
  \/ Pop
  \/ \E new \in [Name -> Binding \cup {None}] : Define(new)
  \/ \E values \in [Name -> Val \cup {None}] : Assign(values)
  \/ \E n \in Name : Remove(n)

Spec == Init /\ [][Next]_stack
=============================================================================
