-------------------------------- MODULE Arena --------------------------------
(* A generational arena (runtime/arena.rs): slots that are reused after a     *)
(* removal, and handles that name a slot at one generation. All handles here  *)
(* are of one arena; the code compares the arena's identifier as well. The    *)
(* count of live slots is left out: nothing reads it.                         *)
EXTENDS Integers, Sequences

CONSTANTS
  MaxGeneration,  \* the last generation of a slot (u32::MAX)
  None            \* what an empty slot holds

ASSUME MaxGenerationAssumption == MaxGeneration \in Nat

Handle == [index : Nat \ {0}, generation : Nat]

EmptyArena == [slots |-> <<>>, free |-> <<>>]

\* The handle under which the next value is inserted.
NextHandle(a) ==
  IF a.free = <<>> THEN [index |-> Len(a.slots) + 1, generation |-> 0]
  ELSE [index |-> a.free[Len(a.free)], generation |-> a.slots[a.free[Len(a.free)]].generation]

\* Variant: the slot stays on the free list.
InsertKept(a, value) ==
  IF a.free = <<>>
  THEN [a EXCEPT !.slots = Append(@, [generation |-> 0, value |-> value])]
  ELSE [a EXCEPT !.slots[a.free[Len(a.free)]].value = value]

Insert(a, value) ==
  IF a.free = <<>>
  THEN [a EXCEPT !.slots = Append(@, [generation |-> 0, value |-> value])]
  ELSE [slots |-> [a.slots EXCEPT ![a.free[Len(a.free)]].value = value],
        free |-> SubSeq(a.free, 1, Len(a.free) - 1)]

Resolves(a, h) ==
  /\ h.index \in 1..Len(a.slots)
  /\ a.slots[h.index].generation = h.generation
  /\ a.slots[h.index].value # None

Get(a, h) == a.slots[h.index].value

Put(a, h, value) == [a EXCEPT !.slots[h.index].value = value]

\* Variant: a slot at its last generation is handed out again.
RemoveWrapping(a, h) ==
  IF ~Resolves(a, h) THEN a
  ELSE [slots |-> [a.slots EXCEPT ![h.index] =
                     [generation |-> (h.generation + 1) % (MaxGeneration + 1), value |-> None]],
        free |-> Append(a.free, h.index)]

\* Variant: generations are not bounded.
RemoveUnbounded(a, h) ==
  IF ~Resolves(a, h) THEN a
  ELSE [slots |-> [a.slots EXCEPT ![h.index] = [generation |-> h.generation + 1, value |-> None]],
        free |-> Append(a.free, h.index)]

\* A slot at its last generation is retired.
Remove(a, h) ==
  IF ~Resolves(a, h) THEN a
  ELSE IF h.generation < MaxGeneration
  THEN [slots |-> [a.slots EXCEPT ![h.index] = [generation |-> h.generation + 1, value |-> None]],
        free |-> Append(a.free, h.index)]
  ELSE [slots |-> [a.slots EXCEPT ![h.index].value = None],
        free |-> a.free]
=============================================================================
