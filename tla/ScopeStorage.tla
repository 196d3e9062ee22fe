---------------------------- MODULE ScopeStorage ----------------------------
(* The variables of the evaluator: ScopeStack (runtime/scope.rs), which keeps *)
(* values in an arena, the handles of each scope's names in a map, and what   *)
(* is known of a name in four further maps of stacks; and TypeScopes          *)
(* (evaluator.rs), which keeps the types of names in a stack of its own.      *)
(* Loops over several names are steps of their own; nothing else happens      *)
(* while one is under way (work).                                             *)
EXTENDS Arena, FiniteSets

CONSTANTS
  Name, Val, Type,
  TypeOf,       \* the type of each value (type_of_value)
  Admits,       \* the values of each type (value_matches_type)
  MaxScopes, MaxSlots    \* bounds

Binding(v, mutable, reference) ==
  [value |-> v, mutable |-> mutable, reference |-> reference, exclusive |-> mutable /\ reference]

Entries == [value : Val, mutable : BOOLEAN, reference : BOOLEAN, exclusive : BOOLEAN]
Bindings == {Binding(v, mutable, reference) : v \in Val, mutable, reference \in BOOLEAN}
Plain == {b \in Bindings : ~b.reference}

\* A write whose target is resolved.
Write == [scope : Nat \ {0}, value : Val]

ASSUME DataAssumption ==
  /\ None \notin Val \cup Type \cup Entries \cup Write \cup Handle
  /\ TypeOf \in [Val -> Type]
  /\ Admits \in [Type -> SUBSET Val]
  /\ \A v \in Val : v \in Admits[TypeOf[v]]

VARIABLES
  arena,
  scopes,       \* of each scope, the handles of its names
  bindings,     \* of each name, the indices of the scopes that bind it
  mutability, references, exclusives,   \* of each name, one flag for each binding
  types,        \* of each scope, the types recorded for names
  typeBindings, \* of each name, the indices of the scopes that record its type
  items,        \* of each scope, the names pipelines have bound in it
  work,         \* the loop under way
  released,     \* the handles that were given up
  refused       \* the names whose declaration was refused, with their scopes

storage == <<arena, scopes, bindings, mutability, references, exclusives>>
typing == <<types, typeBindings>>
vars == <<storage, typing, items, work, released, refused>>

Unbound == [n \in Name |-> None]
Idle == [kind |-> "none", todo |-> Unbound]

Cut(s) == SubSeq(s, 1, Len(s) - 1)
End(s) == s[Len(s)]
Current == Len(scopes)

\* A map of the stack with one name set, in the current scope.
WithCurrent(stack, n, x) == [stack EXCEPT ![Len(stack)] = [stack[Len(stack)] EXCEPT ![n] = x]]

\* Variant: the first scope that binds it.
ScopeOfFirst(n) ==
  IF scopes[Current][n] # None THEN Current
  ELSE IF bindings[n] = <<>> THEN 0 ELSE bindings[n][1]

\* The index of the scope a name is visible in: the current scope, or the last
\* that binds it.
ScopeOf(n) ==
  IF scopes[Current][n] # None THEN Current
  ELSE IF bindings[n] = <<>> THEN 0 ELSE End(bindings[n])

Contains(n) == ScopeOf(n) # 0
Lookup(n) == Get(arena, scopes[ScopeOf(n)][n])
\* Variant: some binding of the name is mutable.
IsMutableSomewhere(n) == \E k \in 1..Len(mutability[n]) : mutability[n][k]
IsMutable(n) == mutability[n] # <<>> /\ End(mutability[n])
IsReference(n) == references[n] # <<>> /\ End(references[n])

\* The same for types.
TypeScopeOf(n) ==
  IF types[Len(types)][n] # None THEN Len(types)
  ELSE IF typeBindings[n] = <<>> THEN 0 ELSE End(typeBindings[n])

\* A value may be assigned to a name if it has the type recorded for it.
MayAssign(n, v) == TypeScopeOf(n) # 0 => v \in Admits[types[TypeScopeOf(n)][n]]

\* What a closure keeps of a name it uses: later scopes overwrite earlier ones.
Captured(n) ==
  LET Binds == {i \in 1..Current : scopes[i][n] # None}
  IN  IF Binds = {} THEN None
      ELSE Get(arena, scopes[CHOOSE i \in Binds : \A j \in Binds : j <= i][n])

-----------------------------------------------------------------------------
(* The operations the actions are made of.                                    *)

DefineType(n, t) ==
  /\ types' = WithCurrent(types, n, t)
  /\ typeBindings' = IF types[Len(types)][n] # None THEN typeBindings
                     ELSE [typeBindings EXCEPT ![n] = Append(@, Len(types))]

\* ScopeStack::define_with_borrow_mode, for a name that is free.
DefineValue(n, b) ==
  /\ arena' = Insert(arena, b.value)
  /\ scopes' = WithCurrent(scopes, n, NextHandle(arena))
  /\ bindings' = [bindings EXCEPT ![n] = Append(@, Current)]
  /\ mutability' = [mutability EXCEPT ![n] = Append(@, b.mutable)]
  /\ references' = [references EXCEPT ![n] = Append(@, b.reference)]
  /\ exclusives' = [exclusives EXCEPT ![n] = Append(@, b.exclusive)]

\* Variant: the references of a name outlive the binding.
ForgetLess(n) ==
  /\ bindings' = [bindings EXCEPT ![n] = Cut(@)]
  /\ mutability' = [mutability EXCEPT ![n] = Cut(@)]
  /\ exclusives' = [exclusives EXCEPT ![n] = Cut(@)]
  /\ UNCHANGED references

\* What pop and remove_current drop with a binding.
Forget(n) ==
  /\ bindings' = [bindings EXCEPT ![n] = Cut(@)]
  /\ mutability' = [mutability EXCEPT ![n] = Cut(@)]
  /\ references' = [references EXCEPT ![n] = Cut(@)]
  /\ exclusives' = [exclusives EXCEPT ![n] = Cut(@)]

Release(h) ==
  /\ arena' = Remove(arena, h)
  /\ released' = released \cup {h}

\* Bound: slots for k more values.
HasRoom(k) == Len(arena.slots) + k <= MaxSlots + Len(arena.free)

-----------------------------------------------------------------------------
Init ==
  /\ arena = EmptyArena
  /\ scopes = <<Unbound>>
  /\ bindings = [n \in Name |-> <<>>]
  /\ mutability = bindings /\ references = bindings /\ exclusives = bindings
  /\ types = <<Unbound>>
  /\ typeBindings = bindings
  /\ items = << <<>> >>
  /\ work = Idle
  /\ released = {}
  /\ refused = {}

\* Statements run in a scope in which no pipeline is evaluating an item.
Statement == work = Idle /\ items[Current] = <<>>

\* Stmt::Assign and Stmt::Borrow: the type is recorded, then the name is
\* defined, which fails when the current scope has it.
Declare(n, t, b) ==
  /\ Statement /\ HasRoom(1)
  /\ b.value \in Admits[t]
  /\ DefineType(n, t)
  /\ IF scopes[Current][n] = None
     THEN DefineValue(n, b) /\ UNCHANGED refused
     ELSE refused' = refused \cup {<<Current, n>>} /\ UNCHANGED storage
  /\ UNCHANGED <<items, work, released>>

\* Stmt::Destructure: every name is looked at before any is defined.
DeclareMany(new) ==
  /\ Statement /\ HasRoom(Cardinality({n \in Name : new[n] # None}))
  /\ \A n \in Name : new[n] # None => scopes[Current][n] = None
  /\ work' = [kind |-> "define", todo |-> new]
  /\ UNCHANGED <<storage, typing, items, released, refused>>

DeclareNext(n) ==
  /\ work.kind = "define" /\ work.todo[n] # None
  /\ DefineValue(n, work.todo[n])
  /\ DefineType(n, TypeOf[work.todo[n].value])
  /\ work' = [work EXCEPT !.todo[n] = None]
  /\ UNCHANGED <<items, released, refused>>

\* The variable of a for loop, in a scope of its own: no type is recorded.
DeclareLoop(n, b) ==
  /\ Statement /\ HasRoom(1)
  /\ ~b.reference
  /\ scopes[Current] = Unbound
  /\ DefineValue(n, b)
  /\ UNCHANGED <<typing, items, work, released, refused>>

\* Stmt::Reassign: the visible binding, if it is mutable and the value has the
\* type that is recorded.
Reassign(n, v) ==
  /\ Statement
  /\ ~IsReference(n) /\ IsMutable(n) /\ Contains(n)
  /\ MayAssign(n, v)
  /\ arena' = Put(arena, scopes[ScopeOf(n)][n], v)
  /\ UNCHANGED <<scopes, bindings, mutability, references, exclusives, typing, items, work, released, refused>>

\* Variant: names are not asked for a type.
ReassignAnyType(values) ==
  /\ Statement
  /\ \A n \in Name : values[n] # None =>
       bindings[n] # <<>> /\ ~IsReference(n) /\ IsMutable(n)
  /\ work' = [kind |-> "assign",
              todo |-> [n \in Name |-> IF values[n] = None THEN None
                                       ELSE [scope |-> End(bindings[n]), value |-> values[n]]]]
  /\ UNCHANGED <<storage, typing, items, released, refused>>

\* Stmt::DestructureReassign: all targets are resolved before one is written.
ReassignMany(values) ==
  /\ Statement
  /\ \A n \in Name : values[n] # None =>
       /\ bindings[n] # <<>> /\ ~IsReference(n) /\ IsMutable(n)
       /\ MayAssign(n, values[n])
  /\ work' = [kind |-> "assign",
              todo |-> [n \in Name |-> IF values[n] = None THEN None
                                       ELSE [scope |-> End(bindings[n]), value |-> values[n]]]]
  /\ UNCHANGED <<storage, typing, items, released, refused>>

ReassignNext(n) ==
  /\ work.kind = "assign" /\ work.todo[n] # None
  /\ arena' = Put(arena, scopes[work.todo[n].scope][n], work.todo[n].value)
  /\ work' = [work EXCEPT !.todo[n] = None]
  /\ UNCHANGED <<scopes, bindings, mutability, references, exclusives, typing, items, released, refused>>

\* assign_current: the next value of a loop's variable, the closure of a hoisted
\* function.
Rebind(n, v) ==
  /\ Statement
  /\ scopes[Current][n] # None
  /\ \/ types[Current][n] = None
     \/ ~IsMutable(n) /\ types[Current][n] = TypeOf[v] /\ <<Current, n>> \notin refused
  /\ arena' = Put(arena, scopes[Current][n], v)
  /\ UNCHANGED <<scopes, bindings, mutability, references, exclusives, typing, items, work, released, refused>>

\* A pipeline binds its item while it evaluates a predicate or a field.
BindItem(n, v) ==
  /\ work = Idle /\ HasRoom(1)
  /\ scopes[Current][n] = None
  /\ DefineValue(n, Binding(v, FALSE, FALSE))
  /\ items' = [items EXCEPT ![Current] = Append(@, n)]
  /\ UNCHANGED <<typing, work, released, refused>>

DropItem ==
  /\ work = Idle /\ items[Current] # <<>>
  /\ LET n == End(items[Current]) IN
       /\ Release(scopes[Current][n])
       /\ scopes' = WithCurrent(scopes, n, None)
       /\ Forget(n)
  /\ items' = [items EXCEPT ![Current] = Cut(@)]
  /\ UNCHANGED <<typing, work, refused>>

Push ==
  /\ work = Idle /\ Current < MaxScopes
  /\ scopes' = Append(scopes, Unbound)
  /\ types' = Append(types, Unbound)
  /\ items' = Append(items, <<>>)
  /\ UNCHANGED <<arena, bindings, mutability, references, exclusives, typeBindings, work, released, refused>>

\* The scope is taken off; then its bindings are released, in any order.
Pop ==
  /\ Statement /\ Current > 1
  /\ scopes' = Cut(scopes) /\ types' = Cut(types) /\ items' = Cut(items)
  /\ typeBindings' = [n \in Name |-> IF types[Current][n] = None THEN typeBindings[n]
                                     ELSE Cut(typeBindings[n])]
  /\ work' = [kind |-> "drain", todo |-> scopes[Current]]
  /\ refused' = {r \in refused : r[1] < Current}
  /\ UNCHANGED <<arena, bindings, mutability, references, exclusives, released>>

DrainNext(n) ==
  /\ work.kind = "drain" /\ work.todo[n] # None
  /\ Release(work.todo[n])
  /\ Forget(n)
  /\ work' = [work EXCEPT !.todo[n] = None]
  /\ UNCHANGED <<scopes, typing, items, refused>>

Finish ==
  /\ work # Idle /\ work.todo = Unbound
  /\ work' = Idle
  /\ UNCHANGED <<storage, typing, items, released, refused>>

Next ==
  \/ Push \/ Pop \/ DropItem \/ Finish
  \/ \E n \in Name : DeclareNext(n) \/ ReassignNext(n) \/ DrainNext(n)
  \/ \E n \in Name, t \in Type, b \in Bindings : Declare(n, t, b)
  \/ \E n \in Name, b \in Plain : DeclareLoop(n, b)
  \/ \E n \in Name, v \in Val : Reassign(n, v) \/ Rebind(n, v) \/ BindItem(n, v)
  \/ \E new \in [Name -> Plain \cup {None}] : DeclareMany(new)
  \/ \E values \in [Name -> Val \cup {None}] : ReassignMany(values)

Spec == Init /\ [][Next]_vars

-----------------------------------------------------------------------------
Work ==
  [kind : {"none"}, todo : {Unbound}]
    \cup [kind : {"define"}, todo : [Name -> Plain \cup {None}]]
    \cup [kind : {"assign"}, todo : [Name -> Write \cup {None}]]
    \cup [kind : {"drain"}, todo : [Name -> Handle \cup {None}]]

\* The variables have their types (runtime/scope.rs, evaluator.rs).
TypeOK ==
  /\ arena.slots \in Seq([generation : 0..MaxGeneration, value : Val \cup {None}])
  /\ arena.free \in Seq(Nat \ {0})
  /\ scopes \in Seq([Name -> Handle \cup {None}]) /\ scopes # <<>>
  /\ bindings \in [Name -> Seq(Nat \ {0})]
  /\ mutability \in [Name -> Seq(BOOLEAN)]
  /\ references \in [Name -> Seq(BOOLEAN)]
  /\ exclusives \in [Name -> Seq(BOOLEAN)]
  /\ types \in Seq([Name -> Type \cup {None}])
  /\ typeBindings \in [Name -> Seq(Nat \ {0})]
  /\ items \in Seq(Seq(Name))
  /\ work \in Work
  /\ released \subseteq Handle
  /\ refused \subseteq (Nat \X Name)

\* The scopes that hold a handle, the one being drained included.
Held ==
  {p \in (1..Current) \X Name : scopes[p[1]][p[2]] # None}
    \cup {<<Current + 1, n>> : n \in {m \in Name : work.kind = "drain" /\ work.todo[m] # None}}
HandleAt(p) == IF p[1] <= Current THEN scopes[p[1]][p[2]] ELSE work.todo[p[2]]

\* Every handle a scope holds resolves and is held once, and what the free list
\* offers is empty: the expectations at which scope.rs would panic never fail.
HandlesLive ==
  /\ \A p \in Held : Resolves(arena, HandleAt(p))
  /\ \A p, q \in Held : HandleAt(p).index = HandleAt(q).index => p = q
  /\ \A k \in 1..Len(arena.free) : arena.free[k] \in 1..Len(arena.slots)
  /\ \A k \in 1..Len(arena.free) : arena.slots[arena.free[k]].value = None
  /\ \A j, k \in 1..Len(arena.free) : arena.free[j] = arena.free[k] => j = k

\* A handle that was given up never resolves again, whatever is inserted later
\* (Arena::remove retires a slot whose generation cannot grow).
StaleStaysDead == \A h \in released : ~Resolves(arena, h)

Increasing(s) == \A j, k \in 1..Len(s) : j < k => s[j] < s[k]

\* A name's indices are the scopes that bind it, with one flag of each kind for each.
ValueMapsAgree ==
  /\ \A n \in Name :
       /\ Increasing(bindings[n])
       /\ \A i \in 1..(Current + 1) : <<i, n>> \in Held <=> \E k \in 1..Len(bindings[n]) : bindings[n][k] = i
       /\ \A k \in 1..Len(bindings[n]) : bindings[n][k] <= Current + 1
       /\ Len(mutability[n]) = Len(bindings[n])
       /\ Len(references[n]) = Len(bindings[n])
       /\ Len(exclusives[n]) = Len(bindings[n])
  /\ Len(types) = Current /\ Len(items) = Current

\* The same of the stack of types.
TypeMapsAgree ==
  \A n \in Name :
    /\ Increasing(typeBindings[n])
    /\ \A k \in 1..Len(typeBindings[n]) : typeBindings[n][k] \in 1..Len(types)
    /\ \A i \in 1..Len(types) : types[i][n] # None <=> \E k \in 1..Len(typeBindings[n]) : typeBindings[n][k] = i

\* The maps of the two stacks, of values and of types, agree at every step of
\* every operation, also halfway through one that defines, writes or drains many names.
MapsAgree == ValueMapsAgree /\ TypeMapsAgree

\* A binding holds a value of the type recorded for it in its scope, unless a
\* second declaration was refused after its type was recorded (execution.rs 307).
ValuesHaveTypes ==
  \A i \in 1..Current, n \in Name :
    scopes[i][n] # None /\ types[i][n] # None /\ <<i, n>> \notin refused
      => Get(arena, scopes[i][n]) \in Admits[types[i][n]]

\* Between statements a closure captures what a lookup at its place would find.
CapturesWhatIsSeen ==
  work = Idle => \A n \in Name : IF Contains(n) THEN Captured(n) = Lookup(n) ELSE Captured(n) = None

-----------------------------------------------------------------------------
(* The refinement. A loop's work counts as done when it begins: the names to  *)
(* be defined are there, the values to be written are written, the scope to   *)
(* be drained is gone.                                                        *)

FlagOf(flags, i, n) == \E k \in 1..Len(bindings[n]) : bindings[n][k] = i /\ flags[n][k]

Pending(i, n) == work.kind = "assign" /\ work.todo[n] # None /\ work.todo[n].scope = i

Stack ==
  [i \in 1..Current |-> [n \in Name |->
     IF work.kind = "define" /\ i = Current /\ work.todo[n] # None THEN work.todo[n]
     ELSE IF scopes[i][n] = None THEN None
     ELSE [value |-> IF Pending(i, n) THEN work.todo[n].value ELSE Get(arena, scopes[i][n]),
           mutable |-> FlagOf(mutability, i, n),
           reference |-> FlagOf(references, i, n),
           exclusive |-> FlagOf(exclusives, i, n)]]]

Maps == INSTANCE ScopeMaps WITH stack <- Stack

\* The scopes are a stack of maps whose operations happen at once, also when a
\* name is bound in several scopes and several names change together.
ImplementsMaps == Maps!Spec
=============================================================================
