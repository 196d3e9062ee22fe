------------------------------ MODULE Borrowing ------------------------------
(* The borrow runtime of the SimplyLang interpreter: the scope stack, the     *)
(* stack of active loans, the shared collections and struct instances, and    *)
(* the constructs that open and close scopes and loans - blocks, loops,       *)
(* matches, calls, messages and half-evaluated statements.                    *)
(*                                                                            *)
(* A behaviour is a run of ANY program over the given names: each action is   *)
(* one statement or one step of a construct, enabled when the interpreter     *)
(* would accept it.  A statement the interpreter rejects changes nothing      *)
(* here and raises an error; an error, a return and a break leave constructs  *)
(* in the same way as their normal end does, by the action Leave.             *)
EXTENDS BorrowLocations, FiniteSets

CONSTANTS
  Name,           \* identifiers of the program
  List,           \* identities of Arrays and Lists
  Hash,           \* identities of Hashes
  Struct,         \* identities of struct instances
  Key,            \* keys of Hashes
  Scalar,         \* values without identity
  SortOf,         \* the type of each value, fixed by its identity
  Function,       \* functions and message behaviours
  Message,        \* the functions that are message behaviours
  Signature,      \* parameters and captured values of each function
  Construct,      \* the constructs the programs use
  InitialScope,   \* the global bindings a behaviour starts with
  InitialHeap,    \* the contents it starts with
  MaxCallDepth,   \* limits::MAX_CALL_DEPTH, 16 in the code
  MaxScopes,      \* bound on nested scopes
  MaxLoans,       \* bound on active loans
  MaxPath,        \* bound on the length of a path
  MaxList         \* bound on the length of a list

VARIABLES
  scopes,         \* Evaluator::scopes: innermost last
  active,         \* Evaluator::active_collection_borrows
  heap,           \* contents of the collections and struct instances
  frames          \* the open constructs (the Rust call stack), innermost last

vars == <<scopes, active, heap, frames>>

Collection == List \cup Hash
Object == Collection \cup Struct
Value == Scalar \cup Object
None == "none"

Mode == {"Shared", "Exclusive"}
EscapeKind == {"None", "MatchPattern", "Iteration"}
NoScope == 0

Binding == [val : Value, mut : BOOLEAN, ref : BOOLEAN, excl : BOOLEAN]
ScopeOK(scope) ==
  /\ scope = [n \in DOMAIN scope |-> scope[n]]
  /\ DOMAIN scope \subseteq Name
  /\ \A n \in DOMAIN scope : scope[n] \in Binding

\* ActiveCollectionBorrow.  `home' is auxiliary: the scope the owner's name
\* was bound in when the loan was made; no action reads it.
Loan == [locations : SUBSET Location, mode : Mode, parameter : Name,
         owner : Name \cup {None}, path : Seq(Segment), scope : Nat,
         escape : EscapeKind, home : Nat]

\* The contents of each kind of object; a struct's fields are names, because a
\* message binds them to local variables.
HeapOK(contents) ==
  /\ contents = [id \in Object |-> contents[id]]
  /\ \A id \in List : contents[id] \in UNION {[1..n -> Value] : n \in 0..MaxList}
  /\ \A id \in Hash : contents[id] \in UNION {[keys -> Value] : keys \in SUBSET Key}
  /\ \A id \in Struct : contents[id] \in UNION {[fields -> Value] : fields \in SUBSET Name}

Argument == [source : Name \cup {None}, val : Value]

\* The statements that evaluate an expression between their guard and their end.
Operation == {None, "ref", "mut ref", "reassign", "write", "set", "add", "remove"}

FrameKind == {"block", "loop", "each", "match", "eval", "bind", "call"}

\* One open construct: `depth' and `checkpoint' are the numbers of scopes and
\* of loans when it was opened.  `loans' is auxiliary: the loans themselves
\* at that moment; no action reads it.
Frame == [kind : FrameKind, depth : Nat, checkpoint : Nat, loans : Seq(Loan),
          op : Operation, name : Name \cup {None}, items : Seq(Value),
          path : Seq(Segment), function : Function \cup {None}, args : Seq(Argument),
           next : Nat \ {0},
          instance : Struct \cup {None}, body : Nat]

ASSUME NamesAssumption ==
  /\ None \notin Name /\ None \notin Function /\ None \notin Struct
  /\ Message \subseteq Function
ASSUME ValuesAssumption ==
  /\ Identity = Object
  /\ Segment = ({"Index"} \X (1..MaxList)) \cup ({"Key"} \X Key) \cup ({"Field"} \X Name)
  /\ List \cap Hash = {} /\ Collection \cap Struct = {} /\ Object \cap Scalar = {}
Parameter == [name : Name, mut : BOOLEAN, ref : BOOLEAN, sort : STRING]
ASSUME SignatureAssumption ==
  \A f \in Function :
    /\ Signature[f].params \in Seq(Parameter)
    /\ DOMAIN Signature[f].captures \subseteq Name
    /\ \A n \in DOMAIN Signature[f].captures : Signature[f].captures[n] \in Value
    /\ Signature[f].fields \in 0..Len(Signature[f].params)
ASSUME FiniteAssumption == IsFiniteSet(Key) /\ IsFiniteSet(Name)
ASSUME BoundsAssumption ==
  /\ MaxCallDepth \in Nat /\ MaxScopes \in Nat /\ MaxLoans \in Nat
  /\ MaxPath \in Nat /\ MaxList \in Nat
ASSUME InitialAssumption ==
  /\ ScopeOK(InitialScope)
  /\ \A n \in DOMAIN InitialScope : ~InitialScope[n].ref
  /\ HeapOK(InitialHeap)

-----------------------------------------------------------------------------
(* The scope stack.                                                          *)

Current == Len(scopes)
Top == frames[Len(frames)]

Highest(positions) == CHOOSE i \in positions : \A j \in positions : j <= i

Visible(n) == {i \in 1..Len(scopes) : n \in DOMAIN scopes[i]}
Bound(n) == Visible(n) # {}
BindingScope(n) == Highest(Visible(n))
Lookup(n) == scopes[BindingScope(n)][n]
IsMutable(n) == Bound(n) /\ Lookup(n).mut
IsReference(n) == Bound(n) /\ Lookup(n).ref
IsExclusiveBorrow(n) == Bound(n) /\ Lookup(n).excl

\* scopes with one more binding in the innermost scope.
Define(stack, n, binding) ==
  [stack EXCEPT ![Len(stack)] =
     [m \in DOMAIN @ \cup {n} |-> IF m = n THEN binding ELSE @[m]]]

Plain(value, mutable) == [val |-> value, mut |-> mutable, ref |-> FALSE, excl |-> FALSE]
Reference(value, exclusive) ==
  [val |-> value, mut |-> exclusive, ref |-> TRUE, excl |-> exclusive]

\* The innermost visible binding of n gets a new value.
Assigned(n, value) == [scopes EXCEPT ![BindingScope(n)][n].val = value]

-----------------------------------------------------------------------------
(* Values: what an expression can produce, what a value reaches.             *)

Contents(value) == IF value \in Object THEN {heap[value][s] : s \in DOMAIN heap[value]} ELSE {}

\* collect_reachable_storage_identities: the objects reachable from values,
\* the least set that holds them and is closed under Contents.
Reachable(values) ==
  LET closed == {ids \in SUBSET Object :
                   /\ values \cap Object \subseteq ids
                   /\ \A id \in ids : Contents(id) \cap Object \subseteq ids}
  IN  {id \in Object : \A ids \in closed : id \in ids}

Rooted ==
  LET bound == UNION {{scopes[i][n].val : n \in DOMAIN scopes[i]} : i \in 1..Len(scopes)}
      lent == UNION {{l.identity : l \in active[i].locations} : i \in DOMAIN active}
      walked == UNION {{frames[i].items[j] : j \in DOMAIN frames[i].items} : i \in DOMAIN frames}
      passed == UNION {{frames[i].args[j].val : j \in DOMAIN frames[i].args} : i \in DOMAIN frames}
  IN  bound \cup lent \cup walked \cup passed \cup {frames[i].instance : i \in DOMAIN frames}

\* An object nobody reaches stands for a newly allocated one: identities are
\* never reused while a handle or a loan holds them (Arena).
Fresh == Collection \ Reachable(Rooted)

\* The values an expression without calls can yield.
VisibleValues == {Lookup(n).val : n \in {m \in Name : Bound(m)}}
Readable ==
  Scalar \cup VisibleValues \cup Fresh \cup (UNION {Contents(v) : v \in VisibleValues})

\* ensure_no_scoped_shared_borrow_escape refuses the value.
Escapes(value) ==
  \E i \in DOMAIN active :
    /\ active[i].escape # "None"
    /\ \E l \in active[i].locations : l.identity \in Reachable({value})

SameSort(v, w) == SortOf[v] = SortOf[w]

-----------------------------------------------------------------------------
(* Paths below a value.  A chain is a path with the containers it crosses.   *)

KindOf(id) == IF id \in List THEN "Index" ELSE IF id \in Hash THEN "Key" ELSE "Field"

Tip(value, chain) ==
  IF chain = <<>> THEN value
  ELSE heap[chain[Len(chain)].container][chain[Len(chain)].slot]

\* All chains below value whose containers and slots exist now.
Links == UNION {{[container |-> id, slot |-> s] : s \in DOMAIN heap[id]} : id \in Object}
Chains(value) ==
  {chain \in UNION {[1..n -> Links] : n \in 0..MaxPath} :
     \A i \in DOMAIN chain :
       chain[i].container = IF i = 1 THEN value
                            ELSE heap[chain[i - 1].container][chain[i - 1].slot]}

\* The segments of chain from position i on.
PathFrom(chain, i) ==
  [j \in 1..(Len(chain) + 1 - i) |->
     <<KindOf(chain[i + j - 1].container), chain[i + j - 1].slot>>]

\* A reference may stop at the named object itself, at a scalar slot, or at a
\* collection when the path crosses a struct field.  The tip is the value that
\* was read on the way down.
Borrowable(chain, tip) ==
  IF chain = <<>> THEN tip \in Object
  ELSE \/ tip \in Scalar
       \/ /\ tip \in Collection
          /\ \E i \in DOMAIN chain : chain[i].container \in Struct

\* The locations of a local loan: one for every container on the way, with
\* the rest of the path, and the object at the tip.
RootLocation(value, chain) ==
  [identity |-> IF chain = <<>> THEN value ELSE chain[1].container,
   path     |-> PathFrom(chain, 1)]
ChainLocations(chain, tip) ==
  {[identity |-> chain[i].container, path |-> PathFrom(chain, i)] : i \in DOMAIN chain}
    \cup (IF tip \in Object THEN {Whole(tip)} ELSE {})

-----------------------------------------------------------------------------
(* Admission of a loan against the loans that are active.                    *)

Overlapping(locations) ==
  {i \in DOMAIN active : AnyOverlap(locations, active[i].locations)}

AllShared(loans) == \A i \in loans : active[i].mode = "Shared"
AllExclusive(loans) == \A i \in loans : active[i].mode = "Exclusive"

\* The admission test of invoke_function_value_with_context: whole-collection
\* loans, `forwarded' when a loan in the way was made under the source's name.
ParameterAdmitted(mode, source, value) ==
  LET over == Overlapping({Whole(value)})
      forwarded == \E i \in over :
                     /\ active[i].parameter = source
                     /\ active[i].mode = "Exclusive" \/ mode = "Shared"
  IN  /\ value \in Collection
      /\ mode = "Exclusive" => source # None /\ IsMutable(source)
      /\ \/ over = {}
         \/ mode = "Shared" /\ (AllShared(over) \/ forwarded)
         \/ mode = "Exclusive" /\ forwarded /\ AllExclusive(over)

\* The admission test of begin_local_collection_borrow.
LocalAdmitted(mode, source, locations, root) ==
  LET over == Overlapping(locations)
      byName(i) == active[i].parameter = source /\ active[i].mode = "Exclusive"
      validReborrow ==
        /\ \E i \in over : byName(i)
        /\ \E i \in DOMAIN active :
             byName(i) /\ \E l \in active[i].locations : Covers(l, root)
  IN  /\ mode = "Exclusive" => IsMutable(source)
      /\ \/ over = {}
         \/ mode = "Exclusive" /\ validReborrow /\ AllExclusive(over)
         \/ mode = "Shared" /\ (validReborrow \/ AllShared(over))

\* The admission test of begin_shared_iteration_borrow and
\* begin_shared_match_borrow: every exclusive loan in the way must be a loan
\* of one of the whole objects, made under the source's name.
SharedScanAdmitted(source, locations) ==
  \A i \in Overlapping(locations) :
    active[i].mode = "Exclusive" =>
      /\ active[i].parameter = source
      /\ \E l \in active[i].locations, c \in locations : l = c /\ c.path = <<>>

-----------------------------------------------------------------------------
(* Guards of writes.                                                         *)

\* Variant: only exclusive loans protect a collection from its owner.
MutationAllowedUnlessExclusive(n) ==
  LET touching == {i \in DOMAIN active :
                     /\ active[i].mode = "Exclusive"
                     /\ \E l \in active[i].locations : l.identity = Lookup(n).val}
  IN  touching # {} => active[Highest(touching)].parameter = n /\ IsExclusiveBorrow(n)

\* ensure_collection_mutation_allowed.
MutationAllowed(n) ==
  LET touching == {i \in DOMAIN active :
                     \E l \in active[i].locations : l.identity = Lookup(n).val}
  IN  (Lookup(n).val \in Collection /\ touching # {}) =>
        /\ AllExclusive(touching)
        /\ active[Highest(touching)].parameter = n
        /\ IsExclusiveBorrow(n)

\* Variant: a name can be bound to another object while it is lent as shared.
ReassignmentAllowedUnlessExclusive(n) ==
  ~\E i \in DOMAIN active :
     /\ active[i].mode = "Exclusive"
     /\ \E l \in active[i].locations : l.identity = Lookup(n).val

\* ensure_collection_reassignment_allowed.
ReassignmentAllowed(n) ==
  ~\E i \in DOMAIN active :
     \E l \in active[i].locations : l.identity = Lookup(n).val

\* The message that is running with n as one of its fields' local bindings.
MessageFrames(n) ==
  {k \in DOMAIN frames :
     /\ frames[k].kind = "call" /\ frames[k].instance # None
     /\ frames[k].body = BindingScope(n)
     /\ n \in DOMAIN heap[frames[k].instance]}
MessageInstance(n) == frames[Highest(MessageFrames(n))].instance

\* Variant: a message may assign a field that is lent as shared.
FieldMutationAllowedUnlessExclusive(n) ==
  MessageFrames(n) # {} =>
    AllShared(Overlapping({[identity |-> MessageInstance(n), path |-> << <<"Field", n>> >>]}))

\* ensure_active_message_field_mutation_allowed.
FieldMutationAllowed(n) ==
  MessageFrames(n) # {} =>
    Overlapping({[identity |-> MessageInstance(n), path |-> << <<"Field", n>> >>]}) = {}

\* persist_active_message_field: contents with n's field of the running
\* message's instance set to the value n is bound to.
Persisted(contents, n, value) ==
  IF MessageFrames(n) = {} THEN contents
  ELSE [contents EXCEPT ![MessageInstance(n)][n] = value]

\* The loans `n -> value' may write through: exclusive local loans of a slot.
WritableLoans(n) ==
  {i \in DOMAIN active :
     /\ active[i].parameter = n /\ active[i].mode = "Exclusive"
     /\ active[i].scope # NoScope /\ active[i].path # <<>>}

-----------------------------------------------------------------------------
(* Opening and closing constructs.                                           *)

InStatement == frames # <<>> => Top.kind \in {"block", "each", "match", "call"}
Evaluating == frames # <<>> /\ Top.kind = "eval"
InExpression == ~Evaluating => InStatement

OpenFrame(kind) ==
  [kind |-> kind, depth |-> Len(scopes), checkpoint |-> Len(active), loans |-> active,
   op |-> None, name |-> None, items |-> <<>>, path |-> <<>>, function |-> None,
   args |-> <<>>, next |-> 1, instance |-> None, body |-> 0]

PushFrame(frame) == frames' = Append(frames, frame)
PopFrame == frames' = SubSeq(frames, 1, Len(frames) - 1)
SetTop(frame) == frames' = [frames EXCEPT ![Len(frames)] = frame]

EmptyScope == [n \in {} |-> Plain(CHOOSE v \in Value : TRUE, FALSE)]
Pushed(stack) == Append(stack, EmptyScope)

\* The elements of s at the positions `kept', in their order.
Filtered(s, kept) ==
  [j \in 1..Cardinality(kept) |->
     s[CHOOSE i \in kept : Cardinality({m \in kept : m <= i}) = j]]

\* Variants of pop_scope: one scope too many is popped; the loans of the scope
\* that stays go too, or go instead; all loans stay; parameters' loans go too.
PoppedScopesAndOneMore(depth) == SubSeq(scopes, 1, depth - 1)
RetainedBelow(depth) == Filtered(active, {i \in DOMAIN active : active[i].scope < depth})
RetainedScoped(depth) == Filtered(active, {i \in DOMAIN active : active[i].scope \in 1..depth})

\* pop_scope, repeated until depth scopes are left: their loans go with them.
PoppedScopes(depth) == SubSeq(scopes, 1, depth)
Retained(depth) == Filtered(active, {i \in DOMAIN active : active[i].scope <= depth})

\* A loan of a local binding, an iteration or a match, made in scope `scope'.
ScopedLoan(locations, mode, n, source, path, scope, escape, home) ==
  [locations |-> locations, mode |-> mode, parameter |-> n, owner |-> source,
   path |-> path, scope |-> scope, escape |-> escape, home |-> home]

ParameterLoan(n, mode, value) ==
  ScopedLoan({Whole(value)}, mode, n, None, <<>>, NoScope, "None", 0)

\* if, try, catch and finally run their statements in a scope of their own.
EnterBlock ==
  /\ "block" \in Construct /\ InStatement
  /\ Len(scopes) < MaxScopes
  /\ scopes' = Pushed(scopes)
  /\ PushFrame(OpenFrame("block"))
  /\ UNCHANGED <<active, heap>>

\* The end of the innermost construct, normal or by error, return or break: the
\* scopes it opened are popped with their loans, and a call also truncates the
\* loans to its checkpoint.
Leave ==
  /\ frames # <<>> /\ Top.kind # "bind"
  /\ scopes' = PoppedScopes(Top.depth)
  /\ active' = IF Top.kind = "call"
               THEN SubSeq(Retained(Top.depth), 1, Top.checkpoint)
               ELSE Retained(Top.depth)
  /\ PopFrame
  /\ UNCHANGED heap

-----------------------------------------------------------------------------
(* Declarations and local references.                                        *)

\* n is value.
Declare(n, mutable, value) ==
  /\ "declare" \in Construct /\ InStatement
  /\ value \in Readable /\ ~Escapes(value)
  /\ n \notin DOMAIN scopes[Current]
  /\ scopes' = Define(scopes, n, Plain(value, mutable))
  /\ UNCHANGED <<active, heap, frames>>

\* The end of `n is ref owner[path]', the owner's value having been read when
\* the statement began and the tip when the last segment was.  The path is walked
\* again from the owner's value for the locations.  The loan is recorded before
\* the name is defined, so a name that is already taken leaves it behind: in an
\* inner construct the error unwinds the scope and the loan with it, a program
\* run from a file ends, and the interactive session goes on with the loan.
MakeReference(n, mutable, owner, value, chain, tip) ==
  LET mode == IF mutable THEN "Exclusive" ELSE "Shared"
      locations == ChainLocations(chain, tip)
  IN  /\ Len(active) < MaxLoans
      /\ Borrowable(chain, tip)
      /\ LocalAdmitted(mode, owner, locations, RootLocation(value, chain))
      /\ active' = Append(active,
                     ScopedLoan(locations, mode, n, owner, PathFrom(chain, 1),
                                Current, "None", BindingScope(owner)))
      /\ IF n \notin DOMAIN scopes[Current]
         THEN scopes' = Define(scopes, n, Reference(tip, mutable))
         ELSE "repl" \in Construct /\ Current = 1 /\ UNCHANGED scopes
      /\ UNCHANGED heap

\* A reference whose path is written with literals: nothing runs in between.
Borrow(n, mutable, owner, chain) ==
  /\ "borrow" \in Construct /\ InStatement
  /\ Bound(owner)
  /\ MakeReference(n, mutable, owner, Lookup(owner).val, chain, Tip(Lookup(owner).val, chain))
  /\ UNCHANGED frames

\* A reference whose path has calls in it: the owner is read first, and calls
\* may run before each segment is.
BeginBorrow(n, mutable, owner) ==
  /\ "borrow_call" \in Construct /\ InStatement
  /\ Bound(owner)
  /\ PushFrame([OpenFrame("eval") EXCEPT
                  !.op = IF mutable THEN "mut ref" ELSE "ref", !.name = n,
                  !.args = <<[source |-> owner, val |-> Lookup(owner).val]>>,
                  !.items = <<Lookup(owner).val>>])
  /\ UNCHANGED <<scopes, active, heap>>

\* A segment that is not the last: the slot is read from the value so far.
ReadSegment ==
  /\ Evaluating /\ Top.op \in {"ref", "mut ref"}
  /\ Len(Top.path) + 1 < MaxPath
  /\ Top.items[1] \in Object
  /\ \E slot \in DOMAIN heap[Top.items[1]] :
       SetTop([Top EXCEPT !.items = <<heap[Top.items[1]][slot]>>,
                          !.path = Append(@, <<KindOf(Top.items[1]), slot>>)])
  /\ UNCHANGED <<scopes, active, heap>>

\* The last segment, and then the whole path again from the owner's value.
FinishBorrow(chain) ==
  LET last == Top.items[1]
      slot == chain[Len(chain)].slot
  IN  /\ Evaluating /\ Top.op \in {"ref", "mut ref"}
      /\ Bound(Top.args[1].source)
      /\ chain # <<>> /\ last \in Object /\ slot \in DOMAIN heap[last]
      /\ PathFrom(chain, 1) = Append(Top.path, <<KindOf(last), slot>>)
      /\ MakeReference(Top.name, Top.op = "mut ref", Top.args[1].source,
                       Top.args[1].val, chain, heap[last][slot])
      /\ PopFrame

-----------------------------------------------------------------------------
(* Writes.  Each statement tests its guard first, then evaluates its index    *)
(* and value expressions (frame "eval", in which calls may run), then writes.  *)

BeginEval(op, n) ==
  /\ PushFrame([OpenFrame("eval") EXCEPT !.op = op, !.name = n])
  /\ UNCHANGED <<scopes, active, heap>>

\* n -> value for an ordinary binding.
BeginReassign(n) ==
  /\ "reassign" \in Construct /\ InStatement
  /\ ~IsReference(n) /\ IsMutable(n) /\ ReassignmentAllowed(n)
  /\ BeginEval("reassign", n)

FinishReassign(value) ==
  LET n == Top.name IN
  /\ Evaluating /\ Top.op = "reassign" /\ Bound(n)
  /\ value \in Readable /\ ~Escapes(value) /\ SameSort(value, Lookup(n).val)
  /\ FieldMutationAllowed(n)
  /\ scopes' = Assigned(n, value)
  /\ heap' = Persisted(heap, n, value)
  /\ PopFrame
  /\ UNCHANGED active

\* alias -> value for an exclusive reference to a slot.
BeginWriteThrough(n) ==
  /\ "write" \in Construct /\ InStatement
  /\ IsReference(n) /\ WritableLoans(n) # {}
  /\ BeginEval("write", n)

\* The owner is found by its name, the path is walked again from its value.
FinishWriteThrough(value) ==
  LET n == Top.name
      loan == active[Highest(WritableLoans(n))]
      owner == Lookup(loan.owner).val
  IN  /\ Evaluating /\ Top.op = "write"
      /\ value \in Readable /\ SameSort(value, Lookup(n).val)
      /\ WritableLoans(n) # {} /\ Bound(loan.owner) /\ Bound(n)
      /\ \E chain \in Chains(owner) :
           /\ PathFrom(chain, 1) = loan.path
           /\ heap' = Persisted([heap EXCEPT ![chain[Len(chain)].container]
                                               [chain[Len(chain)].slot] = value],
                                loan.owner, owner)
      /\ scopes' = Assigned(n, value)
      /\ PopFrame
      /\ UNCHANGED active

\* n[...] -> value, n add value and n remove value share their guard.
BeginMutation(op, n) ==
  /\ op \in Construct /\ op \in {"set", "add", "remove"} /\ InStatement
  /\ IsMutable(n) /\ MutationAllowed(n)
  /\ BeginEval(op, n)

FinishMutation(op, contents) ==
  /\ Evaluating /\ Top.op = op /\ Bound(Top.name)
  /\ heap' = Persisted(contents, Top.name, Lookup(Top.name).val)
  /\ PopFrame
  /\ UNCHANGED <<scopes, active>>

\* set_index_path: every container on the path is a collection, and the last
\* key of a Hash may be a new one.
FinishSetIndex(chain, value) ==
  /\ chain # <<>> /\ \A i \in DOMAIN chain : chain[i].container \in Collection
  /\ value \in Readable /\ ~Escapes(value)
  /\ SameSort(value, Tip(Lookup(Top.name).val, chain))
  /\ FinishMutation("set", [heap EXCEPT ![chain[Len(chain)].container]
                                          [chain[Len(chain)].slot] = value])

FinishInsert(chain, key, value) ==
  LET hash == Tip(Lookup(Top.name).val, chain) IN
  /\ \A i \in DOMAIN chain : chain[i].container \in Collection
  /\ hash \in Hash /\ key \notin DOMAIN heap[hash]
  /\ value \in Readable /\ ~Escapes(value)
  /\ \A k \in DOMAIN heap[hash] : SameSort(value, heap[hash][k])
  /\ FinishMutation("set",
       [heap EXCEPT ![hash] = [k \in DOMAIN @ \cup {key} |-> IF k = key THEN value ELSE @[k]]])

FinishAdd(value) ==
  LET list == Lookup(Top.name).val
      length == Cardinality(DOMAIN heap[list])
  IN  /\ list \in List /\ length < MaxList
      /\ value \in Readable /\ ~Escapes(value)
      /\ \A s \in DOMAIN heap[list] : SameSort(value, heap[list][s])
      /\ FinishMutation("add",
           [heap EXCEPT ![list] = [s \in 1..(length + 1) |->
                                     IF s <= length THEN @[s] ELSE value]])

\* The first element equal to the value, a scalar, is removed and the later
\* ones move up; slot 0 stands for a value the list does not hold.
FinishRemove(slot) ==
  LET list == Lookup(Top.name).val IN
  /\ list \in List /\ slot \in DOMAIN heap[list] \cup {0}
  /\ slot # 0 => /\ heap[list][slot] \in Scalar
                 /\ \A s \in 1..(slot - 1) : heap[list][s] # heap[list][slot]
  /\ FinishMutation("remove",
       IF slot = 0 THEN heap
       ELSE [heap EXCEPT ![list] = [s \in 1..(Cardinality(DOMAIN @) - 1) |->
                                      IF s < slot THEN @[s] ELSE @[s + 1]]])

\* Destructuring assignment: the values are there before the guards are
\* tested, and all the bindings change together.
DestructureReassign(values) ==
  LET names == DOMAIN values IN
  /\ "destructure" \in Construct /\ InStatement
  /\ names # {}
  /\ \A n \in names :
       /\ FieldMutationAllowed(n)
       /\ ~IsReference(n) /\ IsMutable(n)
       /\ ReassignmentAllowed(n)
       /\ SameSort(values[n], Lookup(n).val)
       /\ values[n] \in Readable /\ ~Escapes(values[n])
  /\ scopes' = [i \in DOMAIN scopes |->
                 [n \in DOMAIN scopes[i] |->
                    IF n \in names /\ i = BindingScope(n)
                    THEN [scopes[i][n] EXCEPT !.val = values[n]] ELSE scopes[i][n]]]
  /\ heap' = [id \in DOMAIN heap |->
               [s \in DOMAIN heap[id] |->
                  IF id \in Struct /\ s \in names /\ MessageFrames(s) # {} /\ MessageInstance(s) = id
                  THEN values[s] ELSE heap[id][s]]]
  /\ UNCHANGED <<active, frames>>

-----------------------------------------------------------------------------
(* Calls and messages.                                                       *)

Parameters(f) == Signature[f].params
Captures(f) == Signature[f].captures
CallDepth == Cardinality({k \in DOMAIN frames : frames[k].kind = "call"})

\* An argument is a name, or a value read without one.
ArgumentsFor(n) == {[source |-> n, val |-> Lookup(n).val]}
Anonymous(value) == [source |-> None, val |-> value]
Arguments ==
  (UNION {ArgumentsFor(n) : n \in {m \in Name : Bound(m)}})
    \cup {Anonymous(v) : v \in UNION {Contents(v) : v \in VisibleValues}}

\* The arguments are evaluated and have the declared types; the call goes on
\* to its `ref' parameters.
BeginCall(f, args, instance) ==
  /\ Len(args) = Len(Parameters(f))
  /\ \A i \in DOMAIN args : SortOf[args[i].val] = Parameters(f)[i].sort
  /\ CallDepth < MaxCallDepth
  /\ PushFrame([OpenFrame("bind") EXCEPT
                  !.function = f, !.args = args, !.instance = instance])
  /\ UNCHANGED <<scopes, active, heap>>

Call(f, args) ==
  /\ "call" \in Construct /\ InExpression
  /\ f \notin Message
  /\ \A i \in DOMAIN args : args[i] \in Arguments
  /\ BeginCall(f, args, None)

\* dispatch_message on a struct: its fields come first among the arguments,
\* and no argument has a source name.
Dispatch(s, m, supplied) ==
  /\ "message" \in Construct /\ InExpression
  /\ m \in Message /\ s \in Struct \cap VisibleValues
  /\ \A i \in 1..Signature[m].fields : Parameters(m)[i].name \in DOMAIN heap[s]
  /\ \A i \in DOMAIN active :
       active[i].mode = "Exclusive" =>
         \A l \in active[i].locations : l.identity \notin Reachable({s})
  /\ \A i \in DOMAIN supplied : supplied[i] \in Readable
  /\ LET fields == [i \in 1..Signature[m].fields |->
                      Anonymous(heap[s][Parameters(m)[i].name])]
         others == [i \in DOMAIN supplied |-> Anonymous(supplied[i])]
     IN  BeginCall(m, fields \o others, s)

NextParam == Parameters(Top.function)[Top.next]
NextArgument == Top.args[Top.next]
BindingParameter ==
  frames # <<>> /\ Top.kind = "bind" /\ Top.next <= Len(Parameters(Top.function))
ParameterMode == IF NextParam.mut THEN "Exclusive" ELSE "Shared"
Advance == SetTop([Top EXCEPT !.next = @ + 1])

BindValueParameter ==
  /\ BindingParameter /\ ~NextParam.ref
  /\ Advance
  /\ UNCHANGED <<scopes, active, heap>>

BindReferenceParameter ==
  /\ BindingParameter /\ NextParam.ref
  /\ ParameterAdmitted(ParameterMode, NextArgument.source, NextArgument.val)
  /\ Len(active) < MaxLoans
  /\ active' = Append(active, ParameterLoan(NextParam.name, ParameterMode,
                                            NextArgument.val))
  /\ Advance
  /\ UNCHANGED <<scopes, heap>>

\* Variants of the failing call: the loans made for it stay, or all loans go.
RejectWithoutRelease ==
  /\ BindingParameter /\ NextParam.ref
  /\ ~ParameterAdmitted(ParameterMode, NextArgument.source, NextArgument.val)
  /\ PopFrame
  /\ UNCHANGED <<scopes, active, heap>>

RejectReleasingAll ==
  /\ BindingParameter /\ NextParam.ref
  /\ ~ParameterAdmitted(ParameterMode, NextArgument.source, NextArgument.val)
  /\ active' = <<>>
  /\ PopFrame
  /\ UNCHANGED <<scopes, heap>>

\* A parameter that cannot be borrowed fails the call: the loans of the
\* parameters before it are truncated.
RejectReferenceParameter ==
  /\ BindingParameter /\ NextParam.ref
  /\ ~ParameterAdmitted(ParameterMode, NextArgument.source, NextArgument.val)
  /\ active' = SubSeq(active, 1, Top.checkpoint)
  /\ PopFrame
  /\ UNCHANGED <<scopes, heap>>

\* The body starts: a scope for the captured values, if any, and one for the
\* parameters; a message becomes the running message of its instance.
EnterBody ==
  /\ frames # <<>> /\ Top.kind = "bind"
  /\ Top.next > Len(Parameters(Top.function))
  /\ LET captured == Captures(Top.function)
         outer == IF DOMAIN captured = {} THEN scopes
                  ELSE Append(scopes, [n \in DOMAIN captured |-> Plain(captured[n], FALSE)])
         params == Parameters(Top.function)
         bound(i) == [val |-> Top.args[i].val, mut |-> params[i].mut, ref |-> params[i].ref,
                      excl |-> params[i].ref /\ params[i].mut]
         inner == [n \in {params[i].name : i \in DOMAIN params} |->
                     bound(CHOOSE i \in DOMAIN params : params[i].name = n)]
     IN  /\ Len(outer) < MaxScopes
         /\ scopes' = Append(outer, inner)
         /\ SetTop([Top EXCEPT !.kind = "call", !.body = Len(outer) + 1])
  /\ UNCHANGED <<active, heap>>

-----------------------------------------------------------------------------
(* Loops and matches.                                                        *)

\* The elements a loop walks: by index, or in some order of the keys (the
\* code's is the order of the strings).
Elements(id) ==
  IF id \in List THEN {heap[id]}
  ELSE {[i \in DOMAIN order |-> heap[id][order[i]]] :
          order \in {q \in [1..Cardinality(DOMAIN heap[id]) -> DOMAIN heap[id]] :
                       \A i, j \in DOMAIN q : q[i] = q[j] => i = j}}

\* The loan of a `for ref' and of a match binding covers everything the
\* value reaches.
OpenShared(kind, escape, n, source) ==
  LET locations == {Whole(id) : id \in Reachable({Lookup(source).val})} IN
  /\ Bound(source) /\ Lookup(source).val \in Collection
  /\ Len(scopes) < MaxScopes /\ Len(active) < MaxLoans
  /\ SharedScanAdmitted(source, locations)
  /\ active' = Append(active, ScopedLoan(locations, "Shared", n, source, <<>>,
                                         Current + 1, escape, BindingScope(source)))
  /\ \E items \in Elements(Lookup(source).val) :
       PushFrame([OpenFrame(kind) EXCEPT !.name = n, !.items = items])
  /\ UNCHANGED heap

\* for ref n in source: the elements are snapshotted, the loan is held in the
\* loop's scope.
BeginForRef(n, source) ==
  /\ "for_ref" \in Construct /\ InStatement
  /\ OpenShared("loop", "Iteration", n, source)
  /\ scopes' = Pushed(scopes)

\* Each element gets a scope of its own, left before the next one.
NextReferenceItem ==
  /\ frames # <<>> /\ Top.kind = "loop" /\ Top.items # <<>>
  /\ Len(scopes) < MaxScopes
  /\ scopes' = Append(scopes, [n \in {Top.name} |-> Reference(Head(Top.items), FALSE)])
  /\ frames' = Append([frames EXCEPT ![Len(frames)].items = Tail(@)], OpenFrame("block"))
  /\ UNCHANGED <<active, heap>>

\* match source: ref n => ...
BeginMatchRef(n, source) ==
  /\ "match_ref" \in Construct /\ InExpression
  /\ OpenShared("match", "MatchPattern", n, source)
  /\ scopes' = Append(scopes, [m \in {n} |-> Reference(Lookup(source).val, FALSE)])

\* for n in source, by value: one scope for the whole loop, the variable is
\* assigned anew for each element without any test of loans.
BeginFor(n, mutable, source) ==
  /\ "for" \in Construct /\ InStatement
  /\ Bound(source) /\ Lookup(source).val \in Collection
  /\ Len(scopes) < MaxScopes
  /\ DOMAIN heap[Lookup(source).val] # {}
  /\ \E items \in Elements(Lookup(source).val) :
     /\ scopes' = Append(scopes, [m \in {n} |-> Plain(Head(items), mutable)])
     /\ PushFrame([OpenFrame("each") EXCEPT !.name = n, !.items = Tail(items)])
  /\ UNCHANGED <<active, heap>>

NextItem ==
  /\ frames # <<>> /\ Top.kind = "each" /\ Top.items # <<>>
  /\ scopes' = [scopes EXCEPT ![Current][Top.name].val = Head(Top.items)]
  /\ SetTop([Top EXCEPT !.items = Tail(@)])
  /\ UNCHANGED <<active, heap>>

-----------------------------------------------------------------------------
Init ==
  /\ scopes = <<InitialScope>>
  /\ active = <<>>
  /\ heap = InitialHeap
  /\ frames = <<>>

Arity(f) == Len(Parameters(f))

\* The statements of a program.  A guard that does not depend on the chosen value
\* is repeated before the choice, so that TLC need not enumerate values in vain.
References ==
  \/ \E n, owner \in Name, mutable \in BOOLEAN :
       \/ /\ "borrow" \in Construct /\ Bound(owner) /\ InStatement
          /\ \E chain \in Chains(Lookup(owner).val) : Borrow(n, mutable, owner, chain)
       \/ BeginBorrow(n, mutable, owner)
  \/ /\ Evaluating /\ Top.args # <<>> /\ Top.items # <<>>
     /\ \/ ReadSegment
        \/ \E chain \in Chains(Top.args[1].val) : FinishBorrow(chain)

Writes ==
  \/ \E n \in Name : \/ BeginReassign(n)
                    \/ BeginWriteThrough(n)
                    \/ \E op \in {"set", "add", "remove"} : BeginMutation(op, n)
  \/ /\ Evaluating /\ Top.op \notin {"ref", "mut ref", "remove"}
     /\ \E value \in Readable :
          \/ FinishReassign(value)
          \/ FinishWriteThrough(value)
          \/ /\ Top.op = "set"
             /\ \E chain \in Chains(Lookup(Top.name).val) :
                  \/ FinishSetIndex(chain, value)
                  \/ \E key \in Key : FinishInsert(chain, key, value)
          \/ Top.op = "add" /\ FinishAdd(value)
  \/ Evaluating /\ Top.op = "remove" /\ \E slot \in 0..MaxList : FinishRemove(slot)
  \/ /\ "destructure" \in Construct
     /\ \E names \in SUBSET {n \in Name : Bound(n) /\ ~IsReference(n)} :
          /\ Cardinality(names) <= 2
          /\ \E values \in [names -> Readable] : DestructureReassign(values)

Calls ==
  \/ \E f \in Function \ Message : \E args \in [1..Arity(f) -> Arguments] : Call(f, args)
  \/ \E s \in Struct, m \in Message :
       \E supplied \in [1..(Arity(m) - Signature[m].fields) -> Readable] : Dispatch(s, m, supplied)
  \/ BindValueParameter
  \/ BindReferenceParameter
  \/ RejectReferenceParameter
  \/ EnterBody

Loops ==
  \/ \E n, source \in Name :
       \/ BeginForRef(n, source)
       \/ BeginMatchRef(n, source)
       \/ \E mutable \in BOOLEAN : BeginFor(n, mutable, source)
  \/ NextReferenceItem
  \/ NextItem

Next ==
  \/ EnterBlock
  \/ Leave
  \/ /\ "declare" \in Construct
     /\ \E n \in Name, mutable \in BOOLEAN, value \in Readable : Declare(n, mutable, value)
  \/ References
  \/ Writes
  \/ Calls
  \/ Loops

Spec == Init /\ [][Next]_vars

-----------------------------------------------------------------------------
(* Properties.                                                               *)

\* The state has the shape the interpreter's structures give it.
TypeOK ==
  /\ scopes # <<>> /\ \A i \in DOMAIN scopes : ScopeOK(scopes[i])
  /\ active \in Seq(Loan)
  /\ HeapOK(heap)
  /\ frames \in Seq(Frame)

\* However a call ends - return, error in its body, or a parameter that is
\* refused after others were borrowed - it gives its caller back exactly the
\* loans the caller had: while the call is open, the loans below its checkpoint
\* (invoke_function_value_with_context) are the ones that were there before.
CallsPreserveLoans ==
  \A k \in DOMAIN frames :
    /\ frames[k].checkpoint <= Len(active)
    /\ SubSeq(active, 1, frames[k].checkpoint) = frames[k].loans

\* No loan outlives what it hangs on: the scope that holds it is still open,
\* the owner is still declared where it was found, and a parameter's loan
\* belongs to a call that has not returned (pop_scope against truncate).
NoDanglingLoan ==
  \A i \in DOMAIN active :
    LET loan == active[i] IN
    /\ loan.scope <= Len(scopes)
    /\ loan.scope # NoScope =>
         loan.home \in 1..loan.scope /\ loan.owner \in DOMAIN scopes[loan.home]
    /\ loan.scope = NoScope =>
         \E k \in DOMAIN frames : frames[k].kind \in {"bind", "call"} /\ frames[k].checkpoint < i

\* The loan of the reference n bound in scope i.
BacksReference(loan, i, n) ==
  /\ loan.parameter = n
  /\ (loan.mode = "Exclusive") = scopes[i][n].excl
  /\ \/ loan.scope \in {i, NoScope}
     \/ loan.scope = i - 1 /\ loan.escape = "Iteration"

\* A reference can be used exactly as long as its loan: every name bound as a
\* reference, in any scope, is backed by an active loan of its own mode.
ReferencesAreLoaned ==
  \A i \in DOMAIN scopes : \A n \in DOMAIN scopes[i] :
    scopes[i][n].ref => \E k \in DOMAIN active : BacksReference(active[k], i, n)

\* Loans end in the reverse order of their beginning: no step takes a loan out
\* of the middle of the stack, although scopes retain and calls truncate.
IsPrefixOf(s, t) == Len(s) <= Len(t) /\ s = SubSeq(t, 1, Len(s))
ReleasedInOrder ==
  [][IsPrefixOf(active, active') \/ IsPrefixOf(active', active)]_vars

\* The owner of a local loan stays bound to the object that was lent: no
\* reassignment, destructuring or write through an alias redirects it.
OwnerPinned ==
  \A i \in DOMAIN active :
    LET loan == active[i] IN
    loan.scope # NoScope =>
      \E l \in loan.locations : l.identity = scopes[loan.home][loan.owner].val

\* The path of every local loan names a slot below its owner.
PathsResolve ==
  \A i \in DOMAIN active :
    LET loan == active[i] IN
    loan.scope # NoScope =>
      \E chain \in Chains(scopes[loan.home][loan.owner].val) : PathFrom(chain, 1) = loan.path

\* No exclusive loan of a whole object is newer than one of its slots.  The
\* code admits such a loan where an exclusive reference is borrowed a second
\* time, and the newer loan may change the object (MutationAllowed).
WholesBeforeSlots ==
  \A i, j \in DOMAIN active :
    (i < j /\ active[i].mode = "Exclusive" /\ active[j].mode = "Exclusive") =>
      ~\E l \in active[i].locations, w \in active[j].locations :
         l.identity = w.identity /\ l.path # <<>> /\ w.path = <<>>

\* The path of a local loan keeps naming a slot below its owner: unless an
\* exclusive reference was borrowed twice, no removal, insertion or replacement
\* invalidates it (docs/memory-model.md, "avoids invalidating index-based paths
\* or silently replacing a nested parent").
LoanedPathsResolve ==
  [][(PathsResolve /\ WholesBeforeSlots) => PathsResolve']_vars

\* A field lent to a local reference changes only by a write through a
\* reference, whatever messages run meanwhile (docs/memory-model.md, "actual
\* message writes are checked against the field or collection they mutate").
LentFieldsKept ==
  [][(Evaluating => Top.op # "write") =>
       \A i \in DOMAIN active \cap DOMAIN active' :
         \A l \in active[i].locations :
           (l.identity \in Struct /\ l.path # <<>>) =>
             heap'[l.identity][l.path[1][2]] = heap[l.identity][l.path[1][2]]]_vars
=============================================================================
