-------------------------- MODULE BorrowLocations --------------------------
(* The places a loan of the interpreter covers, and when two places overlap  *)
(* (src/evaluator/objects.rs).  A location is an object identity and a path  *)
(* of segments below it; a segment is a pair <<kind, slot>> whose kind is    *)
(* "Index" (Array, List), "Key" (Hash) or "Field" (Struct).                  *)
EXTENDS Naturals, Sequences

CONSTANTS Identity,       \* identities of collections and struct instances
          Segment         \* pairs of a kind and an index, key or field name

Location == [identity : Identity, path : Seq(Segment)]

\* The identity of an object with nothing below it: the whole object.
Whole(id) == [identity |-> id, path |-> <<>>]

\* The positions at which both paths have a segment (zip in the code).
Common(left, right) ==
  {i \in 1..Len(left.path) : i <= Len(right.path)}

\* Two locations overlap when they belong to one object and the first
\* segments that differ, if any, are of different kinds; equal up to the
\* shorter path is overlap, and two different indices, keys or fields are not.
Overlap(left, right) ==
  /\ left.identity = right.identity
  /\ \A i \in Common(left, right) :
       \/ left.path[i] = right.path[i]
       \/ left.path[i][1] # right.path[i][1]
       \/ \E j \in 1..(i - 1) : left.path[j] # right.path[j]

\* An existing location covers a candidate: same object, and its path is a
\* prefix of the candidate's (the test of valid_reborrow).
Covers(existing, candidate) ==
  /\ existing.identity = candidate.identity
  /\ Len(existing.path) <= Len(candidate.path)
  /\ \A i \in 1..Len(existing.path) : existing.path[i] = candidate.path[i]

\* Some location of one set overlaps some location of the other.
AnyOverlap(lefts, rights) ==
  \E left \in lefts, right \in rights : Overlap(left, right)
=============================================================================
