------------------------------ MODULE CsvFlow ------------------------------
(* What a checkpointed Flow promises: what is committed is the output of the  *)
(* records before its position, it grows batch by batch, no interruption      *)
(* takes any of it back, and what is delivered in the end is what an          *)
(* uninterrupted Flow over one version of the input writes.  Only damage to   *)
(* the files (counted) may take committed output away.                        *)
EXTENDS Integers, Sequences

CONSTANTS
  Version,    \* versions of the input file
  Records,    \* the records of each version
  Interval,   \* records in a batch
  Image,      \* Image[v][n]: the output of the first n records of v
  Nothing     \* no output is delivered

VARIABLES
  committed,  \* the position and the output that survive an interruption
  delivered,  \* the output of the Flow, if it is complete
  faults      \* damage done so far

vars == <<committed, delivered, faults>>

Start == [position |-> 0, output |-> <<>>]

Init ==
  /\ committed = Start
  /\ delivered = Nothing
  /\ faults = 0

\* A batch is complete.
Commit ==
  /\ \E v \in Version : \E n \in DOMAIN Records[v] :
       /\ n > committed.position /\ n % Interval = 0
       /\ committed.output = Image[v][committed.position]
       /\ committed' = [position |-> n, output |-> Image[v][n]]
  /\ UNCHANGED <<delivered, faults>>

\* All records are done: the output is delivered, nothing is left to resume.
Deliver ==
  /\ committed' = Start
  /\ \E v \in Version : delivered' = Image[v][Len(Records[v])]
  /\ UNCHANGED faults

\* The Flow is run again.
Again ==
  /\ delivered' = Nothing
  /\ UNCHANGED <<committed, faults>>

\* Whatever happens to the files from outside.
Damage == faults' = faults + 1

Next == Commit \/ Deliver \/ Again \/ Damage

Spec == Init /\ [][Next]_vars
=============================================================================
