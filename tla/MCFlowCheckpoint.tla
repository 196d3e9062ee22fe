-------------------------- MODULE MCFlowCheckpoint --------------------------
(* Two inputs: one that can be completed, with a record that is dropped, and  *)
(* a shorter one whose last record fails.                                     *)
EXTENDS FlowCheckpoint

MCRecords == [v \in Version |-> IF v = "old" THEN <<"a", "skip", "b", "c">> ELSE <<"c", "a", "bad">>]

MCStep ==
  [r \in Record |-> CASE r = "skip" -> Dropped [] r = "bad" -> Failed [] OTHER -> r]

MCImage ==
  [v \in Version |->
     LET image[n \in 0..Len(Records[v])] ==
           IF n = 0 THEN <<>> ELSE image[n - 1] \o Text(Records[v][n])
     IN  image]
=============================================================================
