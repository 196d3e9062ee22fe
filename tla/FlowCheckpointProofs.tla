------------------------ MODULE FlowCheckpointProofs ------------------------
(* For every input, batch size and number of interruptions and faults: a      *)
(* checkpoint that is accepted is exact, a completed output is complete, and  *)
(* the Flow implements CsvFlow, if the input is replaced only between runs.   *)
EXTENDS FlowCheckpoint, TLAPS

\* The constants are as assumed, and the input stays during a run.
StableInput == ~ReplaceWhileRunning

Running == {"reading", "row", "commit", "publish", "ending"}
Last(v) == Len(Records[v])

\* A checkpoint names a position and the output of the records before it.
Exact(c) == c.position <= Last(c.version) /\ c.output = Image[c.version][c.position]

CheckpointsExact == \A c \in {checkpoint, previous, flow.pending} : c # None => Exact(c)

\* What a running Flow has written.
Done == IF flow.index < flow.resume THEN flow.resume ELSE flow.index
Written ==
  IF flow.at = "row" THEN Append(Image[flow.reading][flow.index], Step[NextRecord])
  ELSE Image[flow.reading][Done]

RunExact ==
  flow.at \in Running =>
    /\ flow.index <= Last(flow.reading) /\ flow.resume <= Last(flow.reading)
    /\ output = Written
    /\ checkpoint # None => Usable /\ checkpoint.position <= Done

StepExact ==
  /\ flow.at # "idle" => flow.reading = input /\ flow.outcome = "running"
  /\ flow.at = "row" => More /\ flow.index >= flow.resume /\ Step[NextRecord] \in Row
  /\ flow.at \in {"commit", "publish"} =>
       /\ flow.index > flow.resume /\ flow.index % Interval = 0
       /\ checkpoint # None => checkpoint.position < flow.index
  /\ flow.at = "publish" =>
       flow.pending # None /\ flow.pending.position = flow.index /\ flow.pending.version = input
  /\ flow.at = "ending" => flow.index = Last(flow.reading) /\ flow.index >= flow.resume

IInv == TypeOK /\ CheckpointsExact /\ RunExact /\ StepExact

-----------------------------------------------------------------------------
(* Sequences.                                                                *)

\* A row is written in two steps; together they append it.
LEMMA AppendTwice ==
  ASSUME NEW S, NEW s \in Seq(S), NEW a, NEW b
  PROVE  Append(Append(s, a), b) = s \o <<a, b>>
BY SMT

\* What is appended leaves prefixes alone.
LEMMA PrefixOfAppend ==
  ASSUME NEW S, NEW s \in Seq(S), NEW t \in Seq(S), NEW a \in S, IsPrefixOf(s, t)
  PROVE  IsPrefixOf(s, Append(t, a))
BY DEF IsPrefixOf

\* A sequence cut to the length of a prefix is that prefix.
LEMMA CutToPrefix ==
  ASSUME NEW S, NEW s \in Seq(S), NEW t \in Seq(S), IsPrefixOf(s, t)
  PROVE  SubSeq(t, 1, Len(s)) = s /\ IsPrefixOf(s, s)
BY DEF IsPrefixOf

\* A damaged output is still a sequence of units.
LEMMA DamagedIsOutput ==
  ASSUME output \in Seq(Unit)
  PROVE  Damaged \subseteq Seq(Unit)
<1> SUFFICES ASSUME NEW kept \in 0..Len(output), NEW junk \in 0..1
             PROVE  SubSeq(output, 1, kept) \o [i \in 1..junk |-> Garbage] \in Seq(Unit)
  BY DEF Damaged
<1>1. SubSeq(output, 1, kept) \in Seq(Unit)
  OBVIOUS
<1>2. [i \in 1..junk |-> Garbage] \in Seq(Unit)
  <2>1. Garbage \in Unit
    BY DEF Unit
  <2> QED BY <2>1
<1> QED BY <1>1, <1>2

-----------------------------------------------------------------------------
(* The invariant.                                                            *)

\* The output of n + 1 records is that of n with the text of the next one.
LEMMA ImageFacts ==
  ASSUME NEW v \in Version
  PROVE  /\ Records[v] \in Seq(Record) /\ Last(v) \in Nat
         /\ Image[v][0] = <<>>
         /\ \A n \in 0..Last(v) : Image[v][n] \in Seq(Unit)
         /\ \A n \in 0..(Last(v) - 1) :
              Image[v][n + 1] = Image[v][n] \o Text(Records[v][n + 1])
<1>1. Records[v] \in Seq(Record) /\ Last(v) \in Nat
  BY FlowAssumption DEF Last
<1>2. /\ Image[v] \in [0..Last(v) -> Seq(Unit)] /\ Image[v][0] = <<>>
      /\ \A n \in 1..Last(v) : Image[v][n] = Image[v][n - 1] \o Text(Records[v][n])
  BY ImageAssumption DEF Last
<1>3. ASSUME NEW n \in 0..(Last(v) - 1)
      PROVE  Image[v][n + 1] = Image[v][n] \o Text(Records[v][n + 1])
  <2>1. n + 1 \in 1..Last(v) /\ (n + 1) - 1 = n
    BY <1>1
  <2> QED BY <2>1, <1>2
<1> QED BY <1>1, <1>2, <1>3

\* It holds at the start.
LEMMA InitExact == Init => IInv
<1> SUFFICES ASSUME Init PROVE IInv
  OBVIOUS
<1>1. TypeOK
  BY FlowAssumption DEF Init, TypeOK, Flow, At
<1> QED BY <1>1 DEF Init, IInv, CheckpointsExact, RunExact, StepExact, Running

\* A Flow that ends leaves the files alone and has no state of its own.
LEMMA EndKeeps ==
  ASSUME IInv, NEW outcome \in {"rejected", "failed", "interrupted", "done"},
         flow' = Ended(outcome),
         UNCHANGED <<input, previous, faults>>, interrupts' \in 0..MaxInterrupts,
         output' = output, checkpoint' \in {checkpoint, previous, None}
  PROVE  IInv'
<1>1. TypeOK'
  BY DEF IInv, TypeOK, Flow, At, Ended
<1>2. flow'.at = "idle" /\ flow'.pending = None
  BY DEF IInv, TypeOK, Flow, Ended
<1> QED BY <1>1, <1>2 DEF IInv, CheckpointsExact, Exact, RunExact, StepExact, Running

\* Opening reads the version at the path and nothing else.
LEMMA OpenExact == ASSUME IInv, Open PROVE IInv'
<1>1. TypeOK'
  BY DEF IInv, TypeOK, Open, Flow, At
<1>2. flow'.at = "opened" /\ flow'.reading = input /\ flow'.outcome = "running"
      /\ flow'.pending = flow.pending
  BY DEF IInv, TypeOK, Open, Flow
<1> QED BY <1>1, <1>2 DEF IInv, CheckpointsExact, Exact, RunExact, StepExact, Running, Open

\* A new output is empty, as is the output of no records.
LEMMA CreateExact == ASSUME IInv, CreateOutput PROVE IInv'
<1>1. flow' = [flow EXCEPT !.at = "reading", !.index = 0, !.resume = 0] /\ output' = <<>>
  BY DEF CreateOutput, Reading
<1>2. TypeOK'
  <2>1. flow' \in Flow
    BY <1>1 DEF IInv, TypeOK, Flow, At
  <2>2. output' \in Seq(Unit)
    BY <1>1
  <2> QED BY <2>1, <2>2 DEF IInv, TypeOK, CreateOutput
<1>3. /\ flow'.at = "reading" /\ flow'.index = 0 /\ flow'.resume = 0
      /\ flow'.reading = flow.reading /\ flow'.pending = flow.pending
      /\ flow'.outcome = flow.outcome
  BY <1>1 DEF IInv, TypeOK, Flow
<1>4. flow.reading \in Version /\ flow.at = "opened" /\ checkpoint' = None
  BY DEF IInv, TypeOK, Flow, CreateOutput
<1>5. CheckpointsExact' /\ StepExact'
  BY <1>3, <1>4 DEF IInv, CheckpointsExact, Exact, StepExact, CreateOutput
<1>6. Image[flow.reading][0] = <<>> /\ Last(flow.reading) \in Nat
  BY <1>4, ImageFacts
<1>7. RunExact'
  BY <1>1, <1>3, <1>4, <1>6 DEF RunExact, Written, Done, Last
<1> QED BY <1>2, <1>5, <1>7 DEF IInv

\* Cut to the committed length, the output is that of the records before the
\* position.
LEMMA ResumeExact == ASSUME IInv, ResumeOutput PROVE IInv'
<1>1. /\ checkpoint \in Checkpoint /\ Exact(checkpoint) /\ checkpoint.version = input
      /\ IsPrefixOf(checkpoint.output, output) /\ checkpoint.output \in Seq(Unit)
      /\ checkpoint.position \in Nat
  BY DEF IInv, TypeOK, CheckpointsExact, ResumeOutput, Usable, Checkpoint
<1>2. output \in Seq(Unit)
  BY DEF IInv, TypeOK
<1>3. output' = checkpoint.output /\ IsPrefixOf(checkpoint.output, output')
  BY <1>1, <1>2, CutToPrefix DEF ResumeOutput
<1>4. flow' = [flow EXCEPT !.at = "reading", !.index = 0, !.resume = checkpoint.position]
  BY DEF ResumeOutput, Reading
<1>5. TypeOK'
  <2>1. flow' \in Flow
    BY <1>1, <1>4 DEF IInv, TypeOK, Flow, At
  <2> QED BY <1>1, <1>3, <2>1 DEF IInv, TypeOK, ResumeOutput
<1>6. /\ flow'.at = "reading" /\ flow'.index = 0 /\ flow'.resume = checkpoint.position
      /\ flow'.reading = input /\ flow'.pending = flow.pending
      /\ flow'.outcome = flow.outcome
  BY <1>4 DEF IInv, TypeOK, Flow, StepExact, ResumeOutput
<1>7. CheckpointsExact' /\ StepExact'
  BY <1>6 DEF IInv, CheckpointsExact, Exact, StepExact, ResumeOutput
<1>8. Done' = checkpoint.position
  BY <1>1, <1>6 DEF Done
<1>9. Written' = Image[input][checkpoint.position]
  BY <1>6, <1>8 DEF Written
<1>10. input \in Version /\ Last(input) \in Nat
  BY ImageFacts DEF IInv, TypeOK
<1>11. RunExact'
  BY <1>1, <1>3, <1>6, <1>8, <1>9, <1>10 DEF RunExact, Exact, Usable, ResumeOutput, Last
<1> QED BY <1>5, <1>7, <1>11 DEF IInv

\* A skipped record's output is in the file already.
LEMMA SkipExact == ASSUME IInv, SkipRecord PROVE IInv'
<1>1. TypeOK'
  BY DEF IInv, TypeOK, SkipRecord, Flow, At
<1>2. /\ flow'.at = "reading" /\ flow'.index = flow.index + 1 /\ flow'.resume = flow.resume
      /\ flow'.reading = flow.reading /\ flow'.pending = flow.pending
      /\ flow'.outcome = flow.outcome /\ flow.at = "reading"
  BY DEF IInv, TypeOK, Flow, SkipRecord
<1>3. flow.index \in Nat /\ flow.resume \in Nat /\ flow.index < flow.resume
      /\ flow.index < Last(flow.reading) /\ Last(flow.reading) \in Nat
  BY ImageFacts DEF IInv, TypeOK, Flow, SkipRecord, More, Last
<1>4. Done' = Done
  BY <1>2, <1>3 DEF Done
<1>5. CheckpointsExact' /\ StepExact'
  BY <1>2 DEF IInv, CheckpointsExact, Exact, StepExact, SkipRecord
<1>6. Written' = Written
  BY <1>2, <1>4 DEF Written
<1>7. RunExact'
  BY <1>2, <1>3, <1>4, <1>6 DEF IInv, RunExact, Running, Usable, SkipRecord, Last
<1> QED BY <1>1, <1>5, <1>7 DEF IInv

\* A record is counted when the output has its text.
LEMMA CountExact ==
  ASSUME IInv, flow.at \in {"reading", "row"}, More, flow.index >= flow.resume,
         flow' = Counted, output' = Image[flow.reading][flow.index + 1],
         output' \in Seq(Unit), checkpoint # None => IsPrefixOf(checkpoint.output, output'),
         UNCHANGED <<input, checkpoint, previous, interrupts, faults>>
  PROVE  IInv'
<1>1. TypeOK'
  <2>1. PICK at \in {"commit", "reading"} : flow' = [flow EXCEPT !.index = @ + 1, !.at = at]
    BY DEF Counted
  <2>2. flow \in Flow /\ flow.index + 1 \in Nat /\ at \in At
    BY DEF IInv, TypeOK, Flow, At
  <2>3. flow' \in Flow
    BY <2>1, <2>2 DEF Flow
  <2> QED BY <2>3 DEF IInv, TypeOK
<1>2. /\ flow'.at = IF (flow.index + 1) % Interval = 0 THEN "commit" ELSE "reading"
      /\ flow'.index = flow.index + 1 /\ flow'.resume = flow.resume
      /\ flow'.reading = flow.reading /\ flow'.pending = flow.pending
      /\ flow'.outcome = flow.outcome
  BY DEF IInv, TypeOK, Flow, Counted
<1>3. flow.index \in Nat /\ flow.resume \in Nat
      /\ flow.index < Last(flow.reading) /\ Last(flow.reading) \in Nat
  BY ImageFacts DEF IInv, TypeOK, Flow, More, Last
<1>4. Done = flow.index /\ Done' = flow.index + 1
  BY <1>2, <1>3 DEF Done
<1>5. Written' = output'
  BY <1>2, <1>4 DEF Written
<1>6. checkpoint # None =>
        Usable' /\ checkpoint.position \in Nat /\ checkpoint.position <= flow.index
  BY <1>4 DEF IInv, TypeOK, Checkpoint, RunExact, Running, Usable
<1>7. RunExact'
  BY <1>2, <1>3, <1>4, <1>5, <1>6 DEF IInv, RunExact, Running, Last
<1>8. StepExact'
  BY <1>2, <1>3, <1>6 DEF IInv, StepExact
<1>9. CheckpointsExact'
  BY <1>2 DEF IInv, CheckpointsExact, Exact
<1> QED BY <1>1, <1>7, <1>8, <1>9 DEF IInv

\* The record that is evaluated, and the output before it.
LEMMA AtRecord ==
  ASSUME IInv, flow.at \in {"reading", "row"}, More, flow.index >= flow.resume
  PROVE  /\ flow.reading \in Version /\ NextRecord \in Record
         /\ flow.index \in 0..(Last(flow.reading) - 1) /\ Last(flow.reading) \in Nat
         /\ Image[flow.reading][flow.index] \in Seq(Unit)
         /\ Image[flow.reading][flow.index + 1] =
              Image[flow.reading][flow.index] \o Text(NextRecord)
         /\ flow.at = "reading" => output = Image[flow.reading][flow.index]
         /\ checkpoint # None =>
              checkpoint.output \in Seq(Unit) /\ IsPrefixOf(checkpoint.output, output)
<1>1. flow.reading \in Version /\ flow.index \in Nat /\ flow.resume \in Nat
  BY DEF IInv, TypeOK, Flow
<1>2. Records[flow.reading] \in Seq(Record) /\ Last(flow.reading) \in Nat
  BY <1>1, ImageFacts
<1>3. flow.index \in 0..(Last(flow.reading) - 1)
  BY <1>1, <1>2 DEF More, Last
<1>4. NextRecord \in Record
  BY <1>2, <1>3 DEF NextRecord, Last
<1>5. /\ Image[flow.reading][flow.index] \in Seq(Unit)
      /\ Image[flow.reading][flow.index + 1] =
           Image[flow.reading][flow.index] \o Text(NextRecord)
  <2>1. /\ \A n \in 0..Last(flow.reading) : Image[flow.reading][n] \in Seq(Unit)
        /\ \A n \in 0..(Last(flow.reading) - 1) :
             Image[flow.reading][n + 1]
               = Image[flow.reading][n] \o Text(Records[flow.reading][n + 1])
    BY <1>1, ImageFacts
  <2>2. flow.index \in 0..Last(flow.reading)
    BY <1>2, <1>3
  <2> QED BY <1>3, <2>1, <2>2 DEF NextRecord
<1>6. flow.at = "reading" => output = Image[flow.reading][flow.index]
  BY <1>1 DEF IInv, RunExact, Running, Written, Done
<1>7. checkpoint # None =>
        checkpoint.output \in Seq(Unit) /\ IsPrefixOf(checkpoint.output, output)
  BY DEF IInv, TypeOK, Checkpoint, RunExact, Running, Usable
<1> QED BY <1>1, <1>2, <1>3, <1>4, <1>5, <1>6, <1>7

\* A dropped record adds nothing.
LEMMA DropExact == ASSUME IInv, DropRecord PROVE IInv'
<1>1. More /\ flow.at = "reading" /\ flow.index >= flow.resume
  BY DEF DropRecord, Evaluating
<1>2. Text(NextRecord) = <<>>
  BY DEF DropRecord, Text
<1>3. output' = Image[flow.reading][flow.index + 1] /\ output' \in Seq(Unit)
  BY <1>1, <1>2, AtRecord DEF DropRecord
<1>4. checkpoint # None => IsPrefixOf(checkpoint.output, output')
  BY <1>1, AtRecord DEF DropRecord
<1> QED BY <1>1, <1>3, <1>4, CountExact DEF DropRecord

\* A row without its end of line is not counted.
LEMMA WriteExact == ASSUME IInv, WriteRow PROVE IInv'
<1>1. More /\ flow.at = "reading" /\ flow.index >= flow.resume /\ Step[NextRecord] \in Row
  BY DEF WriteRow, Evaluating
<1>2. /\ output = Image[flow.reading][flow.index] /\ output \in Seq(Unit)
      /\ output' = Append(output, Step[NextRecord]) /\ Step[NextRecord] \in Unit
  BY <1>1, AtRecord DEF WriteRow, Unit
<1>3. TypeOK'
  <2>1. flow' \in Flow
    BY DEF IInv, TypeOK, Flow, At, WriteRow
  <2> QED BY <1>2, <2>1 DEF IInv, TypeOK, WriteRow
<1>4. /\ flow'.at = "row" /\ flow'.index = flow.index /\ flow'.resume = flow.resume
      /\ flow'.reading = flow.reading /\ flow'.pending = flow.pending
      /\ flow'.outcome = flow.outcome
  BY DEF IInv, TypeOK, Flow, WriteRow
<1>5. checkpoint # None => Usable'
  <2> SUFFICES ASSUME checkpoint # None PROVE Usable'
    OBVIOUS
  <2>1. checkpoint.output \in Seq(Unit) /\ IsPrefixOf(checkpoint.output, output)
    BY <1>1, AtRecord
  <2>2. IsPrefixOf(checkpoint.output, output')
    BY <1>2, <2>1, PrefixOfAppend
  <2>3. checkpoint.version = input
    BY <1>1 DEF IInv, RunExact, Running, Usable
  <2> QED BY <2>2, <2>3 DEF Usable, WriteRow
<1>6. Written' = output' /\ Done' = Done
  BY <1>2, <1>4 DEF Written, NextRecord, Done
<1>7. RunExact'
  BY <1>1, <1>4, <1>5, <1>6 DEF IInv, RunExact, Running, WriteRow, Last
<1>8. StepExact'
  BY <1>1, <1>4 DEF IInv, StepExact, WriteRow, More, NextRecord
<1>9. CheckpointsExact'
  BY <1>4 DEF IInv, CheckpointsExact, Exact, WriteRow
<1> QED BY <1>3, <1>7, <1>8, <1>9 DEF IInv

\* With its end of line, it is what an undisturbed Flow writes.
LEMMA EndRowExact == ASSUME IInv, EndRow PROVE IInv'
<1>1. More /\ flow.at = "row" /\ flow.index >= flow.resume /\ Step[NextRecord] \in Row
  BY DEF IInv, StepExact, EndRow
<1>2. output = Append(Image[flow.reading][flow.index], Step[NextRecord])
  BY <1>1 DEF IInv, RunExact, Running, Written
<1>3. output' = Append(output, Newline) /\ Newline \in Unit /\ output \in Seq(Unit)
  BY DEF EndRow, Unit, IInv, TypeOK
<1>4. Text(NextRecord) = <<Step[NextRecord], Newline>>
  BY <1>1, FlowAssumption DEF Text
<1>5. output' = Image[flow.reading][flow.index + 1]
  <2>1. Image[flow.reading][flow.index] \in Seq(Unit)
    BY <1>1, AtRecord
  <2>2. Append(Append(Image[flow.reading][flow.index], Step[NextRecord]), Newline)
        = Image[flow.reading][flow.index] \o Text(NextRecord)
    <3> DEFINE row == Step[NextRecord]
    <3> HIDE DEF row
    <3>1. \A t \in Seq(Unit) : \A a, b : Append(Append(t, a), b) = t \o <<a, b>>
      BY AppendTwice, Zenon
    <3>2. Append(Append(Image[flow.reading][flow.index], row), Newline)
          = Image[flow.reading][flow.index] \o <<row, Newline>>
      BY <2>1, <3>1, Zenon
    <3> QED BY <3>2, <1>4, Zenon DEF row
  <2> QED BY <1>1, <1>2, <1>3, <2>2, AtRecord
<1>6. output' \in Seq(Unit)
  BY <1>3
<1>7. checkpoint # None => IsPrefixOf(checkpoint.output, output')
  BY <1>1, <1>3, AtRecord, PrefixOfAppend
<1> QED BY <1>1, <1>5, <1>6, <1>7, CountExact DEF EndRow

\* What is about to be published describes the output as it is.
LEMMA PrepareExact == ASSUME IInv, PrepareCheckpoint PROVE IInv'
<1> DEFINE made == [position |-> flow.index, output |-> output, version |-> input]
<1>1. /\ flow.at = "commit" /\ flow.index \in Nat \ {0} /\ output \in Seq(Unit)
      /\ input \in Version /\ flow.reading = input
  BY DEF IInv, TypeOK, Flow, StepExact, PrepareCheckpoint
<1>2. made \in Checkpoint
  BY <1>1 DEF Checkpoint
<1>3. /\ flow'.at = "publish" /\ flow'.index = flow.index /\ flow'.resume = flow.resume
      /\ flow'.reading = flow.reading /\ flow'.pending = made
      /\ flow'.outcome = flow.outcome
  BY DEF IInv, TypeOK, Flow, PrepareCheckpoint
<1>4. TypeOK'
  <2>1. flow' \in Flow
    BY <1>2 DEF IInv, TypeOK, Flow, At, PrepareCheckpoint
  <2> QED BY <2>1 DEF IInv, TypeOK, PrepareCheckpoint
<1>5. output = Image[input][flow.index] /\ flow.index <= Last(input)
  BY <1>1 DEF IInv, TypeOK, Flow, RunExact, Running, Written, Done, StepExact
<1>6. Exact(made)
  BY <1>5 DEF Exact
<1>7. CheckpointsExact'
  BY <1>3, <1>6 DEF IInv, CheckpointsExact, Exact, Last, PrepareCheckpoint
<1>8. StepExact'
  BY <1>1, <1>2, <1>3, NoneAssumption DEF IInv, StepExact, PrepareCheckpoint
<1>9. Done' = Done /\ Written' = Written
  BY <1>1, <1>3 DEF Done, Written
<1>10. RunExact'
  BY <1>1, <1>3, <1>9 DEF IInv, RunExact, Running, Usable, PrepareCheckpoint, Last
<1> QED BY <1>4, <1>7, <1>8, <1>10 DEF IInv

\* The published checkpoint is usable: it describes the file it was taken from.
LEMMA PublishExact == ASSUME IInv, PublishCheckpoint PROVE IInv'
<1>1. /\ flow.at = "publish" /\ flow.pending # None /\ flow.pending \in Checkpoint
      /\ Exact(flow.pending) /\ flow.pending.version = input /\ input \in Version
      /\ flow.pending.position = flow.index /\ flow.reading = input
      /\ flow.index \in Nat /\ flow.resume \in Nat /\ flow.index > flow.resume
  BY DEF IInv, TypeOK, Flow, CheckpointsExact, StepExact, PublishCheckpoint
<1>2. output = Image[input][flow.index] /\ output \in Seq(Unit)
  BY <1>1 DEF IInv, TypeOK, RunExact, Running, Written, Done
<1>3. flow.pending.output = output
  BY <1>1, <1>2 DEF Exact
<1>4. /\ flow'.at = "reading" /\ flow'.index = flow.index /\ flow'.resume = flow.resume
      /\ flow'.reading = flow.reading /\ flow'.pending = None
      /\ flow'.outcome = flow.outcome
  BY DEF IInv, TypeOK, Flow, PublishCheckpoint
<1>5. TypeOK'
  <2>1. flow' \in Flow
    BY DEF IInv, TypeOK, Flow, At, PublishCheckpoint
  <2> QED BY <1>1, <2>1 DEF IInv, TypeOK, PublishCheckpoint
<1>6. CheckpointsExact'
  BY <1>1, <1>4 DEF IInv, CheckpointsExact, Exact, Last, PublishCheckpoint
<1>7. StepExact'
  BY <1>1, <1>4 DEF IInv, StepExact, PublishCheckpoint
<1>8. Usable'
  <2>1. IsPrefixOf(output, output)
    BY <1>2 DEF IsPrefixOf
  <2> QED BY <1>1, <1>3, <2>1 DEF Usable, PublishCheckpoint
<1>9. Done' = flow.index /\ Done = flow.index
  BY <1>1, <1>4 DEF Done
<1>10. Written' = output'
  BY <1>1, <1>2, <1>4, <1>9 DEF Written, PublishCheckpoint
<1>11. flow.index <= Last(input) /\ flow.resume <= Last(input)
  BY <1>1 DEF IInv, RunExact, Running
<1>12. checkpoint'.position <= Done'
  BY <1>1, <1>9 DEF PublishCheckpoint
<1>13. RunExact'
  BY <1>1, <1>4, <1>8, <1>10, <1>11, <1>12 DEF RunExact, PublishCheckpoint, Last
<1> QED BY <1>5, <1>6, <1>7, <1>13 DEF IInv

\* A Flow without records left has written the output of all of them.
LEMMA EndOfInputExact == ASSUME IInv, EndOfInput PROVE IInv'
<1>1. /\ flow.at = "reading" /\ flow.index \in Nat /\ flow.resume \in Nat
      /\ flow.reading \in Version /\ Last(flow.reading) \in Nat
      /\ flow.index >= Last(flow.reading)
      /\ flow.index <= Last(flow.reading) /\ flow.resume <= Last(flow.reading)
  BY ImageFacts DEF IInv, TypeOK, Flow, RunExact, Running, EndOfInput, More, Last
<1>2. TypeOK'
  BY DEF IInv, TypeOK, Flow, At, EndOfInput
<1>3. /\ flow'.at = "ending" /\ flow'.index = flow.index /\ flow'.resume = flow.resume
      /\ flow'.reading = flow.reading /\ flow'.pending = flow.pending
      /\ flow'.outcome = flow.outcome
  BY DEF IInv, TypeOK, Flow, EndOfInput
<1>4. CheckpointsExact'
  BY <1>3 DEF IInv, CheckpointsExact, Exact, EndOfInput
<1>5. StepExact'
  BY <1>1, <1>3 DEF IInv, StepExact, EndOfInput, Last
<1>6. Done' = Done /\ Written' = Written
  BY <1>1, <1>3 DEF Done, Written
<1>7. RunExact'
  BY <1>1, <1>3, <1>6 DEF IInv, RunExact, Running, Usable, EndOfInput, Last
<1> QED BY <1>2, <1>4, <1>5, <1>7 DEF IInv

\* A power loss damages files; no checkpoint it brings back is inexact.
LEMMA PowerLossExact == ASSUME IInv, PowerLoss PROVE IInv'
<1>1. output' \in Seq(Unit)
  BY DamagedIsOutput DEF IInv, TypeOK, PowerLoss
<1>2. PICK survivor \in {checkpoint, previous} : checkpoint' = survivor /\ previous' = survivor
  BY DEF PowerLoss
<1>3. flow'.at = "idle" /\ flow'.pending \in {flow.pending, None} /\ flow' \in Flow
  BY DEF IInv, TypeOK, Flow, At, PowerLoss, Ended
<1>4. faults' \in 0..MaxFaults
  BY FlowAssumption DEF IInv, TypeOK, PowerLoss
<1>5. TypeOK'
  BY <1>1, <1>2, <1>3, <1>4 DEF IInv, TypeOK, PowerLoss
<1>6. CheckpointsExact'
  BY <1>2, <1>3 DEF IInv, CheckpointsExact, Exact
<1> QED BY <1>3, <1>5, <1>6 DEF IInv, RunExact, StepExact, Running

\* Nor does an edit between two runs change what a checkpoint says.
LEMMA EditExact == ASSUME IInv, EditOutput PROVE IInv'
<1>1. output' \in Seq(Unit)
  BY DamagedIsOutput DEF IInv, TypeOK, EditOutput
<1>2. faults' \in 0..MaxFaults
  BY FlowAssumption DEF IInv, TypeOK, EditOutput
<1>3. TypeOK'
  BY <1>1, <1>2 DEF IInv, TypeOK, EditOutput
<1> QED BY <1>3 DEF IInv, CheckpointsExact, Exact, RunExact, StepExact, Running, EditOutput

\* A version replaced between two runs is read by the next one.
LEMMA ReplaceExact == ASSUME StableInput, IInv, ReplaceInput PROVE IInv'
<1>1. flow.at = "idle" /\ input' \in Version
  BY DEF StableInput, ReplaceInput
<1>2. TypeOK'
  BY <1>1 DEF IInv, TypeOK, ReplaceInput
<1> QED BY <1>1, <1>2 DEF IInv, CheckpointsExact, Exact, RunExact, StepExact, Running, ReplaceInput

\* A Flow that ends, by itself or not, ends as EndKeeps has it.
LEMMA EndExact ==
  ASSUME IInv, Reject \/ FailRecord \/ Interrupt
  PROVE  IInv'
<1>1. interrupts' \in 0..MaxInterrupts
  BY FlowAssumption DEF IInv, TypeOK, Reject, FailRecord, Interrupt
<1> QED BY <1>1, EndKeeps DEF Reject, FailRecord, Interrupt

\* The checkpoint of a complete Flow goes.
LEMMA RemoveExact == ASSUME IInv, RemoveCheckpoint PROVE IInv'
<1>1. flow' = Ended("done") /\ checkpoint' = None /\ previous' = checkpoint
  BY DEF RemoveCheckpoint
<1>2. flow'.at = "idle" /\ flow'.pending = None
  BY <1>1 DEF IInv, TypeOK, Flow, Ended
<1>3. TypeOK'
  <2>1. flow' \in Flow
    BY <1>1 DEF IInv, TypeOK, Flow, At, Ended
  <2> QED BY <1>1, <2>1 DEF IInv, TypeOK, RemoveCheckpoint
<1> QED BY <1>1, <1>2, <1>3 DEF IInv, CheckpointsExact, Exact, RunExact, StepExact, Running,
                                RemoveCheckpoint

\* Every step keeps the invariant.
LEMMA NextExact == ASSUME StableInput, IInv, [Next]_vars PROVE IInv'
<1>1. CASE Open BY <1>1, OpenExact
<1>2. CASE FlowStep
  <2>1. CASE Reject \/ FailRecord BY <2>1, EndExact
  <2>2. CASE CreateOutput BY <2>2, CreateExact
  <2>3. CASE ResumeOutput BY <2>3, ResumeExact
  <2>4. CASE SkipRecord BY <2>4, SkipExact
  <2>5. CASE DropRecord BY <2>5, DropExact
  <2>6. CASE WriteRow BY <2>6, WriteExact
  <2>7. CASE EndRow BY <2>7, EndRowExact
  <2>8. CASE PrepareCheckpoint BY <2>8, PrepareExact
  <2>9. CASE PublishCheckpoint BY <2>9, PublishExact
  <2>10. CASE EndOfInput BY <2>10, EndOfInputExact
  <2>11. CASE RemoveCheckpoint BY <2>11, RemoveExact
  <2> QED BY <1>2, <2>1, <2>2, <2>3, <2>4, <2>5, <2>6, <2>7, <2>8, <2>9, <2>10, <2>11
             DEF FlowStep
<1>3. CASE Environment
  <2>1. CASE Interrupt BY <2>1, EndExact
  <2>2. CASE ReplaceInput BY <2>2, ReplaceExact
  <2>3. CASE PowerLoss BY <2>3, PowerLossExact
  <2>4. CASE EditOutput BY <2>4, EditExact
  <2> QED BY <1>3, <2>1, <2>2, <2>3, <2>4 DEF Environment
<1>4. CASE UNCHANGED vars
  BY <1>4 DEF vars, IInv, TypeOK, CheckpointsExact, Exact, RunExact, Running, Written, Done,
              StepExact, More, NextRecord, Usable
<1> QED BY <1>1, <1>2, <1>3, <1>4 DEF Next

-----------------------------------------------------------------------------
(* The theorems.                                                             *)

\* Checkpoints, files and the running Flow always agree as IInv has it.
THEOREM FlowExact == ASSUME StableInput PROVE Spec => []IInv
<1>1. Init => IInv
  BY InitExact
<1>2. IInv /\ [Next]_vars => IInv'
  BY NextExact
<1> QED BY <1>1, <1>2, PTL DEF Spec

\* The state has the shape the code gives it.
THEOREM FlowTypes == ASSUME StableInput PROVE Spec => []TypeOK
<1>1. IInv => TypeOK
  BY DEF IInv
<1> QED BY <1>1, FlowExact, PTL

\* A Flow that completes has written what an uninterrupted one would have,
\* after any number of interruptions, power losses and edits of the output.
THEOREM OutputsComplete == ASSUME StableInput PROVE Spec => []CompleteOutput
<1>1. IInv => CompleteOutput
  <2> SUFFICES ASSUME IInv, flow.at = "ending"
               PROVE  output = Image[flow.reading][Len(Records[flow.reading])]
    BY DEF CompleteOutput
  <2>1. flow.index = Last(flow.reading) /\ flow.index >= flow.resume
        /\ flow.index \in Nat /\ flow.resume \in Nat
    BY DEF IInv, TypeOK, Flow, StepExact
  <2> QED BY <2>1 DEF IInv, RunExact, Running, Written, Done, Last
<1> QED BY <1>1, FlowExact, PTL

\* No accepted checkpoint pairs a position with other output than its own.
THEOREM AcceptedExact == ASSUME StableInput PROVE Spec => []AcceptedIsExact
<1>1. IInv => AcceptedIsExact
  BY DEF IInv, CheckpointsExact, Exact, AcceptedIsExact, Usable, Last
<1> QED BY <1>1, FlowExact, PTL

\* A step of the Flow or its environment is a step of CsvFlow or none: what is
\* committed only grows, by whole batches, until it is delivered.
LEMMA PromiseStep ==
  ASSUME IInv, [Next]_vars
  PROVE  [Promise!Next]_(Promise!vars)
<1> DEFINE Committed == IF checkpoint = None THEN [position |-> 0, output |-> <<>>]
                        ELSE [position |-> checkpoint.position,
                              output |-> Prefix(output, Len(checkpoint.output))]
           Delivered == IF flow.outcome = "done" THEN output ELSE None
<1> USE DEF Promise!Next, Promise!vars
<1>0. ASSUME Committed' = Committed, Delivered' = Delivered, faults' = faults
      PROVE  UNCHANGED Promise!vars
  BY <1>0
<1>1. ASSUME flow.at # "idle", flow'.outcome # "done"
      PROVE  Delivered' = Delivered
  BY <1>1 DEF IInv, StepExact
<1>2. ASSUME UNCHANGED <<checkpoint, output>>
      PROVE  Committed' = Committed
  BY <1>2 DEF Prefix
<1>3. ASSUME UNCHANGED <<checkpoint, output, faults>>, flow.at # "idle", flow'.outcome # "done"
      PROVE  UNCHANGED Promise!vars
  BY <1>0, <1>1, <1>2, <1>3
<1>4. CASE Open
  <2>1. flow'.outcome = "running"
    BY <1>4 DEF Open, IInv, TypeOK, Flow
  <2>2. Committed' = Committed /\ Delivered' = None /\ faults' = faults
    BY <1>2, <1>4, <2>1 DEF Open
  <2>3. Promise!Again
    BY <2>2 DEF Promise!Again
  <2> QED BY <2>3
<1>5. ASSUME flow.at # "idle", flow' = Ended("rejected") \/ flow' = Ended("failed")
                               \/ flow' = Ended("interrupted"),
             UNCHANGED <<checkpoint, output, faults>>
      PROVE  UNCHANGED Promise!vars
  <2>1. flow'.outcome # "done"
    BY <1>5 DEF Ended, IInv, TypeOK, Flow
  <2> QED BY <1>3, <1>5, <2>1
<1>6. CASE Reject \/ FailRecord \/ Interrupt
  BY <1>5, <1>6 DEF Reject, FailRecord, Evaluating, Interrupt
<1>7. CASE SkipRecord \/ DropRecord \/ PrepareCheckpoint \/ EndOfInput
  <2>1. flow.at # "idle" /\ flow'.outcome = flow.outcome
        /\ UNCHANGED <<checkpoint, output, faults>>
    BY <1>7 DEF SkipRecord, DropRecord, Evaluating, PrepareCheckpoint, EndOfInput, Counted,
                IInv, TypeOK, Flow
  <2>2. flow.outcome # "done"
    BY <2>1 DEF IInv, StepExact
  <2> QED BY <1>3, <2>1, <2>2
<1>8. CASE CreateOutput
  <2>1. flow.at # "idle" /\ flow'.outcome = flow.outcome /\ flow.outcome # "done"
    BY <1>8 DEF CreateOutput, Reading, IInv, TypeOK, Flow, StepExact
  <2>2. Committed' = Committed
    BY <1>8 DEF CreateOutput
  <2> QED BY <1>0, <1>1, <1>8, <2>1, <2>2 DEF CreateOutput
<1>9. CASE ResumeOutput
  <2>1. flow.at # "idle" /\ flow'.outcome = flow.outcome /\ flow.outcome # "done"
    BY <1>9 DEF ResumeOutput, Reading, IInv, TypeOK, Flow, StepExact
  <2>2. /\ checkpoint \in Checkpoint /\ checkpoint.output \in Seq(Unit) /\ output \in Seq(Unit)
        /\ IsPrefixOf(checkpoint.output, output) /\ checkpoint # None
        /\ output' = SubSeq(output, 1, Len(checkpoint.output)) /\ checkpoint' = checkpoint
    BY <1>9 DEF ResumeOutput, Usable, IInv, TypeOK, Checkpoint
  <2>3. output' = checkpoint.output /\ SubSeq(output', 1, Len(checkpoint.output)) = output'
    BY <2>2, CutToPrefix
  <2>4. Prefix(output', Len(checkpoint.output)) = Prefix(output, Len(checkpoint.output))
    BY <2>2, <2>3 DEF Prefix, IsPrefixOf
  <2>5. Committed' = Committed
    BY <2>2, <2>4
  <2> QED BY <1>0, <1>1, <1>9, <2>1, <2>5 DEF ResumeOutput
<1>10. CASE WriteRow \/ EndRow
  <2>1. /\ flow.at \in {"reading", "row"} /\ flow'.outcome = flow.outcome
        /\ flow.outcome # "done" /\ checkpoint' = checkpoint /\ faults' = faults
    BY <1>10 DEF WriteRow, EndRow, Evaluating, Counted, IInv, TypeOK, Flow, StepExact
  <2>2. PICK a : output' = Append(output, a)
    BY <1>10 DEF WriteRow, EndRow
  <2>3. ASSUME checkpoint # None
        PROVE  Prefix(output', Len(checkpoint.output)) = Prefix(output, Len(checkpoint.output))
    <3>1. /\ checkpoint.output \in Seq(Unit) /\ output \in Seq(Unit)
          /\ IsPrefixOf(checkpoint.output, output)
      BY <2>1, <2>3 DEF IInv, TypeOK, Checkpoint, RunExact, Running, Usable
    <3>2. Len(checkpoint.output) <= Len(output) /\ Len(checkpoint.output) \in Nat
      BY <3>1 DEF IsPrefixOf
    <3>3. Len(output') = Len(output) + 1
          /\ SubSeq(output', 1, Len(checkpoint.output)) = SubSeq(output, 1, Len(checkpoint.output))
      BY <2>2, <3>1, <3>2
    <3> QED BY <3>1, <3>2, <3>3 DEF Prefix
  <2>4. Committed' = Committed
    BY <2>1, <2>3
  <2> QED BY <1>0, <1>1, <2>1, <2>4
<1>11. CASE PublishCheckpoint
  <2>1. /\ flow.at = "publish" /\ flow.pending # None /\ Exact(flow.pending)
        /\ flow.pending.version = input /\ input \in Version
        /\ flow.pending.position = flow.index /\ flow.reading = input
        /\ flow.index \in Nat \ {0} /\ flow.index % Interval = 0
        /\ flow.index >= flow.resume /\ flow.resume \in Nat
        /\ flow.index <= Last(input) /\ output \in Seq(Unit)
    BY <1>11 DEF IInv, TypeOK, Flow, CheckpointsExact, StepExact, RunExact, Running,
                 PublishCheckpoint
  <2>2. output = Image[input][flow.index] /\ flow.pending.output = output
    BY <2>1 DEF IInv, RunExact, Running, Written, Done, Exact
  <2>3. Committed' = [position |-> flow.index, output |-> Image[input][flow.index]]
    <3>1. checkpoint' = flow.pending /\ output' = output
      BY <1>11 DEF PublishCheckpoint
    <3>2. Prefix(output, Len(output)) = output
      BY <2>1 DEF Prefix
    <3> QED BY <2>1, <2>2, <3>1, <3>2
  <2>4. Delivered' = Delivered /\ faults' = faults
    BY <1>1, <1>11, <2>1 DEF PublishCheckpoint, IInv, TypeOK, Flow, StepExact
  <2>5. Committed.output = Image[input][Committed.position] /\ Committed.position < flow.index
    <3>1. CASE checkpoint = None
      <4>1. Committed.position = 0 /\ Committed.output = <<>>
        BY <3>1
      <4>2. Image[input][0] = <<>>
        BY <2>1, ImageFacts
      <4> QED BY <2>1, <4>1, <4>2
    <3>2. CASE checkpoint # None
      <4>1. /\ Usable /\ Exact(checkpoint) /\ checkpoint.position < flow.index
            /\ checkpoint.output \in Seq(Unit)
        BY <2>1, <3>2 DEF IInv, TypeOK, Checkpoint, CheckpointsExact, RunExact, Running, StepExact
      <4>2. Prefix(output, Len(checkpoint.output)) = checkpoint.output
        BY <2>1, <4>1, CutToPrefix DEF Prefix, Usable, IsPrefixOf
      <4> QED BY <3>2, <4>1, <4>2 DEF Exact, Usable
    <3> QED BY <3>1, <3>2
  <2>6. flow.index \in DOMAIN Records[input]
    BY <2>1, ImageFacts DEF Last
  <2>7. Promise!Commit
    BY <2>1, <2>3, <2>4, <2>5, <2>6 DEF Promise!Commit
  <2> QED BY <2>7
<1>12. CASE RemoveCheckpoint
  <2>1. output = Image[flow.reading][Len(Records[flow.reading])] /\ flow.reading \in Version
    <3>1. /\ flow.at = "ending" /\ flow.index = Last(flow.reading) /\ flow.index >= flow.resume
          /\ flow.index \in Nat /\ flow.resume \in Nat /\ flow.reading \in Version
      BY <1>12 DEF IInv, TypeOK, Flow, StepExact, RemoveCheckpoint
    <3> QED BY <3>1 DEF IInv, RunExact, Running, Written, Done, Last
  <2>2. flow'.outcome = "done" /\ output' = output /\ checkpoint' = None /\ faults' = faults
    BY <1>12 DEF RemoveCheckpoint, Ended, IInv, TypeOK, Flow
  <2>3. Promise!Deliver
    BY <2>1, <2>2 DEF Promise!Deliver, Promise!Start
  <2> QED BY <2>3
<1>13. CASE ReplaceInput
  BY <1>0, <1>2, <1>13 DEF ReplaceInput
<1>14. CASE PowerLoss \/ EditOutput
  <2>1. Promise!Damage
    BY <1>14 DEF PowerLoss, EditOutput, Promise!Damage
  <2> QED BY <2>1
<1>15. CASE UNCHANGED vars
  BY <1>0, <1>2, <1>15 DEF vars
<1> QED BY <1>4, <1>6, <1>7, <1>8, <1>9, <1>10, <1>11, <1>12, <1>13, <1>14, <1>15
           DEF Next, FlowStep, Environment

\* The Flow implements CsvFlow.
THEOREM PromiseKept == ASSUME StableInput PROVE Spec => KeepsPromise
<1>1. Init => Promise!Init
  BY DEF Init, Promise!Init, Promise!Start
<1>2. IInv /\ [Next]_vars => [Promise!Next]_(Promise!vars)
  BY PromiseStep
<1> QED BY <1>1, <1>2, FlowExact, PTL DEF Spec, KeepsPromise, Promise!Spec
=============================================================================
