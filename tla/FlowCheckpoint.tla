--------------------------- MODULE FlowCheckpoint ---------------------------
(* A Flow over csv_rows with a checkpoint and a write_csv terminal            *)
(* (evaluator/pipelines.rs, evaluate_csv_pipeline; evaluator/checkpoint.rs;   *)
(* runtime/files.rs): the files it reads and writes, the steps between which  *)
(* the process may die, and the runs that resume it.                          *)
EXTENDS Integers, Sequences

CONSTANTS
  Version,      \* versions of the input file: a length and a modification time
  Record,       \* CSV records
  Records,      \* the records of each version
  Row,          \* written rows, without the end of line
  Step,         \* what the steps of the Flow make of a record: a row, or
  Dropped,      \*   nothing (where is false), or
  Failed,       \*   an error
  Newline,      \* the end of a row
  Garbage,      \* a unit of the output that the Flow did not write
  None,         \* no checkpoint
  Image,        \* Image[v][n]: what an uninterrupted Flow writes for n records
  Interval,     \* records between checkpoints: the chunk size
  ReplaceWhileRunning,         \* may the input be replaced during a run?
  MaxInterrupts, MaxFaults     \* bounds of the model

VARIABLES
  input,        \* the version at the input's path
  output,       \* the output file
  checkpoint,   \* the checkpoint file
  previous,     \* the checkpoint before the last rename or removal
  flow,         \* the running Flow
  interrupts, faults

vars == <<input, output, checkpoint, previous, flow, interrupts, faults>>

Unit == Row \cup {Newline, Garbage}
Text(record) ==
  IF Step[record] \in {Dropped, Failed} THEN <<>> ELSE <<Step[record], Newline>>

ASSUME FlowAssumption ==
  /\ Records \in [Version -> Seq(Record)]
  /\ Step \in [Record -> Row \cup {Dropped, Failed}]
  /\ Dropped # Failed /\ {Dropped, Failed} \cap Row = {}
  /\ Interval \in Nat \ {0}
  /\ ReplaceWhileRunning \in BOOLEAN
  /\ MaxInterrupts \in Nat /\ MaxFaults \in Nat

\* The output of a Flow that nothing disturbs, record by record.
ASSUME ImageAssumption ==
  \A v \in Version :
    /\ Image[v] \in [0..Len(Records[v]) -> Seq(Unit)]
    /\ Image[v][0] = <<>>
    /\ \A n \in 1..Len(Records[v]) : Image[v][n] = Image[v][n - 1] \o Text(Records[v][n])

\* CheckpointState: the output's length and checksum are the content they
\* stand for; the paths are the same in every run.
Checkpoint == [position : Nat \ {0}, output : Seq(Unit), version : Version]
ASSUME NoneAssumption == None \notin Checkpoint

At == {"idle", "opened", "reading", "row", "commit", "publish", "ending"}
Flow == [at : At, reading : Version, index : Nat, resume : Nat,
         pending : Checkpoint \cup {None},
         outcome : {"none", "running", "rejected", "failed", "interrupted", "done"}]

-----------------------------------------------------------------------------
(* The Flow.                                                                 *)

IsPrefixOf(s, t) == Len(s) <= Len(t) /\ s = SubSeq(t, 1, Len(s))

\* The process is gone, or the Flow has ended.
Ended(outcome) ==
  [flow EXCEPT !.at = "idle", !.outcome = outcome, !.index = 0, !.resume = 0, !.pending = None]

\* The input is opened before anything else; a file put in its place later is
\* not the one that is read.
Open ==
  /\ flow.at = "idle"
  /\ flow' = [flow EXCEPT !.at = "opened", !.outcome = "running", !.reading = input]
  /\ UNCHANGED <<input, output, checkpoint, previous, interrupts, faults>>

\* Variant: only an output that ends at the checkpoint can be resumed.
UsableUncut == checkpoint.version = input /\ checkpoint.output = output

\* validate_checkpoint_source, validate_checkpoint_output: the version now at
\* the input's path, and the length and checksum of the output's prefix.
Usable == checkpoint.version = input /\ IsPrefixOf(checkpoint.output, output)

Reject ==
  /\ flow.at = "opened" /\ checkpoint # None /\ ~Usable
  /\ flow' = Ended("rejected")
  /\ UNCHANGED <<input, output, checkpoint, previous, interrupts, faults>>

Reading(resume) == [flow EXCEPT !.at = "reading", !.index = 0, !.resume = resume]

\* Variant: the output is emptied although there is a checkpoint.
CreateAlways ==
  /\ flow.at = "opened" /\ (checkpoint # None => Usable)
  /\ output' = <<>>
  /\ flow' = Reading(0)
  /\ UNCHANGED <<input, checkpoint, previous, interrupts, faults>>

\* No checkpoint: File::create empties the output.
CreateOutput ==
  /\ flow.at = "opened" /\ checkpoint = None
  /\ output' = <<>>
  /\ flow' = Reading(0)
  /\ UNCHANGED <<input, checkpoint, previous, interrupts, faults>>

\* Variant: rows after the committed length are kept.
ResumeUncut ==
  /\ flow.at = "opened" /\ checkpoint # None /\ Usable
  /\ flow' = Reading(checkpoint.position)
  /\ UNCHANGED <<input, output, checkpoint, previous, interrupts, faults>>

\* A checkpoint: the output is opened for appending and cut to the committed
\* length.
ResumeOutput ==
  /\ flow.at = "opened" /\ checkpoint # None /\ Usable
  /\ output' = SubSeq(output, 1, Len(checkpoint.output))
  /\ flow' = Reading(checkpoint.position)
  /\ UNCHANGED <<input, checkpoint, previous, interrupts, faults>>

More == flow.index < Len(Records[flow.reading])
NextRecord == Records[flow.reading][flow.index + 1]

\* Records before the checkpoint's position are read and not evaluated.
SkipRecord ==
  /\ flow.at = "reading" /\ More /\ flow.index < flow.resume
  /\ flow' = [flow EXCEPT !.index = @ + 1]
  /\ UNCHANGED <<input, output, checkpoint, previous, interrupts, faults>>

\* checkpoint_progress acts after every Interval records.
Counted ==
  [flow EXCEPT !.index = @ + 1,
               !.at = IF (flow.index + 1) % Interval = 0 THEN "commit" ELSE "reading"]

Evaluating == flow.at = "reading" /\ More /\ flow.index >= flow.resume

DropRecord ==
  /\ Evaluating /\ Step[NextRecord] = Dropped
  /\ flow' = Counted
  /\ UNCHANGED <<input, output, checkpoint, previous, interrupts, faults>>

\* An invalid record or an error in a step ends the Flow; output and
\* checkpoint stay as they are.
FailRecord ==
  /\ Evaluating /\ Step[NextRecord] = Failed
  /\ flow' = Ended("failed")
  /\ UNCHANGED <<input, output, checkpoint, previous, interrupts, faults>>

\* write_row writes the fields and the end of line to an unbuffered file, one
\* after the other.
WriteRow ==
  /\ Evaluating /\ Step[NextRecord] \in Row
  /\ output' = Append(output, Step[NextRecord])
  /\ flow' = [flow EXCEPT !.at = "row"]
  /\ UNCHANGED <<input, checkpoint, previous, interrupts, faults>>

EndRow ==
  /\ flow.at = "row"
  /\ output' = Append(output, Newline)
  /\ flow' = Counted
  /\ UNCHANGED <<input, checkpoint, previous, interrupts, faults>>

\* Variants: the checkpoint names the record after the batch, or the batch's
\* first one.
PrepareAhead ==
  /\ flow.at = "commit"
  /\ flow' = [flow EXCEPT !.at = "publish",
                !.pending = [position |-> flow.index + 1, output |-> output, version |-> input]]
  /\ UNCHANGED <<input, output, checkpoint, previous, interrupts, faults>>

PrepareBehind ==
  /\ flow.at = "commit"
  /\ flow' = [flow EXCEPT !.at = "publish",
                !.pending = [position |-> flow.index - Interval, output |-> output,
                             version |-> input]]
  /\ UNCHANGED <<input, output, checkpoint, previous, interrupts, faults>>

\* The state is taken from the files as they are now and written to a
\* temporary file; a leftover temporary file is never read.
PrepareCheckpoint ==
  /\ flow.at = "commit"
  /\ flow' = [flow EXCEPT !.at = "publish",
                !.pending = [position |-> flow.index, output |-> output, version |-> input]]
  /\ UNCHANGED <<input, output, checkpoint, previous, interrupts, faults>>

\* The rename of atomic_write.
PublishCheckpoint ==
  /\ flow.at = "publish"
  /\ checkpoint' = flow.pending
  /\ previous' = checkpoint
  /\ flow' = [flow EXCEPT !.at = "reading", !.pending = None]
  /\ UNCHANGED <<input, output, interrupts, faults>>

EndOfInput ==
  /\ flow.at = "reading" /\ ~More
  /\ flow' = [flow EXCEPT !.at = "ending"]
  /\ UNCHANGED <<input, output, checkpoint, previous, interrupts, faults>>

\* Only a Flow that has seen all records removes its checkpoint.
RemoveCheckpoint ==
  /\ flow.at = "ending"
  /\ checkpoint' = None
  /\ previous' = checkpoint
  /\ flow' = Ended("done")
  /\ UNCHANGED <<input, output, interrupts, faults>>

-----------------------------------------------------------------------------
(* The environment.                                                          *)

\* The process is killed, or a call to the file system fails: files stay.
Interrupt ==
  /\ flow.at # "idle" /\ interrupts < MaxInterrupts
  /\ interrupts' = interrupts + 1
  /\ flow' = Ended("interrupted")
  /\ UNCHANGED <<input, output, checkpoint, previous, faults>>

\* Another version is renamed to the input's path.
ReplaceInput ==
  /\ flow.at = "idle" \/ ReplaceWhileRunning
  /\ \E v \in Version \ {input} : input' = v
  /\ UNCHANGED <<output, checkpoint, previous, flow, interrupts, faults>>

\* A prefix of the output stays, the rest is cut off or overwritten.
Damaged ==
  {SubSeq(output, 1, kept) \o [i \in 1..junk |-> Garbage] :
     kept \in 0..Len(output), junk \in 0..1}

\* The output is never synced, so a power loss may take away any of it; the
\* checkpoint is, but not the directory that names it.
PowerLoss ==
  /\ faults < MaxFaults
  /\ faults' = faults + 1
  /\ output' \in Damaged
  /\ \E survivor \in {checkpoint, previous} :
       checkpoint' = survivor /\ previous' = survivor
  /\ flow' = IF flow.at = "idle" THEN flow ELSE Ended("interrupted")
  /\ UNCHANGED <<input, interrupts>>

\* Someone edits the output between two runs.
EditOutput ==
  /\ flow.at = "idle" /\ faults < MaxFaults
  /\ faults' = faults + 1
  /\ output' \in Damaged
  /\ UNCHANGED <<input, checkpoint, previous, flow, interrupts>>

-----------------------------------------------------------------------------
Init ==
  /\ input \in Version
  /\ output = <<>>
  /\ checkpoint = None
  /\ previous = None
  /\ flow = [at |-> "idle", reading |-> input, index |-> 0, resume |-> 0,
             pending |-> None, outcome |-> "none"]
  /\ interrupts = 0
  /\ faults = 0

FlowStep ==
  \/ Reject
  \/ CreateOutput
  \/ ResumeOutput
  \/ SkipRecord
  \/ DropRecord
  \/ FailRecord
  \/ WriteRow
  \/ EndRow
  \/ PrepareCheckpoint
  \/ PublishCheckpoint
  \/ EndOfInput
  \/ RemoveCheckpoint

Environment ==
  \/ Interrupt
  \/ ReplaceInput
  \/ PowerLoss
  \/ EditOutput

Next == Open \/ FlowStep \/ Environment

\* A running Flow goes on; who asked for it asks again until it is done.
Spec == Init /\ [][Next]_vars /\ WF_vars(FlowStep) /\ WF_vars(Open)

-----------------------------------------------------------------------------
(* Properties.                                                               *)

TypeOK ==
  /\ input \in Version
  /\ output \in Seq(Unit)
  /\ checkpoint \in Checkpoint \cup {None} /\ previous \in Checkpoint \cup {None}
  /\ flow \in Flow
  /\ interrupts \in 0..MaxInterrupts /\ faults \in 0..MaxFaults

\* A Flow that completes has written what an uninterrupted one over the file
\* it read would have written, however often it was interrupted and resumed
\* before: no row is lost, repeated or torn.
CompleteOutput ==
  flow.at = "ending" =>
    output = Image[flow.reading][Len(Records[flow.reading])]

\* A checkpoint that a Flow would accept pairs the position with exactly the
\* output of the records before it: whatever became of the files, a wrong
\* pair is never resumed.
AcceptedIsExact ==
  (checkpoint # None /\ Usable) =>
    /\ checkpoint.position <= Len(Records[input])
    /\ IsPrefixOf(Image[input][checkpoint.position], output)
    /\ checkpoint.output = Image[input][checkpoint.position]

Prefix(s, n) == IF n <= Len(s) THEN SubSeq(s, 1, n) ELSE s

\* What is committed: the position of the checkpoint and the output up to its
\* length.  What is delivered: the output once the Flow is done.
Promise == INSTANCE CsvFlow WITH
  Nothing <- None,
  committed <- IF checkpoint = None THEN [position |-> 0, output |-> <<>>]
               ELSE [position |-> checkpoint.position,
                     output |-> Prefix(output, Len(checkpoint.output))],
  delivered <- IF flow.outcome = "done" THEN output ELSE None

\* The Flow keeps the promise of CsvFlow: committed output only grows, by whole
\* batches of right rows, and what is delivered is right.
KeepsPromise == Promise!Spec

\* If the input stays as it is and nothing damages the files, the Flow
\* completes, however it is interrupted (finitely often).
CanComplete(v) == \A n \in DOMAIN Records[v] : Step[Records[v][n]] # Failed
Completes ==
  \A v \in Version :
    CanComplete(v) => ([](input = v /\ faults = 0) => <>(flow.outcome = "done"))
=============================================================================
