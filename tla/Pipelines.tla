----------------------------- MODULE Pipelines -----------------------------
(* One pipeline or Flow from its first item to its result                     *)
(* (evaluator/pipelines.rs, evaluator/parallel.rs): the paths the evaluator   *)
(* may take for it - item by item, over CSV rows, fused, step by step, in     *)
(* worker threads - and what the pipeline means.                              *)
EXTENDS Integers, Sequences, SequencesExt, FiniteSets

CONSTANTS
  Pipeline,     \* the pipelines a run evaluates
  Apply,        \* Apply[e][v]: the value of expression e for item v, or Fault
  ExprType,     \* ExprType[e][t]: its static type for items of type t, or "bad"
  Safe,         \* the expressions that worker threads may evaluate
  Rules,        \* of partition: pairs of an expression (or None) and a category
  MaxInt,       \* the largest integer
  MAX_PARALLEL_WORKERS, MAX_CHUNK_SIZE, MAX_PARALLEL_CHUNKS,
  Fault, None

VARIABLES
  pipeline,     \* the pipeline: source kind, items, steps, terminal
  at,           \* the function that is running
  items,        \* the items it works on
  steps,        \* the steps it applies to them
  index,        \* items (or, eagerly, steps) that are done
  counters,     \* per step: items counted, and the values distinct has seen
  total,        \* the accumulators of the terminal
  threads,      \* the workers
  results,      \* results of the chunks the main thread has joined
  outcome

vars == <<pipeline, at, items, steps, index, counters, total, threads, results, outcome>>

IntV(n) == <<"Int", n>>
BoolV(b) == <<"Bool", IF b THEN 1 ELSE 0>>
Bad == <<"bad", 0>>          \* a CSV record that does not parse
True == BoolV(TRUE)
False == BoolV(FALSE)

Ordered == {"take", "skip", "step_by", "take_while", "drop_while", "distinct"}
Numeric == {"count", "sum", "average", "min", "max"}
Aggregate == Numeric \cup {"any", "all"}

Ok(value) == [status |-> "ok", value |-> value]
Error(code) == [status |-> "error", code |-> code]

Has(ops, S) == \E i \in 1..Len(S) : S[i].op \in ops
First(op, S) == S[CHOOSE i \in 1..Len(S) : S[i].op = op /\ \A j \in 1..(i - 1) : S[j].op # op]

\* What the parser lets through: counts are literals in range, and nothing
\* follows a terminal.
Parsed(p) ==
  /\ \A i \in 1..Len(p.steps) :
       LET s == p.steps[i] IN
       /\ s.op \in {"where", "derive", "distinct", "take_while", "drop_while",
                    "take", "skip", "step_by", "chunk", "parallel"}
       /\ s.op \in {"take", "skip"} => s.n >= 0
       /\ s.op \in {"step_by", "chunk", "parallel"} => s.n > 0
  /\ p.terminal \in Aggregate \cup {"partition", "write_csv", "none"}
  /\ Has({"chunk", "parallel"}, p.steps) => p.terminal # "none"

-----------------------------------------------------------------------------
(* The static check of a pipeline (semantic/pipelines.rs).                   *)

Scalar == {"Int", "Bool"}

\* Variant: only the conditions of where are checked.
StepTypeOfWhere(t, s) ==
  IF t = "bad" THEN "bad"
  ELSE CASE s.op = "where" -> IF ExprType[s.e][t] = "Bool" THEN t ELSE "bad"
         [] s.op = "derive" -> ExprType[s.e][t]
         [] OTHER -> t

\* The type of the items after a step.
StepType(t, s) ==
  IF t = "bad" THEN "bad"
  ELSE CASE s.op \in {"where", "take_while", "drop_while"} ->
              IF ExprType[s.e][t] = "Bool" THEN t ELSE "bad"
         [] s.op = "derive"   -> ExprType[s.e][t]
         [] s.op = "chunk"    -> IF s.n <= MAX_CHUNK_SIZE THEN t ELSE "bad"
         [] s.op = "parallel" -> IF s.n <= MAX_PARALLEL_WORKERS THEN t ELSE "bad"
         [] OTHER             -> t

SourceType(p) == IF p.source = "csv" THEN "Row" ELSE "Int"
ItemType(p) == FoldLeft(StepType, SourceType(p), p.steps)

\* The terminal fits the items that reach it.
TerminalAccepted(p) ==
  CASE p.terminal \in {"sum", "average", "min", "max"} -> ItemType(p) = "Int"
    [] p.terminal \in {"any", "all"} -> ItemType(p) = "Bool"
    [] p.terminal = "write_csv" -> ItemType(p) = "Row" /\ p.source = "csv"
    [] p.terminal = "partition" ->
         /\ ItemType(p) # "bad"
         /\ \A i \in 1..Len(Rules) :
              Rules[i][1] # None => ExprType[Rules[i][1]][ItemType(p)] = "Bool"
    [] OTHER -> ItemType(p) # "bad"

\* pipeline_type accepts the pipeline.
Accepted(p) ==
  /\ Has({"parallel"}, p.steps) =>
       /\ ~Has(Ordered, p.steps)
       /\ SourceType(p) \in Scalar
       /\ p.terminal \in Numeric
       /\ \A i \in 1..Len(p.steps) :
            p.steps[i].op \in {"where", "derive"} => p.steps[i].e \in Safe
  /\ Has({"chunk"}, p.steps) => Has({"parallel"}, p.steps)
  /\ p.source = "csv" => p.terminal # "none"
  /\ TerminalAccepted(p)

-----------------------------------------------------------------------------
(* The terminals.                                                            *)

NoTotal == [sum |-> 0, count |-> 0, extreme |-> None, any |-> FALSE, all |-> TRUE,
            output |-> <<>>, buckets |-> [c \in {Rules[i][2] : i \in 1..Len(Rules)} |-> <<>>],
            error |-> None]

Failed(t, code) == [t EXCEPT !.error = code]

\* operations::binary(Add) of the running total and an item.
Added(t, v) ==
  IF v[1] # "Int" THEN Failed(t, "type")
  ELSE IF t.sum + v[2] > MaxInt THEN Failed(t, "numeric")
  ELSE [t EXCEPT !.sum = @ + v[2], !.count = @ + 1]

\* update_extreme: the first item is taken as it is.
Better(t, v, maximum) ==
  IF t.extreme = None THEN [t EXCEPT !.extreme = v]
  ELSE IF t.extreme[1] # "Int" \/ v[1] # "Int" THEN Failed(t, "type")
  ELSE IF (maximum /\ v[2] > t.extreme[2]) \/ (~maximum /\ v[2] < t.extreme[2])
       THEN [t EXCEPT !.extreme = v]
  ELSE t

\* evaluate_partition_item: the first rule whose condition holds.
Partitioned(t, v) ==
  LET holds(i) == Rules[i][1] = None \/ Apply[Rules[i][1]][v] = True
      stops(i) == holds(i) \/ Apply[Rules[i][1]][v] # False
      rules == {i \in 1..Len(Rules) : stops(i) /\ \A j \in 1..(i - 1) : ~stops(j)}
  IN  IF rules = {} THEN t
      ELSE LET i == CHOOSE i \in rules : TRUE IN
           IF holds(i) THEN [t EXCEPT !.buckets[Rules[i][2]] = Append(@, v)]
           ELSE Failed(t, "type")

\* An item reaches the terminal.
Feed(t, v, terminal) ==
  CASE terminal = "count" -> [t EXCEPT !.count = @ + 1]
    [] terminal \in {"sum", "average"} -> Added(t, v)
    [] terminal = "min" -> Better(t, v, FALSE)
    [] terminal = "max" -> Better(t, v, TRUE)
    [] terminal = "any" ->
         IF v[1] # "Bool" THEN Failed(t, "type") ELSE [t EXCEPT !.any = @ \/ v = True]
    [] terminal = "all" ->
         IF v[1] # "Bool" THEN Failed(t, "type") ELSE [t EXCEPT !.all = @ /\ v = True]
    [] terminal = "partition" -> Partitioned(t, v)
    [] terminal = "write_csv" ->
         IF v[1] # "Row" THEN Failed(t, "type") ELSE [t EXCEPT !.output = Append(@, v)]
    [] OTHER -> [t EXCEPT !.output = Append(@, v)]

\* any and all need no more items.
Decided(t, terminal) == (terminal = "any" /\ t.any) \/ (terminal = "all" /\ ~t.all)

\* There are no more items.
Finish(t, terminal) ==
  CASE terminal = "count" -> Ok(t.count)
    [] terminal = "sum" -> Ok(t.sum)
    [] terminal = "average" ->
         IF t.count = 0 THEN Error("collection") ELSE Ok(<<t.sum, t.count>>)
    [] terminal \in {"min", "max"} ->
         IF t.extreme = None THEN Error("collection") ELSE Ok(t.extreme)
    [] terminal = "any" -> Ok(t.any)
    [] terminal = "all" -> Ok(t.all)
    [] terminal = "partition" -> Ok(t.buckets)
    [] OTHER -> Ok(t.output)

-----------------------------------------------------------------------------
(* One item through the steps.                                               *)

\* item: the item, None once it is dropped; stop: nothing after this item is
\* needed; halt: a take_while has ended the source; seen: see counters.
Start(v, seen) == [item |-> v, stop |-> FALSE, halt |-> FALSE, seen |-> seen, error |-> None]

Dropped(s) == [s EXCEPT !.item = None]
Counted(s, i, by) == [s EXCEPT !.seen[i].n = @ + by]

\* A condition must yield a boolean.
Tested(s, e, yes, no) ==
  CASE Apply[e][s.item] = True -> yes
    [] Apply[e][s.item] = False -> no
    [] OTHER -> [s EXCEPT !.error = IF Apply[e][s.item] = Fault THEN "numeric" ELSE "type"]

Step(s, i, step) ==
  CASE step.op = "where" -> Tested(s, step.e, s, Dropped(s))
    [] step.op = "derive" ->
         IF Apply[step.e][s.item] = Fault THEN [s EXCEPT !.error = "numeric"]
         ELSE [s EXCEPT !.item = Apply[step.e][s.item]]
    [] step.op = "take" ->
         [Counted(s, i, 1) EXCEPT !.stop = @ \/ s.seen[i].n + 1 >= step.n]
    [] step.op = "skip" /\ s.seen[i].n < step.n -> Dropped(Counted(s, i, 1))
    [] step.op = "step_by" ->
         IF s.seen[i].n > 0 THEN Dropped(Counted(s, i, -1)) ELSE Counted(s, i, step.n - 1)
    [] step.op = "take_while" ->
         Tested(s, step.e, s, [Dropped(s) EXCEPT !.stop = TRUE, !.halt = TRUE])
    [] step.op = "drop_while" /\ s.seen[i].n = 0 ->
         Tested(s, step.e, Dropped(s), Counted(s, i, 1))
    [] step.op = "distinct" ->
         IF s.item \in s.seen[i].values THEN Dropped(s)
         ELSE [s EXCEPT !.seen[i].values = @ \cup {s.item}]
    [] OTHER -> s

Through(start, S) ==
  FoldLeft(LAMBDA s, i : IF s.item = None \/ s.error # None THEN s ELSE Step(s, i, S[i]),
           start, [i \in 1..Len(S) |-> i])

NoCounters(S) == [i \in 1..Len(S) |-> [n |-> 0, values |-> {}]]

-----------------------------------------------------------------------------
(* The paths.                                                                *)

\* evaluate, evaluate_pipeline and evaluate_pipeline_steps,
\* evaluate_range_pipeline: which function evaluates the pipeline.
Route(p) ==
  IF p.source = "csv" THEN "csv"
  ELSE IF p.source = "range" /\ p.terminal \in Aggregate
          /\ \A i \in 1..Len(p.steps) :
               p.steps[i].op \in {"where", "derive"} /\ p.steps[i].e \in Safe
       THEN "scalar"
  ELSE IF \/ p.source = "range"
          \/ Has({"chunk", "take", "skip", "step_by", "take_while", "distinct"}, p.steps)
          \/ p.terminal \notin Aggregate
       THEN "stream"
  ELSE IF /\ Len(p.steps) > 0 /\ p.terminal \in Numeric
          /\ \A i \in 1..Len(p.steps) : p.steps[i].op \in {"where", "derive"}
       THEN "fused"
  ELSE "eager"

\* Arguments that are refused before any item is read.
Refused(p) ==
  \/ Has({"chunk"}, p.steps) /\ ~Has({"parallel"}, p.steps)
  \/ p.source = "csv" /\ (Has({"parallel"}, p.steps) \/ p.terminal = "none")

\* evaluate_streaming_pipeline_with_sum_type: arguments of parallel and chunk.
StreamRefused(S, terminal) ==
  \/ Has({"parallel"}, S) /\ First("parallel", S).n > MAX_PARALLEL_WORKERS
  \/ Has({"chunk"}, S) /\ First("chunk", S).n > MAX_CHUNK_SIZE
  \/ /\ Has({"parallel"}, S)
     /\ \/ terminal \notin Numeric
        \/ \E i \in 1..Len(S) :
             \/ S[i].op \notin {"where", "derive", "parallel", "chunk"}
             \/ S[i].op \in {"where", "derive"} /\ S[i].e \notin Safe

Begin(where, values, S) ==
  /\ at' = where /\ items' = values /\ steps' = S
  /\ index' = 0 /\ counters' = NoCounters(S) /\ total' = NoTotal

Done(result) ==
  /\ at' = "done" /\ outcome' = result
  /\ items' = <<>> /\ steps' = <<>> /\ index' = 0 /\ counters' = <<>> /\ total' = NoTotal
  /\ threads' = <<>> /\ results' = <<>>
  /\ UNCHANGED pipeline

Dispatch ==
  /\ at = "start"
  /\ IF Refused(pipeline) THEN Done(Error("argument"))
     ELSE Begin(Route(pipeline), pipeline.items, pipeline.steps)
          /\ UNCHANGED <<pipeline, threads, results, outcome>>

Source == at \in {"stream", "csv"} /\ (at = "stream" => ~Has({"parallel"}, steps))
TakesNone == \E i \in 1..Len(steps) : steps[i].op = "take" /\ steps[i].n = 0
More == index < Len(items) /\ ~TakesNone

\* The arguments are tested before the first item.
RefuseStream ==
  /\ at = "stream" /\ index = 0 /\ StreamRefused(steps, pipeline.terminal)
  /\ Done(Error("argument"))

\* Variant: a stop is forgotten.
StopsNever(s) == FALSE

\* Over CSV rows a take ends the loop only where the item was dropped or the
\* terminal writes it away.
Stops(s) ==
  IF at = "csv"
  THEN s.halt \/ (s.stop /\ (s.item = None \/ pipeline.terminal \in {"partition", "write_csv"}))
  ELSE s.stop

\* One round of the loop.
StreamItem ==
  /\ Source /\ More /\ ~StreamRefused(steps, pipeline.terminal)
  /\ LET v == items[index + 1]
         s == Through(Start(v, counters), steps)
         fed == IF s.item = None THEN total ELSE Feed(total, s.item, pipeline.terminal)
     IN  IF v = Bad THEN Done(Error("row"))
         ELSE IF s.error # None THEN Done(Error(s.error))
         ELSE IF fed.error # None THEN Done(Error(fed.error))
         ELSE IF Decided(fed, pipeline.terminal) \/ Stops(s)
              THEN Done(Finish(fed, pipeline.terminal))
         ELSE /\ index' = index + 1 /\ counters' = s.seen /\ total' = fed
              /\ UNCHANGED <<pipeline, at, items, steps, threads, results, outcome>>

StreamEnd ==
  /\ Source /\ ~More /\ ~StreamRefused(steps, pipeline.terminal)
  /\ Done(Finish(total, pipeline.terminal))

\* evaluate_scalar_range_pipeline, evaluate_fused_pipeline.
FoldItem ==
  /\ at \in {"scalar", "fused"} /\ index < Len(items)
  /\ LET s == Through(Start(items[index + 1], counters), steps)
         fed == IF s.item = None THEN total ELSE Feed(total, s.item, pipeline.terminal)
     IN  IF s.error # None THEN Done(Error(s.error))
         ELSE IF fed.error # None THEN Done(Error(fed.error))
         ELSE IF Decided(fed, pipeline.terminal) THEN Done(Finish(fed, pipeline.terminal))
         ELSE /\ index' = index + 1 /\ total' = fed
              /\ UNCHANGED <<pipeline, at, items, steps, counters, threads, results, outcome>>

FoldEnd ==
  /\ at \in {"scalar", "fused"} /\ index = Len(items)
  /\ Done(Finish(total, pipeline.terminal))

\* The step loop of evaluate_pipeline_steps: where and derive replace the
\* items, other steps are passed over.
EagerStep ==
  /\ at = "eager" /\ index < Len(steps)
  /\ LET S == <<steps[index + 1]>>
         done == [i \in 1..Len(items) |-> Through(Start(items[i], NoCounters(S)), S)]
         errors == {i \in 1..Len(items) : done[i].error # None}
     IN  IF S[1].op \notin {"where", "derive"}
         THEN /\ index' = index + 1
              /\ UNCHANGED <<pipeline, at, items, steps, counters, total, threads, results, outcome>>
         ELSE IF errors # {}
              THEN Done(Error(done[CHOOSE i \in errors : \A j \in errors : i <= j].error))
         ELSE /\ index' = index + 1
              /\ items' = [i \in 1..Len(SelectSeq(done, LAMBDA s : s.item # None)) |->
                             SelectSeq(done, LAMBDA s : s.item # None)[i].item]
              /\ UNCHANGED <<pipeline, at, steps, counters, total, threads, results, outcome>>

\* sum and count end the loop; the others hand the items, already transformed,
\* to the streaming path, with all the steps.
EagerEnd ==
  /\ at = "eager" /\ index = Len(steps)
  /\ IF pipeline.terminal \in {"sum", "count"}
     THEN LET fed == FoldLeft(LAMBDA t, v : IF t.error # None THEN t
                                             ELSE Feed(t, v, pipeline.terminal), NoTotal, items)
          IN  Done(IF fed.error # None THEN Error(fed.error)
                   ELSE Finish(fed, pipeline.terminal))
     ELSE Begin("stream", items, steps) /\ UNCHANGED <<pipeline, threads, results, outcome>>

-----------------------------------------------------------------------------
(* Worker threads (evaluator/parallel.rs).                                   *)

DivCeil(a, b) == (a + b - 1) \div b
ChunkSize ==
  IF Has({"chunk"}, steps) THEN First("chunk", steps).n
  ELSE LET even == DivCeil(Len(items), First("parallel", steps).n) IN
       IF even = 0 THEN 1 ELSE even
ChunkCount == DivCeil(Len(items), ChunkSize)
Chunk(c) ==
  SubSeq(items, (c - 1) * ChunkSize + 1,
         IF c * ChunkSize < Len(items) THEN c * ChunkSize ELSE Len(items))

\* The main thread starts the workers: worker w takes the chunks w, w + n, ...
Spawn ==
  /\ at = "stream" /\ index = 0 /\ Has({"parallel"}, steps)
  /\ ~StreamRefused(steps, pipeline.terminal)
  /\ IF \E i \in 1..Len(items) : items[i][1] \notin Scalar THEN Done(Error("collection"))
     ELSE IF ChunkSize > MAX_CHUNK_SIZE THEN Done(Error("argument"))
     ELSE IF ChunkCount > MAX_PARALLEL_CHUNKS THEN Done(Error("limit"))
     ELSE LET asked == First("parallel", steps).n
              n == IF asked < ChunkCount THEN asked ELSE ChunkCount
          IN  /\ threads' = [w \in 1..n |-> [next |-> w, done |-> <<>>, error |-> None]]
              /\ results' = [c \in 1..ChunkCount |-> None]
              /\ at' = "join"
              /\ UNCHANGED <<pipeline, items, steps, index, counters, total, outcome>>

Running(w) == threads[w].error = None /\ threads[w].next <= ChunkCount

\* evaluate_chunk, for the thread's next chunk.
Worker(w) ==
  /\ at \in {"join", "drain"} /\ w \in DOMAIN threads /\ Running(w)
  /\ LET input == Chunk(threads[w].next)
         done == [i \in 1..Len(input) |-> Through(Start(input[i], NoCounters(steps)), steps)]
         errors == {i \in 1..Len(input) : done[i].error # None}
         kept == SelectSeq(done, LAMBDA s : s.item # None)
     IN  threads' =
           IF errors # {}
           THEN [threads EXCEPT ![w].error =
                   done[CHOOSE i \in errors : \A j \in errors : i <= j].error]
           ELSE [threads EXCEPT ![w].next = @ + Len(threads),
                   ![w].done = Append(@, <<threads[w].next,
                                           [i \in 1..Len(kept) |-> kept[i].item]>>)]
  /\ UNCHANGED <<pipeline, at, items, steps, index, counters, total, results, outcome>>

\* Variant: the main thread waits until the thread has evaluated all its chunks.
JoinCompleted ==
  /\ at = "join" /\ index < Len(threads)
  /\ LET w == index + 1 IN
     /\ threads[w].next > ChunkCount
     /\ results' = FoldLeft(LAMBDA r, d : [r EXCEPT ![d[1]] = d[2]], results, threads[w].done)
     /\ index' = w
  /\ UNCHANGED <<pipeline, at, items, steps, counters, total, threads, outcome>>

\* index counts the joined handles.  A thread's error ends the joining, the
\* thread scope waits for the others.
Join ==
  /\ at = "join" /\ index < Len(threads)
  /\ LET w == index + 1 IN
     /\ ~Running(w)
     /\ IF threads[w].error # None
        THEN at' = "drain" /\ UNCHANGED <<results, index>>
        ELSE /\ results' = FoldLeft(LAMBDA r, d : [r EXCEPT ![d[1]] = d[2]],
                                    results, threads[w].done)
             /\ index' = w
             /\ UNCHANGED at
  /\ UNCHANGED <<pipeline, items, steps, counters, total, threads, outcome>>

Drain ==
  /\ at = "drain" /\ \A w \in DOMAIN threads : ~Running(w)
  /\ Done(Error(threads[index + 1].error))

\* The chunks' results in the order of the input go to the terminal.
Merge ==
  /\ at = "join" /\ index = Len(threads)
  /\ Begin("stream", FlattenSeq(SelectSeq(results, LAMBDA r : r # None)), <<>>)
  /\ threads' = <<>> /\ results' = <<>>
  /\ UNCHANGED <<pipeline, outcome>>

-----------------------------------------------------------------------------
Init ==
  /\ pipeline \in {p \in Pipeline : Parsed(p)}
  /\ at = "start"
  /\ items = <<>> /\ steps = <<>> /\ index = 0 /\ counters = <<>> /\ total = NoTotal
  /\ threads = <<>> /\ results = <<>>
  /\ outcome = None

Main ==
  \/ Dispatch
  \/ RefuseStream
  \/ StreamItem
  \/ StreamEnd
  \/ FoldItem
  \/ FoldEnd
  \/ EagerStep
  \/ EagerEnd
  \/ Spawn
  \/ Join
  \/ Drain
  \/ Merge

Next == Main \/ \E w \in 1..MAX_PARALLEL_WORKERS : Worker(w)

\* Every thread of the process runs.
Spec == Init /\ [][Next]_vars /\ WF_vars(Main)
             /\ \A w \in 1..MAX_PARALLEL_WORKERS : WF_vars(Worker(w))

-----------------------------------------------------------------------------
(* What a pipeline means: each step makes of a stream of items another one.   *)
(* A stream ends, or fails after its items.                                   *)

Stream(S, fails) == [items |-> S, fails |-> fails]

\* The positions of a stream at which e is not b.
Prefix(S, e, b) ==
  LET other == {i \in 1..Len(S) : Apply[e][S[i]] # b} IN
  IF other = {} THEN Len(S) ELSE (CHOOSE i \in other : \A j \in other : i <= j) - 1
IsBool(e, S, i) == Apply[e][S[i]] \in {True, False}

\* A step whose expression fails on some item fails there.
UpTo(stream, good(_)) ==
  LET wrong == {i \in 1..Len(stream.items) : ~good(i)} IN
  IF wrong = {} THEN stream
  ELSE Stream(SubSeq(stream.items, 1, (CHOOSE i \in wrong : \A j \in wrong : i <= j) - 1), TRUE)

Means(stream, step) ==
  LET S == stream.items
      tested == UpTo(stream, LAMBDA i : IsBool(step.e, S, i))
      derived == UpTo(stream, LAMBDA i : Apply[step.e][S[i]] # Fault)
      matching == Prefix(S, step.e, True)
  IN
  CASE step.op = "where" ->
         Stream(SelectSeq(tested.items, LAMBDA v : Apply[step.e][v] = True), tested.fails)
    [] step.op = "derive" ->
         Stream([i \in 1..Len(derived.items) |-> Apply[step.e][derived.items[i]]], derived.fails)
    [] step.op = "take" ->
         IF step.n <= Len(S) THEN Stream(SubSeq(S, 1, step.n), FALSE) ELSE stream
    [] step.op = "skip" -> Stream(SubSeq(S, step.n + 1, Len(S)), stream.fails)
    [] step.op = "step_by" ->
         Stream([i \in 1..DivCeil(Len(S), step.n) |-> S[(i - 1) * step.n + 1]], stream.fails)
    [] step.op = "take_while" ->
         IF matching = Len(S) THEN stream
         ELSE Stream(SubSeq(S, 1, matching), ~IsBool(step.e, S, matching + 1))
    [] step.op = "drop_while" ->
         IF matching = Len(S) THEN Stream(<<>>, stream.fails)
         ELSE IF ~IsBool(step.e, S, matching + 1) THEN Stream(<<>>, TRUE)
         ELSE Stream(SubSeq(S, matching + 1, Len(S)), stream.fails)
    [] step.op = "distinct" ->
         Stream(SelectSeq([i \in 1..Len(S) |-> IF \E j \in 1..(i - 1) : S[j] = S[i]
                                                THEN None ELSE S[i]], LAMBDA v : v # None),
                stream.fails)
    [] OTHER -> stream

Meant(p) ==
  FoldLeft(Means, UpTo(Stream(p.items, FALSE), LAMBDA i : p.items[i] # Bad), p.steps)

\* The result of the terminal: None is an error.
Result(p) ==
  LET m == Meant(p)
      S == m.items
      sum == FoldLeft(LAMBDA n, v : n + v[2], 0, S)
      numbers == {i \in 1..Len(S) : S[i][1] = "Int"}
      values == {S[i] : i \in 1..Len(S)}
      wrong == {i \in 1..Len(S) : S[i][1] # "Bool"}
      before(v) == {i \in 1..Len(S) : S[i] = v /\ \A j \in wrong : i < j}
      rule(v) == {i \in 1..Len(Rules) :
                    /\ Rules[i][1] = None \/ Apply[Rules[i][1]][v] = True
                    /\ \A j \in 1..(i - 1) : Rules[j][1] # None /\ Apply[Rules[j][1]][v] = False}
  IN
  CASE p.terminal = "any" /\ before(True) # {} -> Ok(TRUE)
    [] p.terminal = "all" /\ before(False) # {} -> Ok(FALSE)
    [] m.fails -> None
    [] p.terminal = "any" -> IF wrong = {} THEN Ok(FALSE) ELSE None
    [] p.terminal = "all" -> IF wrong = {} THEN Ok(TRUE) ELSE None
    [] p.terminal = "count" -> Ok(Len(S))
    [] p.terminal = "sum" ->
         IF numbers = 1..Len(S) /\ sum <= MaxInt THEN Ok(sum) ELSE None
    [] p.terminal = "average" ->
         IF S # <<>> /\ numbers = 1..Len(S) /\ sum <= MaxInt THEN Ok(<<sum, Len(S)>>) ELSE None
    [] p.terminal \in {"min", "max"} ->
         IF S = <<>> \/ (Len(S) > 1 /\ numbers # 1..Len(S)) THEN None
         ELSE Ok(CHOOSE v \in values : \A w \in values :
                   IF p.terminal = "min" THEN v[2] <= w[2] ELSE v[2] >= w[2])
    [] p.terminal = "partition" ->
         IF \A v \in values : \A i \in 1..Len(Rules) : Rules[i][1] # None =>
              Apply[Rules[i][1]][v] \in {True, False}
         THEN Ok([c \in {Rules[i][2] : i \in 1..Len(Rules)} |->
                    SelectSeq(S, LAMBDA v : \E i \in rule(v) : Rules[i][2] = c)])
         ELSE None
    [] p.terminal = "write_csv" ->
         IF \A v \in values : v[1] = "Row" THEN Ok(S) ELSE None
    [] OTHER -> Ok(S)

-----------------------------------------------------------------------------
(* Properties.                                                               *)

\* Pipelines that the code evaluates as they are meant: the step loop passes
\* over drop_while and runs derive again for the terminals it hands on, and
\* aggregates over CSV rows do not stop after a take.
Covered(p) ==
  /\ Route(p) = "eager" =>
       /\ ~Has({"drop_while"}, p.steps)
       /\ Has({"derive"}, p.steps) => p.terminal \in {"sum", "count"}
  /\ Route(p) = "csv" /\ Has({"take"}, p.steps) =>
       p.terminal \in {"partition", "write_csv"}

\* The path a pipeline takes and the order in which threads run make no
\* difference: its result is what its steps mean.
Agrees ==
  outcome.status = "error" => outcome.code \in {"argument", "limit"} \/ Result(pipeline) = None
ResultIsMeant ==
  at = "done" =>
    /\ Agrees
    /\ outcome.status = "ok" => Result(pipeline) = outcome
CoveredIsMeant == Covered(pipeline) => ResultIsMeant

\* Each step does what it says: a pipeline that yields a value yields the value
\* its steps mean.
StepsAreApplied ==
  at = "done" /\ outcome.status = "ok" /\ Result(pipeline) # None =>
    Result(pipeline) = outcome

\* A pipeline that the static check accepts meets no type error at run time, and
\* no refused argument unless its items are too many for one chunk per worker.
AcceptedRuns ==
  at = "done" /\ Covered(pipeline) /\ Accepted(pipeline) /\ outcome.status = "error" =>
    /\ outcome.code # "type"
    /\ outcome.code = "argument" =>
         /\ Has({"parallel"}, pipeline.steps) /\ ~Has({"chunk"}, pipeline.steps)
         /\ Len(pipeline.items) > MAX_CHUNK_SIZE * First("parallel", pipeline.steps).n

\* Every pipeline comes to an end: the main thread does not wait for a thread
\* that has failed.
Terminates == <>(at = "done")
=============================================================================
