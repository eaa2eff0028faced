------------------------------ MODULE LogSweep ------------------------------
(***************************************************************************)
(* The logs command (src/internal/app/commands_evidence.go): its filter, its *)
(* dry-run plan and CollectLogs (src/internal/evidence/logs.go), which sweeps *)
(* a block range in chunks between two looks at the upper block's hash, while *)
(* the chain behind the load balancer may reorganise and a node may answer    *)
(* wrongly.  A block number is a machine word of Blocks values.              *)
(***************************************************************************)
EXTENDS LogFilter, FiniteSets

CONSTANTS
  Blocks,        \* how many values a block number has (2^64 in the build)
  Commands,      \* command lines of logs
  MaxLogChunkSize,
  PlanLimit,     \* MaxBytes/32 + 1: most chunks a dry-run plan may hold
  Forks,         \* chains a node may hold
  Tip(_),           \* head block of a fork
  Hash(_, _),       \* hash of a block on a fork
  NoHash,        \* no checkpoint yet
  LogsFor(_, _),    \* what a fork holds for an eth_getLogs filter, in chain order
  OddLogs,       \* log lists an honest node would not return
  MaxReorgs      \* bound on the changes of fork during a call

Block    == 0 .. Blocks - 1
Position == Nat \X Nat \X Nat
Log      == [pos : Position, wellFormed : BOOLEAN, removed : BOOLEAN,
             address : STRING, topics : Seq(STRING)]
Hashes   == {Hash(f, b) : f \in Forks, b \in Block}

\* A filter once it is parsed, with the size of a chunk.
Filter   == [from : Block, to : Block, latest : BOOLEAN, size : Nat \ {0}]
NoFilter == [from |-> 0, to |-> 0, latest |-> FALSE, size |-> 1]

Word(x) == x % Blocks

-----------------------------------------------------------------------------
(* The filter.                                                             *)

Latest       == Text("latest")
FilterFields == {"fromBlock", "toBlock", "address", "topics"}

\* Mutant: a quantity of any width is read.
AnyQuantity(value) == value.kind = "quantity"

\* evm.ParseQuantity: the number fits a machine word.
IsQuantity(value) == value.kind = "quantity" /\ value.number \in Block

ParsesAsLogFilter(fields) ==
  /\ DOMAIN fields \subseteq FilterFields
  /\ {"fromBlock", "toBlock"} \subseteq DOMAIN fields
  /\ IsQuantity(fields["fromBlock"])
  /\ \/ fields["toBlock"] = Latest
     \/ /\ IsQuantity(fields["toBlock"])
        /\ fields["fromBlock"].number <= fields["toBlock"].number
  /\ ValidateConditions(fields)

ParseLogFilter(fields, size) ==
  [from   |-> fields["fromBlock"].number,
   to     |-> IF fields["toBlock"] = Latest THEN 0 ELSE fields["toBlock"].number,
   latest |-> fields["toBlock"] = Latest,
   size   |-> size]

\* Mutant: of the filter only the range is sent.
RangeOnly(fields, from, to) ==
  [f \in {"fromBlock", "toBlock"} |-> IF f = "fromBlock" THEN Quantity(from) ELSE Quantity(to)]

\* What eth_getLogs is asked for a chunk.
ForChunk(fields, from, to) ==
  [fields EXCEPT !["fromBlock"] = Quantity(from), !["toBlock"] = Quantity(to)]

ASSUME SweepAssumption ==
  /\ Blocks \in Nat \ {0}
  /\ \A c \in Commands :
       /\ c.size \in Nat /\ {c.chainOk, c.keyOk, c.dryRun} \subseteq BOOLEAN
       /\ c.input \in {"object", "garbage"}
  /\ MaxLogChunkSize \in Nat /\ PlanLimit \in Nat /\ MaxReorgs \in Nat
  /\ \A f \in Forks : Tip(f) \in Block
  /\ \A f \in Forks, c \in Commands, a, b \in Block :
       ParsesAsLogFilter(c.fields) => LogsFor(f, ForChunk(c.fields, a, b)) \in Seq(Log)
  /\ OddLogs \subseteq Seq(Log)
  /\ NoHash \notin Hashes

VARIABLES
  argv,                     \* the command, with the fields of its JSON filter
  filter,
  pc, upper, start,         \* the loop
  asked,                    \* chunks requested of the node, or planned
  before, after, logs,      \* hashes of the two checkpoints; logs accepted so far
  printed,                  \* the records on stdout
  outcome,
  view, reorgs,             \* the node's fork, and how often it changed
  steady, honest            \* no change yet but of the head; no odd answer yet

input  == <<argv, filter>>
client == <<filter, pc, upper, start, asked, before, after, logs, printed, outcome>>
node   == <<view, reorgs, steady, honest>>
vars   == <<argv, filter, pc, upper, start, asked, before, after, logs, printed, outcome,
            view, reorgs, steady, honest>>

Refusals == {"invalid_chain_id", "invalid_chunk_size", "invalid_log_filter",
             "credential_missing"}
Outcomes == Refusals \cup
  {"pending", "evidence", "plan", "output_error", "output_limit", "call_failed",
   "invalid_latest_block", "unavailable_range", "unavailable_block",
   "invalid_block", "contradictory_block", "invalid_logs", "invalid_log",
   "contradictory_log", "contradictory_logs", "reorg_detected"}

-----------------------------------------------------------------------------
(* Chunk arithmetic of filter.go, in machine words.                        *)

ChunkEnd(from, to) ==
  IF Word(to - from) >= filter.size THEN Word(from + filter.size - 1) ELSE to

\* Mutant: the last, partial chunk is not counted.
FullChunks(from, to) == Word(Word(to - from) \div filter.size)

ChunkCount(from, to) == Word((Word(to - from) \div filter.size) + 1)

\* Mutant: positions are compared by block alone.
BlockPrecedes(p, q) == p[1] < q[1]

Precedes(p, q) ==
  \/ p[1] < q[1]
  \/ p[1] = q[1] /\ p[2] < q[2]
  \/ p[1] = q[1] /\ p[2] = q[2] /\ p[3] < q[3]

-----------------------------------------------------------------------------
Init ==
  /\ argv \in Commands /\ filter = NoFilter
  /\ pc = "start"
  /\ upper = 0 /\ start = 0
  /\ asked = <<>> /\ before = NoHash /\ after = NoHash /\ logs = <<>>
  /\ printed = <<>> /\ outcome = "pending"
  /\ view \in Forks /\ reorgs = 0 /\ steady = TRUE /\ honest = TRUE

End(result) == pc' = "done" /\ outcome' = result

\* What ends the command before its first call, or its plan.
Refusal ==
  IF ~argv.chainOk THEN "invalid_chain_id"
  ELSE IF argv.size \notin 1 .. MaxLogChunkSize THEN "invalid_chunk_size"
  ELSE IF argv.input # "object" \/ ~ParsesAsLogFilter(argv.fields) THEN "invalid_log_filter"
  ELSE IF ~argv.dryRun /\ ~argv.keyOk THEN "credential_missing"
  ELSE "none"

Start ==
  /\ pc = "start"
  /\ IF Refusal # "none" THEN End(Refusal) /\ UNCHANGED <<filter, upper, start>>
     ELSE /\ filter' = ParseLogFilter(argv.fields, argv.size)
          /\ upper' = filter'.to /\ start' = filter'.from
          /\ pc' = "begin" /\ UNCHANGED outcome
  /\ UNCHANGED <<argv, asked, before, after, logs, printed, node>>

(***************************************************************************)
(* The dry run plans a numeric range with the loop of Chunks, unless the    *)
(* count says that the plan cannot fit the output.                           *)
(***************************************************************************)
Plan ==
  /\ pc = "begin" /\ argv.dryRun
  /\ \/ filter.latest /\ pc' = "emit" /\ UNCHANGED outcome
     \/ ~filter.latest /\ ChunkCount(filter.from, upper) > PlanLimit /\ End("output_limit")
     \/ /\ ~filter.latest /\ ChunkCount(filter.from, upper) <= PlanLimit
        /\ pc' = "chunk" /\ UNCHANGED outcome
  /\ UNCHANGED <<input, upper, start, asked, before, after, logs, printed, node>>

\* The range is fixed: the count refuses an upper block below the lower one.
Fix(to) ==
  /\ upper' = to
  /\ IF to < filter.from THEN End("unavailable_range")
                         ELSE pc' = "before" /\ UNCHANGED outcome

Begin ==
  /\ pc = "begin" /\ ~argv.dryRun
  /\ IF filter.latest THEN pc' = "latest" /\ UNCHANGED <<upper, outcome>>
                      ELSE Fix(filter.to)
  /\ UNCHANGED <<input, start, asked, before, after, logs, printed, node>>

\* A node answers from its fork; an odd answer is remembered.
Honestly == UNCHANGED node
Oddly    == honest' = FALSE /\ UNCHANGED <<view, reorgs, steady>>

\* eth_blockNumber, once: "latest" is a number from here on.
Resolve ==
  /\ pc = "latest"
  /\ \/ Fix(Tip(view)) /\ Honestly
     \/ \E answer \in {Null} \cup {Quantity(b) : b \in 0 .. Blocks} :
          /\ IF IsQuantity(answer) THEN Fix(answer.number)
                                   ELSE End("invalid_latest_block") /\ UNCHANGED upper
          /\ Oddly
  /\ UNCHANGED <<input, start, asked, before, after, logs, printed>>

(***************************************************************************)
(* fetchHeader of the upper block; Then(h) is what its caller does with a   *)
(* valid hash.                                                              *)
(***************************************************************************)
FetchHeader(Then(_)) ==
  \/ upper <= Tip(view) /\ Then(Hash(view, upper)) /\ Honestly
  \/ upper > Tip(view) /\ End("unavailable_block") /\ Honestly
                        /\ UNCHANGED <<before, after>>
  \/ \E h \in Hashes : Then(h) /\ Oddly
  \/ \E e \in {"unavailable_block", "invalid_block", "contradictory_block"} :
       End(e) /\ Oddly /\ UNCHANGED <<before, after>>

KeepFirst(h) == before' = h /\ pc' = "chunk" /\ UNCHANGED <<after, outcome>>

Before ==
  /\ pc = "before"
  /\ FetchHeader(KeepFirst)
  /\ UNCHANGED <<input, upper, start, asked, logs, printed>>

\* What validateLog says of one log of a chunk.
LogFault(log, from, to) ==
  IF ~log.wellFormed THEN "invalid_log"
  ELSE IF log.pos[1] \notin from .. to \/ log.removed THEN "contradictory_log"
  ELSE "none"

\* Mutant: the position is carried from chunk to chunk only.
StalePredecessor(items, i) == IF logs = <<>> THEN <<-1, 0, 0>> ELSE logs[Len(logs)].pos

\* The position before the i-th log of a chunk, across the chunks.
Predecessor(items, i) ==
  IF i > 1 THEN items[i - 1].pos
  ELSE IF logs = <<>> THEN <<-1, 0, 0>> ELSE logs[Len(logs)].pos

ItemFault(items, i, from, to) ==
  IF LogFault(items[i], from, to) # "none" THEN LogFault(items[i], from, to)
  ELSE IF ~Precedes(Predecessor(items, i), items[i].pos) THEN "contradictory_logs"
  ELSE "none"

Sound(items, n, from, to) ==
  \A i \in 1 .. n : ItemFault(items, i, from, to) = "none"

\* Mutant: the loop runs while start <= upper, in machine words.
AdvanceByStart(to) ==
  /\ start' = Word(to + 1)
  /\ IF Word(to + 1) <= upper THEN UNCHANGED <<pc, outcome>>
     ELSE pc' = (IF argv.dryRun THEN "emit" ELSE "after") /\ UNCHANGED outcome

\* Mutant: the loop ends when less than a whole chunk is left.
AdvanceByChunk(to) ==
  IF upper - to >= filter.size THEN start' = to + 1 /\ UNCHANGED <<pc, outcome>>
  ELSE pc' = (IF argv.dryRun THEN "emit" ELSE "after") /\ UNCHANGED <<start, outcome>>

\* The loop's last turn leads to the second checkpoint, or to the finished plan.
Advance(to) ==
  /\ UNCHANGED outcome
  /\ IF to # upper
       THEN start' = Word(to + 1) /\ UNCHANGED pc
       ELSE UNCHANGED start /\ pc' = IF argv.dryRun THEN "emit" ELSE "after"

\* The logs of a chunk are kept, or the first fault among them ends the call.
TakeLogs(items, to) ==
  \/ /\ Sound(items, Len(items), start, to)
     /\ logs' = logs \o items
     /\ Advance(to)
  \/ \E i \in 1 .. Len(items) :
       /\ Sound(items, i - 1, start, to) /\ ItemFault(items, i, start, to) # "none"
       /\ End(ItemFault(items, i, start, to))
       /\ UNCHANGED <<logs, start>>

Chunk ==
  /\ pc = "chunk"
  /\ LET to == ChunkEnd(start, upper)
     IN  /\ asked' = Append(asked, [from |-> start, to |-> to])
         /\ \/ argv.dryRun /\ Advance(to) /\ UNCHANGED logs /\ Honestly
            \/ /\ ~argv.dryRun /\ Honestly
               /\ TakeLogs(LogsFor(view, ForChunk(argv.fields, start, to)), to)
            \/ ~argv.dryRun /\ \E items \in OddLogs : TakeLogs(items, to) /\ Oddly
            \/ ~argv.dryRun /\ End("invalid_logs") /\ Oddly /\ UNCHANGED <<logs, start>>
  /\ UNCHANGED <<input, upper, before, after, printed>>

\* Mutant: the second checkpoint is not compared.
TrustSecond(h) == after' = h /\ pc' = "emit" /\ UNCHANGED <<before, outcome>>

\* The second checkpoint must show the hash of the first.
CompareSecond(h) ==
  /\ after' = h
  /\ IF h = before THEN pc' = "emit" /\ UNCHANGED outcome ELSE End("reorg_detected")
  /\ UNCHANGED before

After ==
  /\ pc = "after"
  /\ FetchHeader(CompareSecond)
  /\ UNCHANGED <<input, upper, start, asked, logs, printed>>

-----------------------------------------------------------------------------
(* The output.                                                             *)

Checkpoint(phase, hash) ==
  [type |-> "checkpoint", phase |-> phase, block |-> upper, hash |-> hash]
LogRecord(i) == [type |-> "log", index |-> i - 1, log |-> logs[i]]
Summary ==
  [type |-> "summary", from |-> filter.from, to |-> upper, hash |-> after,
   chunks |-> Len(asked), logs |-> Len(logs)]

Records ==
  <<Checkpoint("before", before)>> \o [i \in DOMAIN logs |-> LogRecord(i)]
    \o <<Checkpoint("after", after), Summary>>

PlanRecord == [type |-> "plan", chunks |-> asked, latest |-> filter.latest]

Printable == IF argv.dryRun THEN <<PlanRecord>> ELSE Records

\* Everything is written at once, or nothing.
Emit ==
  /\ pc = "emit"
  /\ \/ printed' = Printable /\ End(IF argv.dryRun THEN "plan" ELSE "evidence")
     \/ UNCHANGED printed /\ End("output_error")
  /\ UNCHANGED <<input, upper, start, asked, before, after, logs, node>>

\* DoRPC fails or returns a final JSON-RPC error, at any call.
CallFails ==
  /\ pc \in {"latest", "before", "chunk", "after"} /\ ~argv.dryRun
  /\ End("call_failed")
  /\ UNCHANGED <<input, upper, start, asked, before, after, logs, printed, node>>

\* A fork that adds blocks to another, and changes none.
Continues(g, f) == Tip(f) <= Tip(g) /\ \A b \in 0 .. Tip(f) : Hash(g, b) = Hash(f, b)

\* Between two calls the head moves on, the node changes its fork, or another
\* node takes over.
Reorg ==
  /\ reorgs < MaxReorgs /\ pc # "done"
  /\ reorgs' = reorgs + 1
  /\ view' \in Forks \ {view}
  /\ steady' = (steady /\ Continues(view', view))
  /\ UNCHANGED <<argv, client, honest>>

Command == \/ Start \/ Plan \/ Begin \/ Resolve \/ Before \/ Chunk \/ After \/ Emit
           \/ CallFails

Next == Command \/ Reorg

Spec == Init /\ [][Next]_vars

-----------------------------------------------------------------------------
(* Properties.                                                             *)

TypeOK ==
  /\ argv \in Commands /\ filter \in Filter
  /\ pc \in {"start", "begin", "latest", "before", "chunk", "after", "emit", "done"}
  /\ upper \in Block /\ start \in Block
  /\ asked \in Seq([from : Block, to : Block])
  /\ {before, after} \subseteq Hashes \cup {NoHash}
  /\ logs \in Seq(Log)
  /\ printed \in {<<>>, Printable}
  /\ outcome \in Outcomes
  /\ view \in Forks /\ reorgs \in 0 .. MaxReorgs
  /\ {steady, honest} \subseteq BOOLEAN

Adjacent ==
  /\ \A i \in 1 .. Len(asked) :
       /\ asked[i].from <= asked[i].to /\ asked[i].to <= upper
       /\ asked[i].to - asked[i].from < filter.size
       /\ asked[i].from = IF i = 1 THEN filter.from ELSE asked[i - 1].to + 1
  /\ pc = "chunk" =>
       start = IF asked = <<>> THEN filter.from ELSE asked[Len(asked)].to + 1

Complete == printed # <<>> /\ ~(argv.dryRun /\ filter.latest)
Reached ==
  Complete => /\ asked # <<>> /\ asked[Len(asked)].to = upper
              /\ ~argv.dryRun => before # NoHash /\ after = before

\* The chunks asked for are adjacent, start at fromBlock, hold at most
\* --chunk-size blocks and never pass the upper block: no block is asked for
\* twice or left out, in the sweep and in the dry run alike.  Nothing is printed,
\* a plan included, before they reach the upper block, and no evidence before
\* that block has shown one hash twice.
RangeIsCovered == Adjacent /\ Reached

\* The count that guards the plan is the number of chunks, in machine words.
CountIsExact == Complete => Word(Len(asked)) = ChunkCount(filter.from, upper)

\* Whatever the node answers, the logs accepted are strictly ordered over the
\* whole range, so none appears twice, and lie within the blocks asked for.
LogsAreOrdered ==
  /\ \A i \in 2 .. Len(logs) : Precedes(logs[i - 1].pos, logs[i].pos)
  /\ \A i \in 1 .. Len(logs) :
       /\ logs[i].wellFormed /\ ~logs[i].removed
       /\ filter.from <= logs[i].pos[1] /\ logs[i].pos[1] <= upper

\* What a fork holds for a range of a filter.
LogsOf(f, fields, from, to) == LogsFor(f, ForChunk(fields, from, to))

(***************************************************************************)
(* A chain, for the properties of honest nodes: each log is in its place, a   *)
(* range holds what its parts hold, and the hash of a block fixes the logs up *)
(* to that block.  A quantity of the command line is its number.               *)
(***************************************************************************)
ASSUME ChainAssumption ==
  \A c \in Commands : ParsesAsLogFilter(c.fields) =>
    /\ c.fields["fromBlock"] = Quantity(c.fields["fromBlock"].number)
    /\ \A f \in Forks, a, b \in Block :
         /\ LET part == LogsOf(f, c.fields, a, b)
            IN  /\ \A i \in 1 .. Len(part) : LogFault(part[i], a, b) = "none"
                /\ \A i \in 2 .. Len(part) : Precedes(part[i - 1].pos, part[i].pos)
         /\ \A m \in a .. b - 1 :
              LogsOf(f, c.fields, a, m) \o LogsOf(f, c.fields, m + 1, b)
                = LogsOf(f, c.fields, a, b)
         /\ \A g \in Forks, u \in b .. Blocks - 1 :
              u <= Tip(f) /\ u <= Tip(g) /\ Hash(f, u) = Hash(g, u)
                => LogsOf(f, c.fields, a, b) = LogsOf(g, c.fields, a, b)

\* The filter of the command line, "latest" resolved, as one eth_getLogs.
Unsplit == [argv.fields EXCEPT !["toBlock"] = Quantity(upper)]

\* Against an honest node whose chain stands still but for blocks that its head
\* adds, "latest" being resolved once, the evidence is what one call with the
\* whole filter would answer, and no answer is found faulty.
Accusations == {"invalid_latest_block", "invalid_block", "contradictory_block",
                "invalid_logs", "invalid_log", "contradictory_log",
                "contradictory_logs", "reorg_detected"}
StableChainIsExact ==
  (honest /\ steady) =>
     /\ outcome \notin Accusations
     /\ outcome = "evidence" => logs = LogsFor(view, Unsplit)

\* The logs are those of one chain, the one whose upper block has the hash of
\* both checkpoints.
FromOneChain ==
  \E f \in Forks : Hash(f, upper) = before /\ logs = LogsFor(f, Unsplit)

\* One change of fork during the call, wherever it falls between two calls,
\* does not mix two chains in the evidence: the second checkpoint shows it.
OneReorgIsSeen ==
  (honest /\ reorgs <= 1 /\ outcome = "evidence") => FromOneChain

\* The loop makes for its end: another turn starts at a higher block, also
\* where the range ends at the highest block number there is.
Rise == pc = "chunk" /\ pc' = "chunk" /\ asked' # asked => start' > start
StartRises == [][Rise]_vars

=============================================================================
