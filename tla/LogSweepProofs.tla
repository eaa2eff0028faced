--------------------------- MODULE LogSweepProofs ---------------------------
(***************************************************************************)
(* Theorems about LogSweep for every width of a block number, every range   *)
(* and chunk size, and every answer of the node.                             *)
(***************************************************************************)
EXTENDS LogSweep, SequenceTheorems, TLAPS

Last(s) == s[Len(s)]

(***************************************************************************)
(* The strengthening: where the loop is, in terms of what it has asked.     *)
(***************************************************************************)
Place ==
  /\ (pc = "done") <=> (outcome # "pending")
  /\ pc \in {"start", "begin", "latest", "before"} => asked = <<>> /\ logs = <<>>
  /\ pc \notin {"start", "done"} => ParsesAsLogFilter(argv.fields)
  /\ pc = "begin" => upper = filter.to /\ (filter.latest \/ filter.from <= filter.to)
  /\ pc \in {"begin", "latest", "before"} => start = filter.from
  /\ pc \in {"before", "chunk", "after"} => filter.from <= upper
  /\ pc = "chunk" => filter.from <= start /\ start <= upper
  /\ pc = "after" => asked # <<>> /\ Last(asked).to = upper
  /\ pc \in {"latest", "before"} => ~argv.dryRun
  /\ pc \in {"chunk", "after"} => argv.dryRun \/ before # NoHash
  /\ pc = "emit" /\ ~(argv.dryRun /\ filter.latest) =>
       /\ asked # <<>> /\ Last(asked).to = upper
       /\ ~argv.dryRun => before # NoHash /\ after = before
  /\ pc # "done" => printed = <<>>

IInv == TypeOK /\ Place /\ Adjacent /\ Reached /\ LogsAreOrdered

-----------------------------------------------------------------------------
\* Machine words leave a block number as it is.
LEMMA WordOfBlock == ASSUME NEW x \in Block PROVE Word(x) = x
BY SweepAssumption DEF Word, Block

\* A chunk starts and ends within the range left, holds at most size blocks and
\* wraps nowhere; unless it is the last, a block number is left after it.
LEMMA ChunkEndInRange ==
  ASSUME TypeOK, NEW from \in Block, NEW to \in Block, from <= to
  PROVE  /\ ChunkEnd(from, to) \in Block
         /\ from <= ChunkEnd(from, to) /\ ChunkEnd(from, to) <= to
         /\ ChunkEnd(from, to) - from < filter.size
         /\ ChunkEnd(from, to) # to => Word(ChunkEnd(from, to) + 1) = ChunkEnd(from, to) + 1
<1>1. filter.size \in Nat \ {0}
  BY SweepAssumption DEF TypeOK, Filter
<1>2. to - from \in Block
  BY SweepAssumption DEF Block
<1>3. Word(to - from) = to - from
  BY <1>2, WordOfBlock
<1>4. CASE to - from >= filter.size
  <2>1. from + filter.size - 1 \in Block
    BY <1>1, <1>4, SweepAssumption DEF Block
  <2>2. ChunkEnd(from, to) = from + filter.size - 1
    BY <1>3, <1>4, <2>1, WordOfBlock DEF ChunkEnd
  <2>3. from + filter.size - 1 + 1 \in Block
    BY <1>1, <1>4, SweepAssumption DEF Block
  <2> QED
    BY <1>1, <1>4, <2>1, <2>2, <2>3, WordOfBlock DEF Block
<1>5. CASE ~(to - from >= filter.size)
  BY <1>1, <1>2, <1>3, <1>5 DEF ChunkEnd, Block
<1> QED
  BY <1>4, <1>5

\* The faults of a log list, each an outcome of the command.
LEMMA FaultIsOutcome ==
  ASSUME NEW items, NEW i, NEW from, NEW to
  PROVE  ItemFault(items, i, from, to) \in
           {"none", "invalid_log", "contradictory_log", "contradictory_logs"}
<1>1. LogFault(items[i], from, to) \in {"none", "invalid_log", "contradictory_log"}
  BY Zenon DEF LogFault
<1> QED
  BY <1>1 DEF ItemFault

\* A number of the inner of two nested intervals is one of the outer.
LEMMA Between ==
  ASSUME NEW a \in Int, NEW b \in Int, NEW c \in Int, NEW d \in Int, NEW e \in Int,
         a <= b, b <= c, c <= d, d <= e
  PROVE  a <= c /\ c <= e
OBVIOUS

\* Sound logs of a chunk continue the logs accepted before in strict order, and
\* lie within the blocks asked for.
LEMMA SoundLogsExtend ==
  ASSUME TypeOK, LogsAreOrdered,
         NEW items \in Seq(Log), NEW to \in Block,
         filter.from <= start, to <= upper,
         Sound(items, Len(items), start, to),
         UNCHANGED <<filter, upper>>, logs' = logs \o items
  PROVE  logs' \in Seq(Log) /\ LogsAreOrdered'
<1> USE DEF TypeOK
<1>1. /\ logs' \in Seq(Log)
      /\ Len(logs') = Len(logs) + Len(items)
      /\ \A i \in 1 .. Len(logs) : logs'[i] = logs[i]
      /\ \A i \in Len(logs) + 1 .. Len(logs) + Len(items) : logs'[i] = items[i - Len(logs)]
  BY ConcatProperties
<1>2. Len(logs) \in Nat /\ Len(items) \in Nat
  BY LenProperties
<1>3. ASSUME NEW i \in 1 .. Len(items)
      PROVE  /\ items[i] \in Log
             /\ items[i].wellFormed /\ ~items[i].removed
             /\ start <= items[i].pos[1] /\ items[i].pos[1] <= to
             /\ Precedes(Predecessor(items, i), items[i].pos)
  <2>1. ItemFault(items, i, start, to) = "none"
    BY <1>2, <1>3 DEF Sound
  <2>2. LogFault(items[i], start, to) = "none"
    BY <2>1 DEF ItemFault
  <2>3. Precedes(Predecessor(items, i), items[i].pos)
    BY <2>1, <2>2 DEF ItemFault
  <2>4. items[i] \in Log
    BY <1>2, <1>3, ElementOfSeq
  <2>5. items[i].wellFormed /\ ~items[i].removed /\ items[i].pos[1] \in start .. to
    BY <2>2 DEF LogFault
  <2> QED
    BY <2>3, <2>4, <2>5
<1>4. ASSUME NEW i \in 1 .. Len(logs')
      PROVE  /\ logs'[i].wellFormed /\ ~logs'[i].removed
             /\ filter.from <= logs'[i].pos[1] /\ logs'[i].pos[1] <= upper
  <2>1. CASE i <= Len(logs)
    BY <1>1, <1>2, <1>4, <2>1 DEF LogsAreOrdered
  <2>2. CASE i > Len(logs)
    <3> DEFINE k == i - Len(logs)
    <3>1. k \in 1 .. Len(items) /\ logs'[i] = items[k]
      BY <1>1, <1>2, <1>4, <2>2
    <3>2. /\ items[k] \in Log
          /\ items[k].wellFormed /\ ~items[k].removed
          /\ start <= items[k].pos[1] /\ items[k].pos[1] <= to
      BY <1>3, <3>1
    <3>3. items[k].pos[1] \in Nat
      BY <3>2 DEF Log, Position
    <3>4. filter.from \in Int /\ start \in Int /\ to \in Int /\ upper \in Int
      BY SweepAssumption DEF Filter, Block
    <3> HIDE DEF k
    <3>5. filter.from <= items[k].pos[1] /\ items[k].pos[1] <= upper
      <4>1. items[k].pos[1] \in Int /\ filter.from <= start /\ to <= upper
        BY <3>3
      <4> HIDE DEF TypeOK
      <4> QED
        BY <3>2, <3>4, <4>1, Between
    <3> QED
      BY <3>1, <3>2, <3>5, Zenon
  <2> QED
    BY <1>2, <1>4, <2>1, <2>2
<1>5. ASSUME NEW i \in 2 .. Len(logs')
      PROVE  Precedes(logs'[i - 1].pos, logs'[i].pos)
  <2>1. CASE i <= Len(logs)
    BY <1>1, <1>2, <1>5, <2>1 DEF LogsAreOrdered
  <2>2. CASE i = Len(logs) + 1
    <3>1. 1 \in 1 .. Len(items) /\ logs'[i] = items[1]
      BY <1>1, <1>2, <1>5, <2>2
    <3>2. logs # <<>> /\ logs'[i - 1] = logs[Len(logs)]
      BY <1>1, <1>2, <1>5, <2>2
    <3>3. Predecessor(items, 1) = logs[Len(logs)].pos
      BY <3>2 DEF Predecessor
    <3> QED
      BY <1>3, <3>1, <3>2, <3>3
  <2>3. CASE i > Len(logs) + 1
    <3> DEFINE k == i - Len(logs)
    <3>1. k \in 2 .. Len(items) /\ logs'[i] = items[k] /\ logs'[i - 1] = items[k - 1]
      BY <1>1, <1>2, <1>5, <2>3
    <3>2. Predecessor(items, k) = items[k - 1].pos
      BY <3>1 DEF Predecessor
    <3>3. Precedes(Predecessor(items, k), items[k].pos)
      BY <1>3, <3>1
    <3> HIDE DEF k
    <3> QED
      BY <3>1, <3>2, <3>3
  <2> QED
    BY <1>2, <1>5, <2>1, <2>2, <2>3
<1> QED
  BY <1>1, <1>4, <1>5 DEF LogsAreOrdered

\* A step that ends the command and accepts nothing more keeps the invariant.
LEMMA EndKeeps ==
  ASSUME IInv, pc # "done", NEW result \in Outcomes \ {"pending"}, End(result),
         UNCHANGED <<argv, filter, start, asked, logs, printed, view, reorgs, steady>>,
         upper' = upper \/ (asked = <<>> /\ logs = <<>> /\ upper' \in Block),
         {before', after'} \subseteq Hashes \cup {NoHash}, honest' \in BOOLEAN
  PROVE  IInv'
<1> USE DEF IInv
<1>1. printed' = <<>>
  BY DEF Place
<1>2. TypeOK'
  <2>1. pc' = "done" /\ outcome' \in Outcomes
    BY DEF End
  <2>2. TypeOK
    OBVIOUS
  <2>3. upper' \in Block
    BY <2>2 DEF TypeOK
  <2> HIDE DEF IInv
  <2>4. /\ argv' \in Commands /\ filter' \in Filter /\ start' \in Block
        /\ asked' \in Seq([from : Block, to : Block]) /\ logs' \in Seq(Log)
        /\ view' \in Forks /\ reorgs' \in 0 .. MaxReorgs /\ steady' \in BOOLEAN
    BY <2>2 DEF TypeOK
  <2>5. /\ pc' \in {"start", "begin", "latest", "before", "chunk", "after", "emit", "done"}
        /\ {before, after}' \subseteq Hashes \cup {NoHash}
    BY <2>1
  <2> QED
    BY <1>1, <2>1, <2>3, <2>4, <2>5 DEF TypeOK
<1>3. Place'
  BY <1>1 DEF Place, End
<1>4. Adjacent' /\ LogsAreOrdered'
  BY DEF Adjacent, LogsAreOrdered, End
<1>5. Reached'
  BY <1>1 DEF Reached, Complete
<1> QED
  BY <1>2, <1>3, <1>4, <1>5

\* A range that is fixed has its lower block below its upper one.
LEMMA FixKeeps ==
  ASSUME IInv, pc \in {"begin", "latest"}, ~argv.dryRun, NEW to \in Block, Fix(to),
         UNCHANGED <<argv, filter, start, asked, before, after, logs, printed, view, reorgs, steady>>,
         honest' \in BOOLEAN
  PROVE  IInv'
<1>1. asked = <<>> /\ logs = <<>> /\ printed = <<>> /\ outcome = "pending"
  BY DEF IInv, Place
<1>2. {before', after'} \subseteq Hashes \cup {NoHash}
  BY DEF IInv, TypeOK
<1>3. CASE to < filter.from
  <2>1. End("unavailable_range") /\ upper' = to
    BY <1>3 DEF Fix
  <2>2. "unavailable_range" \in Outcomes \ {"pending"}
    BY DEF Outcomes
  <2> QED
    BY <1>1, <1>2, <2>1, <2>2, EndKeeps
<1>4. CASE ~(to < filter.from)
  <2>1. pc' = "before" /\ UNCHANGED outcome /\ upper' = to
    BY <1>4 DEF Fix
  <2>2. filter.from \in Int /\ to \in Int
    BY SweepAssumption DEF IInv, TypeOK, Filter, Block
  <2>3. TypeOK'
    BY <1>1, <2>1 DEF IInv, TypeOK
  <2>4. Place'
    BY <1>1, <1>4, <2>1, <2>2 DEF IInv, Place
  <2>5. Adjacent' /\ Reached' /\ LogsAreOrdered'
    BY <1>1, <2>1 DEF Adjacent, Reached, Complete, LogsAreOrdered
  <2> QED
    BY <2>3, <2>4, <2>5 DEF IInv
<1> QED
  BY <1>3, <1>4

\* The command starts with the filter it was given, or not at all.
LEMMA StartKeeps == ASSUME IInv, Start PROVE IInv'
<1>1. /\ pc = "start" /\ asked = <<>> /\ logs = <<>> /\ printed = <<>>
      /\ outcome = "pending"
      /\ UNCHANGED <<argv, asked, before, after, logs, printed, view, reorgs, steady, honest>>
  BY DEF IInv, Place, Start, node
<1>2. /\ {before', after'} \subseteq Hashes \cup {NoHash} /\ honest' \in BOOLEAN
      /\ argv \in Commands
  BY <1>1 DEF IInv, TypeOK
<1>3. CASE Refusal # "none"
  <2>1. Refusal \in Outcomes \ {"pending"}
    BY <1>3 DEF Refusal, Outcomes, Refusals
  <2> QED
    BY <1>1, <1>2, <1>3, <2>1, EndKeeps DEF Start
<1>4. CASE Refusal = "none"
  <2>1. ParsesAsLogFilter(argv.fields) /\ argv.size \in 1 .. MaxLogChunkSize
    BY <1>4 DEF Refusal
  <2>2. /\ filter' = ParseLogFilter(argv.fields, argv.size)
        /\ upper' = filter'.to /\ start' = filter'.from
        /\ pc' = "begin" /\ UNCHANGED outcome
    BY <1>4 DEF Start
  <2>3. argv.size \in Nat \ {0} /\ 0 \in Block
    BY <2>1, SweepAssumption DEF Block
  <2>4. /\ argv.fields["fromBlock"].number \in Block
        /\ argv.fields["toBlock"] # Latest =>
             /\ argv.fields["toBlock"].number \in Block
             /\ argv.fields["fromBlock"].number <= argv.fields["toBlock"].number
    BY <2>1 DEF ParsesAsLogFilter, IsQuantity
  <2>5. filter' \in Filter /\ (filter'.latest \/ filter'.from <= filter'.to)
    BY <2>2, <2>3, <2>4 DEF ParseLogFilter, Filter
  <2>6. filter'.from \in Block /\ filter'.to \in Block
    BY <2>5 DEF Filter
  <2>7. TypeOK'
    BY <1>1, <2>2, <2>5, <2>6 DEF IInv, TypeOK
  <2>8. Place'
    BY <1>1, <2>1, <2>2, <2>5 DEF IInv, Place
  <2>9. Adjacent' /\ Reached' /\ LogsAreOrdered'
    BY <1>1, <2>2 DEF Adjacent, Reached, Complete, LogsAreOrdered
  <2> QED
    BY <2>7, <2>8, <2>9 DEF IInv
<1> QED
  BY <1>3, <1>4

\* A look at the upper block hands a hash to its caller, or ends the command.
HeaderFaults == {"unavailable_block", "invalid_block", "contradictory_block"}

\* The checkpoint before the first chunk.
LEMMA BeforeKeeps == ASSUME IInv, Before PROVE IInv'
<1>1. /\ pc = "before"
      /\ UNCHANGED <<argv, filter, upper, start, asked, logs, printed, view, reorgs, steady>>
      /\ honest' \in BOOLEAN
      /\ \/ \E h \in Hashes : KeepFirst(h)
         \/ \E e \in HeaderFaults : End(e) /\ UNCHANGED <<before, after>>
  <2>1. Hash(view, upper) \in Hashes
    BY DEF IInv, TypeOK, Hashes
  <2>2. FetchHeader(KeepFirst)
    BY DEF Before
  <2>3. \/ KeepFirst(Hash(view, upper)) /\ Honestly
        \/ End("unavailable_block") /\ Honestly /\ UNCHANGED <<before, after>>
        \/ \E h \in Hashes : KeepFirst(h) /\ Oddly
        \/ \E e \in HeaderFaults : End(e) /\ Oddly /\ UNCHANGED <<before, after>>
    BY <2>2, Zenon DEF FetchHeader, HeaderFaults
  <2> QED
    BY <2>1, <2>3 DEF Before, input, Honestly, Oddly, node, IInv, TypeOK, HeaderFaults
<1>2. /\ asked = <<>> /\ logs = <<>> /\ printed = <<>> /\ outcome = "pending"
      /\ start = filter.from /\ filter.from <= upper
      /\ ParsesAsLogFilter(argv.fields)
      /\ {before, after} \subseteq Hashes \cup {NoHash}
  BY <1>1 DEF IInv, Place, TypeOK
<1>3. ASSUME NEW h \in Hashes, KeepFirst(h) PROVE IInv'
  <2>1. before' = h /\ pc' = "chunk" /\ UNCHANGED <<after, outcome>> /\ h # NoHash
    BY <1>3, SweepAssumption DEF KeepFirst
  <2>2. filter.from \in Int /\ upper \in Int
    BY SweepAssumption DEF IInv, TypeOK, Filter, Block
  <2>3. TypeOK'
    BY <1>1, <1>2, <2>1 DEF IInv, TypeOK
  <2>4. Place'
    BY <1>1, <1>2, <2>1, <2>2 DEF IInv, Place
  <2>5. Adjacent' /\ Reached' /\ LogsAreOrdered'
    BY <1>1, <1>2, <2>1 DEF Adjacent, Reached, Complete, LogsAreOrdered
  <2> QED
    BY <2>3, <2>4, <2>5 DEF IInv
<1>4. ASSUME NEW e \in HeaderFaults, End(e), UNCHANGED <<before, after>> PROVE IInv'
  <2>1. e \in Outcomes \ {"pending"}
    BY <1>4 DEF HeaderFaults, Outcomes
  <2> QED
    BY <1>1, <1>2, <1>4, <2>1, EndKeeps
<1> QED
  BY <1>1, <1>3, <1>4

\* The checkpoint after the last chunk.
LEMMA AfterKeeps == ASSUME IInv, After PROVE IInv'
<1>1. /\ pc = "after"
      /\ UNCHANGED <<argv, filter, upper, start, asked, logs, printed, view, reorgs, steady>>
      /\ honest' \in BOOLEAN
      /\ \/ \E h \in Hashes : CompareSecond(h)
         \/ \E e \in HeaderFaults : End(e) /\ UNCHANGED <<before, after>>
  <2>1. Hash(view, upper) \in Hashes
    BY DEF IInv, TypeOK, Hashes
  <2>2. FetchHeader(CompareSecond)
    BY DEF After
  <2>3. \/ CompareSecond(Hash(view, upper)) /\ Honestly
        \/ End("unavailable_block") /\ Honestly /\ UNCHANGED <<before, after>>
        \/ \E h \in Hashes : CompareSecond(h) /\ Oddly
        \/ \E e \in HeaderFaults : End(e) /\ Oddly /\ UNCHANGED <<before, after>>
    BY <2>2, Zenon DEF FetchHeader, HeaderFaults
  <2> QED
    BY <2>1, <2>3 DEF After, input, Honestly, Oddly, node, IInv, TypeOK, HeaderFaults
<1>2. /\ asked # <<>> /\ Last(asked).to = upper /\ printed = <<>> /\ outcome = "pending"
      /\ filter.from <= upper /\ ParsesAsLogFilter(argv.fields)
      /\ argv.dryRun \/ before # NoHash
      /\ {before, after} \subseteq Hashes \cup {NoHash}
  BY <1>1 DEF IInv, Place, TypeOK
<1>3. ASSUME NEW h \in Hashes, h = before, after' = h, pc' = "emit",
             UNCHANGED <<before, outcome>>
      PROVE  IInv'
  <2>1. TypeOK'
    BY <1>1, <1>2, <1>3 DEF IInv, TypeOK
  <2>2. Place'
    BY <1>1, <1>2, <1>3 DEF IInv, Place, Last
  <2>3. Adjacent' /\ Reached' /\ LogsAreOrdered'
    BY <1>1, <1>2, <1>3 DEF IInv, Adjacent, Reached, Complete, LogsAreOrdered
  <2> QED
    BY <2>1, <2>2, <2>3 DEF IInv
<1>4. ASSUME NEW e \in HeaderFaults \cup {"reorg_detected"}, End(e),
             {before', after'} \subseteq Hashes \cup {NoHash}
      PROVE  IInv'
  <2>1. e \in Outcomes \ {"pending"}
    BY <1>4 DEF HeaderFaults, Outcomes
  <2> QED
    BY <1>1, <1>2, <1>4, <2>1, EndKeeps
<1>5. ASSUME NEW h \in Hashes, CompareSecond(h) PROVE IInv'
  BY <1>2, <1>3, <1>4, <1>5 DEF CompareSecond
<1> QED
  BY <1>1, <1>2, <1>4, <1>5

\* Every step keeps the inductive invariant.
LEMMA StepIInv == IInv /\ [Next]_vars => IInv'
<1> SUFFICES ASSUME IInv, [Next]_vars PROVE IInv'
  OBVIOUS
<1> USE DEF IInv
<1>0. /\ filter.from \in Int /\ upper \in Int /\ start \in Int
      /\ filter.from \in Block /\ filter.to \in Block
  BY SweepAssumption DEF TypeOK, Filter, Block
<1>1. CASE Plan
  <2>1. /\ pc = "begin" /\ argv.dryRun /\ printed = <<>> /\ asked = <<>> /\ logs = <<>>
        /\ upper = filter.to /\ start = filter.from
        /\ UNCHANGED <<argv, filter, upper, start, asked, before, after, logs, printed,
                       view, reorgs, steady, honest>>
    BY <1>1 DEF Plan, Place, input, node
  <2>2. CASE End("output_limit")
    <3>1. "output_limit" \in Outcomes \ {"pending"}
      BY DEF Outcomes
    <3>2. {before', after'} \subseteq Hashes \cup {NoHash} /\ honest' \in BOOLEAN
      BY <2>1 DEF TypeOK
    <3> QED
      BY <2>1, <2>2, <3>1, <3>2, EndKeeps
  <2>3. CASE filter.latest /\ pc' = "emit" /\ UNCHANGED outcome
    <3>1. TypeOK'
      BY <2>1, <2>3 DEF TypeOK
    <3>2. Place'
      BY <2>1, <2>3 DEF Place
    <3>3. Adjacent' /\ Reached' /\ LogsAreOrdered'
      BY <2>1, <2>3 DEF Adjacent, Reached, Complete, LogsAreOrdered
    <3> QED
      BY <3>1, <3>2, <3>3
  <2>4. CASE ~filter.latest /\ pc' = "chunk" /\ UNCHANGED outcome
    <3>1. TypeOK'
      BY <2>1, <2>4 DEF TypeOK
    <3>2. Place'
      BY <1>0, <2>1, <2>4 DEF Place
    <3>3. Adjacent' /\ Reached' /\ LogsAreOrdered'
      BY <2>1, <2>4 DEF Adjacent, Reached, Complete, LogsAreOrdered
    <3> QED
      BY <3>1, <3>2, <3>3
  <2> QED
    BY <1>1, <2>2, <2>3, <2>4 DEF Plan
<1>2. CASE Begin
  <2>1. /\ pc = "begin" /\ ~argv.dryRun /\ printed = <<>> /\ asked = <<>> /\ logs = <<>>
        /\ start = filter.from
        /\ UNCHANGED <<argv, filter, start, asked, before, after, logs, printed,
                       view, reorgs, steady, honest>>
    BY <1>2 DEF Begin, Place, input, node
  <2>2. CASE ~filter.latest
    <3>1. Fix(filter.to) /\ honest' \in BOOLEAN
      BY <1>2, <2>1, <2>2 DEF Begin, TypeOK
    <3> QED
      BY <1>0, <2>1, <3>1, FixKeeps
  <2>3. CASE filter.latest
    <3>1. pc' = "latest" /\ UNCHANGED <<upper, outcome>>
      BY <1>2, <2>3 DEF Begin
    <3>2. TypeOK'
      BY <2>1, <3>1 DEF TypeOK
    <3>3. Place'
      BY <2>1, <3>1 DEF Place
    <3>4. Adjacent' /\ Reached' /\ LogsAreOrdered'
      BY <2>1, <3>1 DEF Adjacent, Reached, Complete, LogsAreOrdered
    <3> QED
      BY <3>2, <3>3, <3>4
  <2> QED
    BY <2>2, <2>3 DEF TypeOK, Filter
<1>3. CASE Resolve
  <2>1. /\ pc = "latest" /\ printed = <<>> /\ asked = <<>> /\ logs = <<>>
        /\ UNCHANGED <<argv, filter, start, asked, before, after, logs, printed, view, reorgs, steady>>
        /\ honest' \in BOOLEAN
        /\ \/ \E b \in Block : Fix(b)
           \/ End("invalid_latest_block") /\ UNCHANGED upper
    <3>1. Tip(view) \in Block
      BY SweepAssumption DEF TypeOK
    <3>2. ASSUME NEW answer, IsQuantity(answer) PROVE answer.number \in Block
      BY <3>2 DEF IsQuantity
    <3> QED
      BY <1>3, <3>1, <3>2 DEF Resolve, Honestly, Oddly, node, input, Place, TypeOK
  <2>2. ASSUME End("invalid_latest_block"), UNCHANGED upper PROVE IInv'
    <3>1. "invalid_latest_block" \in Outcomes \ {"pending"}
      BY DEF Outcomes
    <3>2. {before', after'} \subseteq Hashes \cup {NoHash}
      BY <2>1 DEF TypeOK
    <3> QED
      BY <2>1, <2>2, <3>1, <3>2, EndKeeps
  <2>3. ~argv.dryRun
    BY <2>1 DEF Place
  <2> QED
    BY <2>1, <2>2, <2>3, FixKeeps
<1>4. CASE Before
  BY <1>4, BeforeKeeps
<1>5. CASE Chunk
  <2> DEFINE to == ChunkEnd(start, upper)
             chunk == [from |-> start, to |-> to]
  <2>1. /\ pc = "chunk" /\ filter.from <= start /\ start <= upper
        /\ outcome = "pending" /\ printed = <<>>
        /\ argv.dryRun \/ before # NoHash
    BY <1>5 DEF Chunk, Place
  <2>2. /\ to \in Block /\ start <= to /\ to <= upper
        /\ to - start < filter.size
        /\ to # upper => Word(to + 1) = to + 1 /\ to + 1 \in Block
    <3>1. start \in Block /\ upper \in Block
      BY DEF TypeOK
    <3>2. /\ to \in Block /\ start <= to /\ to <= upper
          /\ to - start < filter.size
          /\ to # upper => Word(to + 1) = to + 1
      BY <2>1, <3>1, ChunkEndInRange
    <3> QED
      BY <3>1, <3>2, SweepAssumption DEF Block
  <2> HIDE DEF to
  <2>3. /\ asked' = Append(asked, chunk)
        /\ UNCHANGED <<argv, filter, upper, before, after, printed, view, reorgs, steady>>
        /\ honest' \in BOOLEAN
        /\ \/ argv.dryRun /\ Advance(to) /\ UNCHANGED logs
           \/ ~argv.dryRun /\ \E items \in Seq(Log) : TakeLogs(items, to)
           \/ ~argv.dryRun /\ End("invalid_logs") /\ UNCHANGED <<logs, start>>
    <3>1. /\ asked' = Append(asked, chunk)
          /\ UNCHANGED <<argv, filter, upper, before, after, printed>>
          /\ \/ argv.dryRun /\ Advance(to) /\ UNCHANGED logs /\ Honestly
             \/ /\ ~argv.dryRun /\ Honestly
                /\ TakeLogs(LogsFor(view, ForChunk(argv.fields, start, to)), to)
             \/ ~argv.dryRun /\ \E items \in OddLogs : TakeLogs(items, to) /\ Oddly
             \/ ~argv.dryRun /\ End("invalid_logs") /\ Oddly /\ UNCHANGED <<logs, start>>
      BY <1>5 DEF Chunk, to, input
    <3>2. LogsFor(view, ForChunk(argv.fields, start, to)) \in Seq(Log)
      <4>1. argv \in Commands /\ view \in Forks /\ start \in Block
        BY DEF TypeOK
      <4>2. ParsesAsLogFilter(argv.fields)
        BY <2>1 DEF Place
      <4> QED
        BY <2>2, <4>1, <4>2, SweepAssumption
    <3>3. UNCHANGED <<view, reorgs, steady>> /\ honest' \in BOOLEAN
      BY <3>1 DEF Honestly, Oddly, node, TypeOK
    <3>4. OddLogs \subseteq Seq(Log)
      BY SweepAssumption
    <3> QED
      BY <3>1, <3>2, <3>3, <3>4
  <2>4. /\ \/ Advance(to)
           \/ \E r \in Outcomes \ {"pending", "evidence", "plan"} : End(r) /\ UNCHANGED start
        /\ logs' \in Seq(Log) /\ LogsAreOrdered'
    <3>1. CASE UNCHANGED logs
      <4>1. LogsAreOrdered' /\ logs' \in Seq(Log)
        BY <2>3, <3>1 DEF LogsAreOrdered, TypeOK
      <4> QED
        BY <2>3, <4>1, FaultIsOutcome DEF TakeLogs, Outcomes
    <3>2. CASE ~UNCHANGED logs
      <4>1. PICK items \in Seq(Log) : TakeLogs(items, to)
        BY <2>3, <3>2
      <4>2. /\ Sound(items, Len(items), start, to)
            /\ logs' = logs \o items
            /\ Advance(to)
        BY <3>2, <4>1 DEF TakeLogs
      <4> QED
        BY <2>1, <2>2, <2>3, <4>2, SoundLogsExtend
    <3> QED
      BY <3>1, <3>2
  <2>5. /\ Len(asked) \in Nat
        /\ Len(asked') = Len(asked) + 1
        /\ asked' \in Seq([from : Block, to : Block]) /\ asked' # <<>>
        /\ asked'[Len(asked')] = chunk
        /\ \A i \in 1 .. Len(asked) : asked'[i] = asked[i]
    <3>1. chunk \in [from : Block, to : Block]
      BY <2>2 DEF TypeOK
    <3>2. asked \in Seq([from : Block, to : Block])
      BY DEF TypeOK
    <3> QED
      BY <2>3, <3>1, <3>2, AppendProperties, LenProperties
  <2>6. TypeOK'
    <3>1. printed' = <<>>
      BY <2>1, <2>3
    <3>2. pc' \in {"chunk", "after", "emit", "done"} /\ outcome' \in Outcomes /\ start' \in Block
      BY <2>1, <2>2, <2>4 DEF Advance, End, Outcomes, TypeOK
    <3> QED
      BY <2>3, <2>4, <2>5, <3>1, <3>2 DEF TypeOK
  <2>7. Place'
    <3>1. /\ printed' = <<>> /\ ParsesAsLogFilter(argv'.fields)
          /\ argv'.dryRun \/ before' # NoHash
      BY <2>1, <2>3 DEF Place
    <3>2. CASE Advance(to)
      <4>1. Last(asked').to = to /\ filter.from <= to
        BY <1>0, <2>1, <2>2, <2>5 DEF Last, Block
      <4>2. UNCHANGED outcome /\ pc' \in {"chunk", "after", "emit"}
        BY <2>1, <3>2 DEF Advance
      <4>3. pc' = "chunk" => start' = to + 1 /\ to # upper
        BY <2>2, <3>2 DEF Advance
      <4>4. pc' \in {"after", "emit"} => to = upper
        BY <2>1, <3>2 DEF Advance
      <4>5. pc' = "emit" => argv.dryRun
        BY <2>1, <3>2 DEF Advance
      <4>6. /\ UNCHANGED <<argv, filter, upper>> /\ outcome' = "pending" /\ asked' # <<>>
            /\ filter.from <= upper
        BY <2>1, <2>3, <2>5, <4>1, <4>2, <1>0, <2>2 DEF TypeOK, Block, Filter
      <4>7. CASE pc' = "chunk"
        <5>1. to \in Int /\ upper \in Int /\ filter.from \in Int /\ to <= upper
          BY <1>0, <2>2 DEF TypeOK, Block, Filter
        <5>2. filter.from <= start' /\ start' <= upper
          BY <4>1, <4>3, <4>7, <5>1
        <5> QED
          BY <3>1, <4>6, <4>7, <5>2 DEF Place
      <4>8. CASE pc' \in {"after", "emit"}
        BY <3>1, <4>1, <4>4, <4>5, <4>6, <4>8 DEF Place
      <4> QED
        BY <4>2, <4>7, <4>8
    <3>3. CASE ~Advance(to)
      BY <2>1, <2>4, <3>1, <3>3 DEF Place, End
    <3> QED
      BY <3>2, <3>3
  <2>8. Adjacent'
    <3>1. start = IF asked = <<>> THEN filter.from ELSE asked[Len(asked)].to + 1
      BY <2>1 DEF Adjacent
    <3>2. asked = <<>> <=> Len(asked) = 0
      BY EmptySeq DEF TypeOK
    <3>3. ASSUME NEW i \in 1 .. Len(asked')
          PROVE  /\ asked'[i].from <= asked'[i].to /\ asked'[i].to <= upper
                 /\ asked'[i].to - asked'[i].from < filter.size
                 /\ asked'[i].from = IF i = 1 THEN filter.from ELSE asked'[i - 1].to + 1
      <4>1. CASE i <= Len(asked)
        BY <2>5, <3>3, <4>1 DEF Adjacent
      <4>2. CASE i = Len(asked) + 1
        BY <2>2, <2>5, <3>1, <3>2, <3>3, <4>2
      <4> QED
        BY <2>5, <3>3, <4>1, <4>2
    <3>4. pc' = "chunk" => start' = asked'[Len(asked')].to + 1
      BY <2>1, <2>2, <2>4, <2>5 DEF Advance, End
    <3> QED
      BY <2>3, <2>5, <3>3, <3>4 DEF Adjacent
  <2>9. Reached'
    BY <2>1, <2>3 DEF Reached, Complete
  <2> QED
    BY <2>4, <2>6, <2>7, <2>8, <2>9
<1>6. CASE After
  BY <1>6, AfterKeeps
<1>7. CASE CallFails
  <2>1. "call_failed" \in Outcomes \ {"pending"}
    BY DEF Outcomes
  <2>2. {before', after'} \subseteq Hashes \cup {NoHash} /\ honest' \in BOOLEAN
    BY <1>7 DEF CallFails, TypeOK, node
  <2> QED
    BY <1>7, <2>1, <2>2, EndKeeps DEF CallFails, input, node
<1>8. CASE Reorg
  <2>1. UNCHANGED <<argv, filter, pc, upper, start, asked, before, after, logs, printed, outcome>>
    BY <1>8 DEF Reorg, client
  <2>2. Printable' = Printable
    BY <2>1, Zenon DEF Printable, PlanRecord, Records, Checkpoint, LogRecord, Summary
  <2>3. TypeOK'
    BY <1>8, <2>1, <2>2, SweepAssumption DEF TypeOK, Reorg
  <2>4. Place' /\ Adjacent' /\ Reached' /\ LogsAreOrdered'
    BY <2>1 DEF Place, Adjacent, Reached, Complete, LogsAreOrdered
  <2> QED
    BY <2>3, <2>4
<1>9. CASE Emit
  <2>1. /\ pc = "emit" /\ printed = <<>> /\ outcome = "pending"
        /\ UNCHANGED <<argv, filter, upper, start, asked, before, after, logs,
                       view, reorgs, steady, honest>>
        /\ ~(argv.dryRun /\ filter.latest) =>
             /\ asked # <<>> /\ Last(asked).to = upper
             /\ ~argv.dryRun => before # NoHash /\ after = before
    BY <1>9 DEF Emit, Place, input, node
  <2>2. Printable' = Printable
    BY <2>1, Zenon DEF Printable, PlanRecord, Records, Checkpoint, LogRecord, Summary
  <2>3. pc' = "done" /\ outcome' \in {"plan", "evidence", "output_error"}
        /\ printed' \in {<<>>, Printable'}
    BY <1>9, <2>1, <2>2 DEF Emit, End
  <2>4. outcome' \in Outcomes \ {"pending"}
    BY <2>3 DEF Outcomes
  <2>5. TypeOK'
    BY <2>1, <2>3, <2>4 DEF TypeOK
  <2>6. Place'
    BY <2>3, <2>4 DEF Place
  <2>7. Adjacent' /\ LogsAreOrdered'
    BY <2>1, <2>3 DEF Adjacent, LogsAreOrdered
  <2>8. Reached'
    BY <2>1 DEF Reached, Complete, Last
  <2> QED
    BY <2>5, <2>6, <2>7, <2>8
<1>10. CASE UNCHANGED vars
  <2>1. Printable' = Printable
    BY <1>10, Zenon DEF vars, Printable, PlanRecord, Records, Checkpoint, LogRecord, Summary
  <2> QED
    BY <1>10, <2>1 DEF TypeOK, Place, Adjacent, Reached, Complete, LogsAreOrdered, vars
<1>11. CASE Start
  BY <1>11, StartKeeps
<1> QED
  BY <1>1, <1>2, <1>3, <1>4, <1>5, <1>6, <1>7, <1>8, <1>9, <1>10, <1>11 DEF Next, Command

\* The initial states satisfy the inductive invariant.
LEMMA InitIInv == Init => IInv
<1> SUFFICES ASSUME Init PROVE IInv
  OBVIOUS
<1> USE DEF Init
<1>1. 0 \in Block /\ filter \in Filter
  BY SweepAssumption DEF Block, Filter, NoFilter
<1>2. asked \in Seq([from : Block, to : Block]) /\ logs \in Seq(Log)
  OBVIOUS
<1>3. reorgs \in 0 .. MaxReorgs
  BY SweepAssumption
<1>4. TypeOK
  BY <1>1, <1>2, <1>3 DEF TypeOK, Outcomes
<1>5. Place
  BY <1>1 DEF Place
<1>6. Adjacent /\ Reached /\ LogsAreOrdered
  BY DEF Adjacent, Reached, Complete, LogsAreOrdered
<1> QED
  BY <1>4, <1>5, <1>6 DEF IInv

-----------------------------------------------------------------------------
\* The inductive invariant holds in every behaviour of the logs command.
THEOREM Invariance == Spec => []IInv
BY InitIInv, StepIInv, PTL DEF Spec

\* The state of the logs command has its types, the printed records their form.
THEOREM TypeCorrect == Spec => []TypeOK
<1>1. IInv => TypeOK
  BY DEF IInv
<1> QED
  BY <1>1, Invariance, PTL

\* The chunks asked for are adjacent, of the size allowed and within the range;
\* evidence, or a finished plan, reaches the upper block.
THEOREM ChunksCoverTheRange == Spec => []RangeIsCovered
<1>1. IInv => RangeIsCovered
  BY DEF IInv, RangeIsCovered
<1> QED
  BY <1>1, Invariance, PTL

\* No provider can make the accepted logs repeat, go back or leave the range.
THEOREM AcceptedLogsAreOrdered == Spec => []LogsAreOrdered
<1>1. IInv => LogsAreOrdered
  BY DEF IInv
<1> QED
  BY <1>1, Invariance, PTL

\* The loop's start rises with every turn, up to the highest block number: the
\* machine arithmetic never sends it back.
THEOREM TheLoopAdvances == Spec => StartRises
<1>1. IInv /\ [Next]_vars => [Rise]_vars
  <2> SUFFICES ASSUME IInv, Next, pc = "chunk", pc' = "chunk", asked' # asked
               PROVE  start' > start
    BY DEF Rise
  <2>1. Chunk
    <3>1. ~Start /\ ~Plan /\ ~Begin /\ ~Emit /\ ~CallFails
      BY DEF Start, Plan, Begin, Emit, CallFails
    <3>2. ~Resolve /\ ~Before /\ ~After
      BY DEF Resolve, Before, After
    <3>3. ~Reorg
      BY DEF Reorg, client
    <3> QED
      BY <3>1, <3>2, <3>3 DEF Next, Command
  <2>2. start \in Block /\ upper \in Block /\ start <= upper
    BY DEF IInv, TypeOK, Place
  <2>3. TypeOK
    BY DEF IInv
  <2>4. Advance(ChunkEnd(start, upper))
    <3>1. Chunk /\ pc' # "done"
      BY <2>1
    <3> QED
      BY <3>1 DEF Chunk, TakeLogs, End
  <2> DEFINE to == ChunkEnd(start, upper)
  <2>5. /\ to \in Block /\ start <= to
        /\ to # upper => Word(to + 1) = to + 1
    BY <2>2, <2>3, ChunkEndInRange
  <2> HIDE DEF to
  <2>6. start' = Word(to + 1) /\ to # upper
    BY <2>4 DEF Advance, End, to
  <2> QED
    BY <2>2, <2>5, <2>6, SweepAssumption DEF Block
<1> QED
  BY <1>1, Invariance, PTL DEF Spec, StartRises

-----------------------------------------------------------------------------
(***************************************************************************)
(* The count: every chunk but the last holds size blocks.                    *)
(***************************************************************************)
Paced ==
  /\ pc = "chunk" => start = filter.from + Len(asked) * filter.size
  /\ (pc \in {"after", "emit"} /\ ~(argv.dryRun /\ filter.latest)) \/ Complete =>
       /\ Len(asked) # 0
       /\ filter.from + (Len(asked) - 1) * filter.size <= upper
       /\ upper < filter.from + Len(asked) * filter.size

\* Quotients by their bounds.
LEMMA QuotientBetween ==
  ASSUME NEW a \in Nat, NEW n \in Nat, NEW s \in Nat \ {0}, n * s <= a, a < (n + 1) * s
  PROVE  a \div s = n
<1> DEFINE q == a \div s
<1>1. q \in Int /\ q * s <= a /\ a < (q + 1) * s
  OBVIOUS
<1> HIDE DEF q
<1>2. n * s < (q + 1) * s /\ q * s < (n + 1) * s
  BY <1>1
<1>3. n < q + 1
  BY <1>1, <1>2
<1>4. q < n + 1
  BY <1>1, <1>2
<1> QED
  BY <1>1, <1>3, <1>4 DEF q

\* A turn of the loop asks for one chunk, which is whole unless it is the last.
LEMMA ChunkPaces ==
  ASSUME IInv, Paced, pc = "chunk", outcome = "pending", printed = <<>>, Chunk, Advance(ChunkEnd(start, upper))
  PROVE  Paced'
<1> DEFINE to == ChunkEnd(start, upper)
<1>1. /\ start \in Block /\ upper \in Block /\ start <= upper
      /\ filter.from \in Nat /\ filter.size \in Nat \ {0} /\ Len(asked) \in Nat
      /\ start = filter.from + Len(asked) * filter.size
  BY LenProperties DEF IInv, TypeOK, Place, Paced, Filter, Block
<1>2. /\ Len(asked') = Len(asked) + 1
      /\ UNCHANGED <<argv, filter, upper, printed>>
  BY AppendProperties, <1>1 DEF Chunk, input, IInv, TypeOK
<1>3. Word(upper - start) = upper - start
  <2>1. upper - start \in Block
    BY <1>1, SweepAssumption DEF Block
  <2> QED
    BY <2>1, WordOfBlock
<1>4. to = IF upper - start >= filter.size THEN start + filter.size - 1 ELSE upper
  <2>1. upper - start >= filter.size => start + filter.size - 1 \in Block
    BY <1>1, SweepAssumption DEF Block
  <2> QED
    BY <1>3, <2>1, WordOfBlock DEF ChunkEnd
<1>5. to # upper => Word(to + 1) = to + 1
  BY <1>1, ChunkEndInRange DEF IInv
<1> HIDE DEF to
<1>6. (Len(asked) + 1) * filter.size = Len(asked) * filter.size + filter.size
  <2>1. \A n, d \in Nat : (n + 1) * d = n * d + d
    OBVIOUS
  <2> QED
    BY <1>1, <2>1
<1>7. Len(asked) + 1 - 1 = Len(asked)
  <2>1. \A n \in Nat : n + 1 - 1 = n
    OBVIOUS
  <2> QED
    BY <1>1, <2>1
<1>8. CASE to # upper
  <2>1. start' = to + 1 /\ pc' = "chunk"
    BY <1>5, <1>8 DEF Advance, to
  <2>2. start' = start + filter.size
    BY <1>1, <1>4, <1>8, <2>1 DEF Block
  <2>3. start' = filter.from + (Len(asked) + 1) * filter.size
    BY <1>1, <1>6, <2>2
  <2> QED
    BY <1>2, <2>1, <2>3 DEF Paced, Complete
<1>9. CASE to = upper
  <2>1. pc' \in {"after", "emit"}
    BY <1>9 DEF Advance, to
  <2>2. upper < start + filter.size
    BY <1>1, <1>4, <1>9 DEF Block
  <2>3. filter.from + Len(asked) * filter.size <= upper
        /\ upper < filter.from + (Len(asked) + 1) * filter.size
    BY <1>1, <1>6, <2>2 DEF Block
  <2>4. filter.from + (Len(asked') - 1) * filter'.size <= upper'
        /\ upper' < filter'.from + Len(asked') * filter'.size /\ Len(asked') # 0
    BY <1>1, <1>2, <1>7, <2>3
  <2> QED
    BY <1>2, <2>1, <2>4 DEF Paced, Complete
<1> QED
  BY <1>8, <1>9

\* Every step keeps the planned chunks full, but for the last.
LEMMA PacedKeeps == IInv /\ Paced /\ [Next]_vars => Paced'
<1> SUFFICES ASSUME IInv, Paced, [Next]_vars PROVE Paced'
  OBVIOUS
<1>0. Place
  BY DEF IInv
<1>1. CASE Chunk
  <2>1. pc = "chunk" /\ outcome = "pending" /\ printed = <<>> /\ UNCHANGED printed
    BY <1>0, <1>1 DEF Chunk, Place
  <2>2. CASE Advance(ChunkEnd(start, upper))
    BY <1>1, <2>1, <2>2, ChunkPaces
  <2>3. CASE ~Advance(ChunkEnd(start, upper))
    <3>1. pc' = "done"
      BY <1>1, <2>3 DEF Chunk, TakeLogs, End
    <3> QED
      BY <2>1, <3>1 DEF Paced, Complete
  <2> QED
    BY <2>2, <2>3
<1>2. CASE Start \/ Begin \/ Resolve \/ CallFails
  <2>1. printed' = <<>> /\ pc' \notin {"chunk", "after", "emit"}
    BY <1>0, <1>2 DEF Start, Begin, Resolve, CallFails, Fix, End, Place
  <2> QED
    BY <2>1 DEF Paced, Complete
<1>3. CASE Plan
  <2>1. /\ printed' = <<>> /\ asked' = <<>> /\ pc = "begin" /\ start = filter.from
        /\ argv.dryRun /\ UNCHANGED <<argv, filter, start, upper>>
    BY <1>0, <1>3 DEF Plan, Place, input
  <2>2. pc' = "done" \/ (pc' = "emit" /\ filter.latest) \/ pc' = "chunk"
    BY <1>3 DEF Plan, End
  <2>3. start' = filter'.from + Len(asked') * filter'.size
    <3>1. filter.from \in Nat /\ filter.size \in Nat /\ Len(asked') = 0
      BY <2>1 DEF IInv, TypeOK, Filter, Block
    <3> QED
      BY <2>1, <3>1
  <2> QED
    BY <2>1, <2>2, <2>3 DEF Paced, Complete
<1>4. CASE Before
  <2>1. /\ printed' = <<>> /\ asked' = <<>> /\ start = filter.from
        /\ UNCHANGED <<filter, start>> /\ pc = "before"
    BY <1>0, <1>4 DEF Before, Place, input
  <2>2. pc' \in {"chunk", "done"}
    BY <1>4, Zenon DEF Before, FetchHeader, KeepFirst, End
  <2>3. start' = filter'.from + Len(asked') * filter'.size
    <3>1. filter.from \in Nat /\ filter.size \in Nat /\ Len(asked') = 0
      BY <2>1 DEF IInv, TypeOK, Filter, Block
    <3> QED
      BY <2>1, <3>1
  <2> QED
    BY <2>1, <2>2, <2>3 DEF Paced, Complete
<1>5. CASE After
  <2>1. printed' = <<>> /\ pc = "after" /\ UNCHANGED <<argv, filter, upper, start, asked>>
    BY <1>0, <1>5 DEF After, Place, input
  <2>2. pc' \in {"emit", "done"}
    BY <1>5, Zenon DEF After, FetchHeader, CompareSecond, End
  <2>3. ~(argv.dryRun /\ filter.latest) \/ (argv.dryRun /\ filter.latest)
    OBVIOUS
  <2> QED
    BY <2>1, <2>2 DEF Paced, Complete
<1>6. CASE Emit
  <2>1. pc = "emit" /\ pc' = "done" /\ UNCHANGED <<argv, filter, upper, start, asked>>
    BY <1>6 DEF Emit, End, input
  <2> QED
    BY <2>1 DEF Paced, Complete
<1>7. CASE Reorg \/ UNCHANGED vars
  BY <1>7 DEF Reorg, client, vars, Paced, Complete
<1> QED
  BY <1>1, <1>2, <1>3, <1>4, <1>5, <1>6, <1>7 DEF Next, Command

\* The count that guards the plan is the number of chunks of every finished
\* sweep and plan, for every width of a block number and every chunk size.
THEOREM TheCountIsExact == Spec => []CountIsExact
<1>1. Init => Paced
  BY DEF Init, Paced, Complete
<1>2. IInv /\ Paced => CountIsExact
  <2> SUFFICES ASSUME IInv, Paced, Complete PROVE Word(Len(asked)) = ChunkCount(filter.from, upper)
    BY DEF CountIsExact
  <2>1. /\ filter.from \in Block /\ upper \in Block /\ filter.size \in Nat \ {0}
        /\ Len(asked) \in Nat
    BY LenProperties DEF IInv, TypeOK, Filter
  <2> DEFINE n == Len(asked) - 1
  <2>2. /\ n \in Nat /\ filter.from \in Nat /\ upper \in Nat /\ Len(asked) = n + 1
        /\ filter.from + n * filter.size <= upper
        /\ upper < filter.from + (n + 1) * filter.size
    BY <2>1 DEF Paced, Block
  <2> HIDE DEF n
  <2>3. /\ n * filter.size \in Nat /\ (n + 1) * filter.size \in Nat
    BY <2>1, <2>2
  <2>4. /\ upper - filter.from \in Nat /\ upper - filter.from \in Block
        /\ n * filter.size <= upper - filter.from
        /\ upper - filter.from < (n + 1) * filter.size
    BY <2>1, <2>2, <2>3, SweepAssumption DEF Block
  <2>5. (upper - filter.from) \div filter.size = n
    BY <2>1, <2>2, <2>4, QuotientBetween
  <2>6. Word(upper - filter.from) = upper - filter.from
    BY <2>4, WordOfBlock
  <2> QED
    BY <2>2, <2>5, <2>6 DEF ChunkCount
<1> QED
  BY <1>1, <1>2, Invariance, PacedKeeps, PTL DEF Spec

-----------------------------------------------------------------------------
(* Against honest nodes, whatever their chain does between two calls.  Seen:  *)
(* a fork shows the first checkpoint; Upto: its logs as far as was asked.     *)

Seen(f) == upper <= Tip(f) /\ Hash(f, upper) = before

Upto(f) == IF asked = <<>> THEN <<>> ELSE LogsOf(f, argv.fields, filter.from, Last(asked).to)

(***************************************************************************)
(* While the loop runs, the logs are those of the present fork, should it     *)
(* show the first checkpoint; while only the head moves it does.  That is      *)
(* kept by any move of the head, and by one change of another kind: a fork     *)
(* that shows the checkpoint agrees with the fork it follows on everything    *)
(* asked so far.                                                             *)
(***************************************************************************)
Mild == steady \/ reorgs <= 1

Gathered ==
  /\ pc \notin {"start", "done"} => argv.fields["fromBlock"] = Quantity(filter.from)
  /\ asked # <<>> => filter.from <= Last(asked).to
  /\ pc = "after" \/ outcome = "evidence" => ~argv.dryRun
  /\ reorgs = 0 => steady
  /\ honest /\ Mild /\ ~argv.dryRun =>
       /\ pc \in {"chunk", "after"} =>
            /\ Seen(view) => logs = Upto(view)
            /\ steady => Seen(view)
       /\ pc = "emit" \/ outcome = "evidence" =>
            /\ FromOneChain
            /\ steady => Seen(view) /\ logs = LogsFor(view, Unsplit)
  /\ honest /\ steady => outcome \notin Accusations

\* The last chunk asked for is a range of block numbers below the upper one.
LEMMA LastChunk ==
  ASSUME IInv, asked # <<>>
  PROVE  /\ Len(asked) \in Nat /\ Len(asked) >= 1
         /\ Last(asked).to \in Block /\ Last(asked).to <= upper
<1>1. Len(asked) \in Nat /\ Len(asked) >= 1
  BY EmptySeq, LenProperties DEF IInv, TypeOK
<1>2. asked[Len(asked)] \in [from : Block, to : Block]
  <2>1. asked \in Seq([from : Block, to : Block]) /\ Len(asked) \in 1 .. Len(asked)
    BY <1>1 DEF IInv, TypeOK
  <2> QED
    BY <2>1, ElementOfSeq
<1>3. asked[Len(asked)].to <= upper
  BY <1>1 DEF IInv, Adjacent
<1> QED
  BY <1>1, <1>2, <1>3 DEF Last

\* The whole filter, "latest" resolved, asks for all blocks from the lower one.
LEMMA UnsplitIsWhole ==
  ASSUME ParsesAsLogFilter(argv.fields), argv.fields["fromBlock"] = Quantity(filter.from)
  PROVE  \A f : LogsFor(f, Unsplit) = LogsOf(f, argv.fields, filter.from, upper)
<1>1. "fromBlock" \in DOMAIN argv.fields /\ "toBlock" \in DOMAIN argv.fields
  BY DEF ParsesAsLogFilter
<1>2. Unsplit = ForChunk(argv.fields, filter.from, upper)
  BY <1>1 DEF Unsplit, ForChunk
<1> QED
  BY <1>2 DEF LogsOf

\* An honest node's chunk continues the logs of its fork, and has no fault.
LEMMA HonestChunk ==
  ASSUME IInv, Gathered, pc = "chunk", ~argv.dryRun, logs = Upto(view),
         NEW to \in Block, start <= to,
         NEW items, items = LogsOf(view, argv.fields, start, to)
  PROVE  /\ logs \o items = LogsOf(view, argv.fields, filter.from, to)
         /\ \A i \in 1 .. Len(items) : ItemFault(items, i, start, to) = "none"
<1> DEFINE whole == LogsOf(view, argv.fields, filter.from, to)
<1>0. /\ ParsesAsLogFilter(argv.fields) /\ argv \in Commands /\ view \in Forks
      /\ start \in Block /\ filter.from \in Block /\ filter.from <= start
      /\ logs \in Seq(Log)
  BY DEF IInv, Place, TypeOK, Filter
<1>1. items \in Seq(Log) /\ whole \in Seq(Log)
  BY <1>0, SweepAssumption DEF LogsOf
<1>2. /\ \A i \in 1 .. Len(items) : LogFault(items[i], start, to) = "none"
      /\ \A i \in 2 .. Len(items) : Precedes(items[i - 1].pos, items[i].pos)
      /\ \A i \in 2 .. Len(whole) : Precedes(whole[i - 1].pos, whole[i].pos)
  BY <1>0, ChainAssumption
<1>3. logs \o items = whole
  <2>1. CASE asked = <<>>
    <3>1. logs = <<>> /\ start = filter.from
      BY <2>1 DEF Upto, IInv, Adjacent
    <3>2. <<>> \o items = items
      BY <1>1
    <3> QED
      BY <3>1, <3>2
  <2>2. CASE asked # <<>>
    <3> DEFINE m == Last(asked).to
    <3>1. m \in Block /\ filter.from <= m
      BY <2>2, LastChunk DEF Gathered
    <3>2. start = m + 1
      BY <2>2 DEF IInv, Adjacent, Last
    <3> HIDE DEF m
    <3>3. m \in filter.from .. to - 1
      BY <1>0, <3>1, <3>2, SweepAssumption DEF Block
    <3>4. LogsOf(view, argv.fields, filter.from, m) \o LogsOf(view, argv.fields, m + 1, to) = whole
      BY <1>0, <3>3, ChainAssumption
    <3>5. logs = LogsOf(view, argv.fields, filter.from, m)
      BY <2>2 DEF Upto, m
    <3> QED
      BY <3>2, <3>4, <3>5
  <2> QED
    BY <2>1, <2>2
<1>4. ASSUME NEW i \in 1 .. Len(items) PROVE ItemFault(items, i, start, to) = "none"
  <2>1. items[i] \in Log /\ Len(items) \in Nat /\ Len(logs) \in Nat
    BY <1>0, <1>1, ElementOfSeq, LenProperties
  <2>2. Precedes(Predecessor(items, i), items[i].pos)
    <3>1. CASE i > 1
      BY <1>2, <2>1, <3>1 DEF Predecessor
    <3>2. CASE i = 1 /\ logs = <<>>
      <4>1. Predecessor(items, i) = <<-1, 0, 0>>
        BY <3>2 DEF Predecessor
      <4>2. items[i].pos[1] \in Nat
        BY <2>1 DEF Log, Position
      <4> QED
        BY <4>1, <4>2 DEF Precedes
    <3>3. CASE i = 1 /\ logs # <<>>
      <4> DEFINE k == Len(logs) + 1
      <4>1. Len(logs) >= 1
        BY <1>0, <3>3, EmptySeq, <2>1
      <4>2. /\ Len(whole) = Len(logs) + Len(items) /\ k \in 2 .. Len(whole)
            /\ whole[k - 1] = logs[Len(logs)] /\ whole[k] = items[1]
        BY <1>0, <1>1, <1>3, <2>1, <3>3, <4>1, ConcatProperties
      <4>3. Precedes(whole[k - 1].pos, whole[k].pos)
        BY <1>2, <4>2
      <4>4. Predecessor(items, i) = logs[Len(logs)].pos
        BY <3>3 DEF Predecessor
      <4> QED
        BY <3>3, <4>2, <4>3, <4>4
    <3> QED
      BY <2>1, <3>1, <3>2, <3>3
  <2> QED
    BY <1>2, <2>2 DEF ItemFault
<1> QED
  BY <1>3, <1>4

\* No step but those of the loop and of the nodes has anything to gather.
LEMMA GatheredAtEnd ==
  ASSUME Gathered, UNCHANGED <<argv, filter, asked, reorgs, steady>>,
         NEW result, End(result), result # "evidence",
         honest' /\ steady' => result \notin Accusations
  PROVE  Gathered'
BY DEF Gathered, End, Last

\* The chunk of a step, with what it asked for.
LEMMA ChunkGathers == ASSUME IInv, IInv', Gathered, Chunk PROVE Gathered'
<1> DEFINE to == ChunkEnd(start, upper)
           items == LogsOf(view, argv.fields, start, to)
<1>1. /\ pc = "chunk" /\ asked' = Append(asked, [from |-> start, to |-> to])
      /\ UNCHANGED <<argv, filter, upper, before, after, printed>>
      /\ outcome = "pending" /\ argv.fields["fromBlock"] = Quantity(filter.from)
  BY DEF Chunk, input, IInv, Place, Gathered
<1>2. to \in Block /\ start <= to /\ start \in Block /\ filter.from \in Block
      /\ filter.from <= start
  BY <1>1, ChunkEndInRange DEF IInv, TypeOK, Place, Filter
<1>3. asked' # <<>> /\ Last(asked') = [from |-> start, to |-> to]
  <2>1. asked \in Seq([from : Block, to : Block])
    BY DEF IInv, TypeOK
  <2> QED
    BY <1>1, <1>2, <2>1, AppendProperties, EmptySeq, LenProperties DEF Last
<1>4. Last(asked').to = to /\ filter'.from <= Last(asked').to
  BY <1>1, <1>2, <1>3, SweepAssumption DEF Block
<1>5. pc' = "done" => outcome' \in {"invalid_logs", "invalid_log", "contradictory_log", "contradictory_logs"}
  <2>1. \A i, list : ItemFault(list, i, start, to) \in
           {"none", "invalid_log", "contradictory_log", "contradictory_logs"}
    BY FaultIsOutcome
  <2> QED
    BY <1>1, <2>1 DEF Chunk, TakeLogs, End, Advance
<1>6. pc' \in {"chunk", "after", "emit", "done"} /\ (pc' # "done" => outcome' = "pending")
  BY <1>1 DEF Chunk, TakeLogs, End, Advance
<1>7. ~argv.dryRun => pc' # "emit"
  BY <1>1 DEF Chunk, TakeLogs, End, Advance
<1>8. CASE argv.dryRun
  <2>1. UNCHANGED <<outcome, reorgs, steady>> /\ pc' # "after"
    BY <1>1, <1>8 DEF Chunk, Advance, Honestly, node
  <2> QED
    BY <1>1, <1>4, <1>8, <2>1 DEF Gathered, Accusations
<1>9. CASE ~argv.dryRun /\ ~honest'
  <2>1. UNCHANGED <<reorgs, steady>>
    BY DEF Chunk, Honestly, Oddly, node
  <2> QED
    BY <1>1, <1>4, <1>5, <1>6, <1>9, <2>1 DEF Gathered
<1>10. CASE ~argv.dryRun /\ honest'
  <2>1. UNCHANGED node /\ TakeLogs(items, to)
    BY <1>10 DEF Chunk, Honestly, Oddly, LogsOf
  <2>2. honest /\ honest' = honest /\ UNCHANGED <<view, reorgs, steady>>
    BY <1>10, <2>1 DEF node
  <2>3. ASSUME Mild, Seen(view)
        PROVE  /\ pc' \in {"chunk", "after"} => logs' = Upto(view)'
               /\ pc' # "done"
    <3>1. logs = Upto(view)
      BY <1>1, <1>10, <2>2, <2>3 DEF Gathered
    <3>2. /\ logs \o items = LogsOf(view, argv.fields, filter.from, to)
          /\ \A i \in 1 .. Len(items) : ItemFault(items, i, start, to) = "none"
      BY <1>1, <1>2, <1>10, <3>1, HonestChunk
    <3>3. logs' = logs \o items /\ Advance(to)
      BY <2>1, <3>2 DEF TakeLogs
    <3> QED
      BY <1>1, <1>3, <1>4, <2>2, <3>2, <3>3 DEF Upto, Advance
  <2>4. Seen(view)' <=> Seen(view)
    BY <1>1, <2>2 DEF Seen
  <2>5. steady => Seen(view)
    BY <1>1, <1>10, <2>2 DEF Gathered, Mild
  <2>6. steady => outcome' = "pending"
    BY <1>6, <2>3, <2>5 DEF Mild
  <2>7. pc' # "emit" /\ outcome' # "evidence"
    BY <1>5, <1>6, <1>7, <1>10
  <2>8. /\ argv'.fields["fromBlock"] = Quantity(filter'.from)
        /\ ~argv'.dryRun /\ filter'.from <= Last(asked').to
    BY <1>1, <1>4, <1>10
  <2>9. Mild /\ pc' \in {"chunk", "after"} =>
           /\ Seen(view)' => logs' = Upto(view)'
           /\ steady' => Seen(view)'
    BY <2>2, <2>3, <2>4, <2>5
  <2> QED
    BY <2>2, <2>6, <2>7, <2>8, <2>9 DEF Gathered, Mild, Accusations, Last
<1> QED
  BY <1>8, <1>9, <1>10

\* A fork that shows the first checkpoint, like the one before it, has the same
\* logs as far as was asked.
LEMMA SameHashSameLogs ==
  ASSUME IInv, Gathered, pc \in {"chunk", "after", "emit"},
         NEW f \in Forks, NEW g \in Forks, Seen(f), Seen(g)
  PROVE  Upto(f) = Upto(g)
<1>1. CASE asked = <<>>
  BY <1>1 DEF Upto
<1>2. CASE asked # <<>>
  <2> DEFINE m == Last(asked).to
  <2>1. /\ argv \in Commands /\ ParsesAsLogFilter(argv.fields)
        /\ filter.from \in Block /\ upper \in Block
    BY DEF IInv, TypeOK, Place, Filter
  <2>2. m \in Block /\ m <= upper
    BY <1>2, LastChunk
  <2> HIDE DEF m
  <2>3. upper \in m .. Blocks - 1
    BY <2>1, <2>2, SweepAssumption DEF Block
  <2>4. upper <= Tip(f) /\ upper <= Tip(g) /\ Hash(f, upper) = Hash(g, upper)
    BY DEF Seen
  <2>5. LogsOf(f, argv.fields, filter.from, m) = LogsOf(g, argv.fields, filter.from, m)
    BY <2>1, <2>2, <2>3, <2>4, ChainAssumption
  <2> QED
    BY <1>2, <2>5 DEF Upto, m
<1> QED
  BY <1>1, <1>2

\* A head that moves on still shows the checkpoint.
LEMMA HeadMoves ==
  ASSUME TypeOK, NEW f \in Forks, NEW g \in Forks, Seen(f), Continues(g, f)
  PROVE  Seen(g)
<1>1. upper \in 0 .. Tip(f) /\ upper <= Tip(g)
  BY SweepAssumption DEF TypeOK, Seen, Continues, Block
<1> QED
  BY <1>1 DEF Seen, Continues

\* The second checkpoint of an honest node ends the loop with the logs of one
\* chain, or with the change of fork it shows.
LEMMA AfterGathers == ASSUME IInv, Gathered, After PROVE Gathered'
<1>1. /\ pc = "after" /\ outcome = "pending" /\ argv \in Commands /\ view \in Forks
      /\ UNCHANGED <<argv, filter, upper, start, asked, logs, printed>>
      /\ argv.fields["fromBlock"] = Quantity(filter.from)
      /\ asked # <<>> /\ Last(asked).to = upper
      /\ ParsesAsLogFilter(argv.fields)
  BY DEF After, input, IInv, TypeOK, Place, Gathered
<1>2. UNCHANGED <<before, reorgs, steady, view>>
  BY Zenon DEF After, FetchHeader, CompareSecond, Honestly, Oddly, node
<1>3. /\ pc' \in {"emit", "done"} /\ outcome' # "evidence"
      /\ pc' = "emit" => outcome' = "pending"
  <2>1. \A h : CompareSecond(h) => /\ pc' \in {"emit", "done"} /\ outcome' # "evidence"
                                   /\ pc' = "emit" => outcome' = "pending"
    BY <1>1 DEF CompareSecond, End
  <2>2. \A e \in {"unavailable_block", "invalid_block", "contradictory_block"} :
          End(e) => pc' = "done" /\ outcome' # "evidence"
    BY DEF End
  <2> QED
    BY <2>1, <2>2 DEF After, FetchHeader
<1>4. CASE ~honest'
  BY <1>1, <1>2, <1>3, <1>4 DEF Gathered, Last
<1>5. CASE honest'
  <2>1. /\ honest
        /\ \/ upper <= Tip(view) /\ CompareSecond(Hash(view, upper))
           \/ upper > Tip(view) /\ End("unavailable_block")
    BY <1>5, Zenon DEF After, FetchHeader, Honestly, Oddly, node
  <2>2. steady /\ ~argv.dryRun => Seen(view)
    BY <1>1, <2>1 DEF Gathered, Mild
  <2>3. CASE upper > Tip(view) /\ End("unavailable_block")
    BY <1>1, <1>2, <1>3, <2>1, <2>3 DEF Gathered, End, Accusations, Last
  <2>4. CASE upper <= Tip(view) /\ CompareSecond(Hash(view, upper))
    <3>1. CASE Hash(view, upper) = before
      <4>1. pc' = "emit" /\ outcome' = "pending" /\ Seen(view)
        BY <1>1, <2>4, <3>1 DEF CompareSecond, Seen
      <4>2. ASSUME Mild, ~argv.dryRun PROVE logs = LogsFor(view, Unsplit)
        <5>1. logs = LogsOf(view, argv.fields, filter.from, upper)
          BY <1>1, <2>1, <4>1, <4>2 DEF Gathered, Upto
        <5> QED
          BY <1>1, <5>1, UnsplitIsWhole
      <4>3. Unsplit' = Unsplit
        BY <1>1 DEF Unsplit
      <4>4. ASSUME Mild, ~argv.dryRun
            PROVE  /\ FromOneChain' /\ Seen(view)'
                   /\ logs' = LogsFor(view', Unsplit')
        BY <1>1, <1>2, <3>1, <4>1, <4>2, <4>3, <4>4 DEF FromOneChain, Seen
      <4> QED
        BY <1>1, <1>2, <2>1, <4>1, <4>4 DEF Gathered, Mild, Accusations, Last
    <3>2. CASE Hash(view, upper) # before
      <4>1. pc' = "done" /\ outcome' = "reorg_detected"
        BY <2>4, <3>2 DEF CompareSecond, End
      <4>2. ~argv.dryRun => ~steady
        BY <2>2, <3>2 DEF Seen
      <4>3. ~argv.dryRun
        BY <1>1 DEF Gathered
      <4> QED
        BY <1>1, <1>2, <4>1, <4>2, <4>3 DEF Gathered, Last
    <3> QED
      BY <3>1, <3>2
  <2> QED
    BY <2>1, <2>3, <2>4
<1> QED
  BY <1>4, <1>5

\* Every other step, and the two above, keep what has been gathered.
LEMMA GatheredKeeps == IInv /\ Gathered /\ IInv' /\ [Next]_vars => Gathered'
<1> SUFFICES ASSUME IInv, Gathered, IInv', [Next]_vars PROVE Gathered'
  OBVIOUS
<1>0. TypeOK /\ Place
  BY DEF IInv
<1>1. CASE Start
  <2>1. /\ pc = "start" /\ asked' = <<>> /\ outcome = "pending"
        /\ UNCHANGED <<argv, asked, before, after, logs, view, reorgs, steady, honest>>
    BY <1>0, <1>1 DEF Start, Place, node
  <2>2. CASE Refusal # "none"
    <3>1. Refusal \in Refusals
      BY <2>2 DEF Refusal, Refusals
    <3>2. End(Refusal) /\ UNCHANGED filter
      BY <1>1, <2>2 DEF Start
    <3>3. Refusal \notin Accusations /\ Refusal # "evidence"
      BY <3>1 DEF Refusals, Accusations
    <3> QED
      BY <2>1, <3>2, <3>3, GatheredAtEnd
  <2>3. CASE Refusal = "none"
    <3>1. /\ filter' = ParseLogFilter(argv.fields, argv.size)
          /\ pc' = "begin" /\ UNCHANGED outcome
      BY <1>1, <2>3 DEF Start
    <3>2. ParsesAsLogFilter(argv.fields) /\ argv \in Commands
      BY <1>0, <2>3 DEF Refusal, TypeOK
    <3>3. argv'.fields["fromBlock"] = Quantity(filter'.from)
      BY <2>1, <3>1, <3>2, ChainAssumption DEF ParseLogFilter
    <3> QED
      BY <2>1, <3>1, <3>3 DEF Gathered, Accusations
  <2> QED
    BY <2>2, <2>3
<1>2. CASE Plan
  <2>1. /\ argv.dryRun /\ asked = <<>> /\ pc = "begin" /\ outcome = "pending"
        /\ UNCHANGED <<argv, filter, asked, reorgs, steady>>
    BY <1>0, <1>2 DEF Plan, Place, input, node
  <2>2. \/ pc' \in {"emit", "chunk"} /\ outcome' = "pending"
        \/ pc' = "done" /\ outcome' = "output_limit"
    BY <1>2, <2>1 DEF Plan, End
  <2> QED
    BY <2>1, <2>2 DEF Gathered, Accusations, Last
<1>3. ASSUME pc \in {"begin", "latest"}, NEW to, Fix(to),
             UNCHANGED <<argv, filter, asked, reorgs, steady>>
      PROVE  Gathered'
  <2>1. asked' = <<>> /\ outcome = "pending"
    BY <1>0, <1>3 DEF Place
  <2>2. \/ pc' = "before" /\ outcome' = "pending"
        \/ pc' = "done" /\ outcome' = "unavailable_range"
    BY <1>3, <2>1 DEF Fix, End
  <2> QED
    BY <1>3, <2>1, <2>2 DEF Gathered, Accusations
<1>4. CASE Begin
  <2>1. /\ pc = "begin" /\ asked = <<>> /\ outcome = "pending"
        /\ UNCHANGED <<argv, filter, asked, reorgs, steady>>
    BY <1>0, <1>4 DEF Begin, Place, input, node
  <2>2. CASE pc' = "latest" /\ UNCHANGED outcome
    BY <2>1, <2>2 DEF Gathered, Accusations
  <2>3. CASE Fix(filter.to)
    BY <1>3, <2>1, <2>3
  <2> QED
    BY <1>4, <2>2, <2>3 DEF Begin
<1>5. CASE Resolve
  <2>1. pc = "latest" /\ UNCHANGED <<argv, filter, asked, reorgs, steady>>
    BY <1>5 DEF Resolve, input, Honestly, Oddly, node
  <2>2. \/ \E to : Fix(to)
        \/ End("invalid_latest_block") /\ honest' = FALSE
    BY <1>5 DEF Resolve, Oddly
  <2>3. CASE \E to : Fix(to)
    BY <1>3, <2>1, <2>3
  <2>4. CASE End("invalid_latest_block") /\ honest' = FALSE
    BY <2>1, <2>4, GatheredAtEnd
  <2> QED
    BY <2>2, <2>3, <2>4
<1>6. CASE Before
  <2>1. /\ pc = "before" /\ asked' = <<>> /\ logs' = <<>> /\ outcome = "pending"
        /\ UNCHANGED <<argv, filter, upper, asked, reorgs, steady>>
        /\ argv.fields["fromBlock"] = Quantity(filter.from)
    BY <1>0, <1>6, Zenon DEF Before, FetchHeader, Honestly, Oddly, node, Place, input, Gathered
  <2>2. \/ UNCHANGED node /\ upper <= Tip(view) /\ KeepFirst(Hash(view, upper))
        \/ UNCHANGED node /\ End("unavailable_block")
        \/ honest' = FALSE /\ \E h : KeepFirst(h)
        \/ honest' = FALSE /\ \E e \in {"unavailable_block", "invalid_block",
                                        "contradictory_block"} : End(e)
    BY <1>6, Zenon DEF Before, FetchHeader, Honestly, Oddly
  <2>3. CASE UNCHANGED node /\ upper <= Tip(view) /\ KeepFirst(Hash(view, upper))
    <3>1. /\ pc' = "chunk" /\ outcome' = "pending" /\ before' = Hash(view, upper)
          /\ view' = view
      BY <2>1, <2>3 DEF KeepFirst, node
    <3>2. Seen(view)' /\ logs' = Upto(view)'
      BY <2>1, <2>3, <3>1 DEF Seen, Upto
    <3> QED
      BY <2>1, <3>1, <3>2 DEF Gathered, Accusations
  <2>4. CASE UNCHANGED node /\ End("unavailable_block")
    BY <2>1, <2>4, GatheredAtEnd DEF Accusations
  <2>5. CASE honest' = FALSE /\ \E h : KeepFirst(h)
    BY <2>1, <2>5 DEF KeepFirst, Gathered
  <2>6. ASSUME honest' = FALSE, NEW e \in {"unavailable_block", "invalid_block",
                                           "contradictory_block"}, End(e)
        PROVE  Gathered'
    BY <2>1, <2>6, GatheredAtEnd
  <2> QED
    BY <2>2, <2>3, <2>4, <2>5, <2>6
<1>7. CASE Emit
  <2>1. /\ pc = "emit" /\ pc' = "done" /\ outcome = "pending"
        /\ UNCHANGED <<argv, filter, upper, asked, before, logs, view, reorgs, steady, honest>>
        /\ \/ outcome' = "evidence" /\ ~argv.dryRun
           \/ outcome' \in {"plan", "output_error"}
    BY <1>0, <1>7 DEF Emit, End, input, node, Place
  <2>2. FromOneChain' = FromOneChain /\ Unsplit' = Unsplit /\ Seen(view)' = Seen(view)
    BY <2>1 DEF FromOneChain, Unsplit, Seen
  <2>3. Mild' = Mild /\ LogsFor(view', Unsplit') = LogsFor(view, Unsplit)
    BY <2>1, <2>2 DEF Mild
  <2> QED
    BY <2>1, <2>2, <2>3 DEF Gathered, Accusations, Last
<1>8. CASE CallFails
  <2>1. End("call_failed") /\ UNCHANGED <<argv, filter, asked, honest, reorgs, steady>>
    BY <1>8 DEF CallFails, input, node
  <2> QED
    BY <2>1, GatheredAtEnd DEF Accusations
<1>9. CASE Reorg
  <2>1. /\ reorgs' = reorgs + 1 /\ view' \in Forks /\ view \in Forks /\ reorgs \in Nat
        /\ steady' = (steady /\ Continues(view', view)) /\ steady \in BOOLEAN
        /\ pc # "done" /\ outcome = "pending"
        /\ UNCHANGED <<argv, filter, pc, upper, start, asked, before, after, logs, printed,
                       outcome, honest>>
    BY <1>0, <1>9, SweepAssumption DEF Reorg, client, TypeOK, Place
  <2>2. FromOneChain' = FromOneChain
    BY <2>1 DEF FromOneChain, Unsplit
  <2>3. Mild' => steady
    BY <2>1 DEF Mild, Gathered
  <2>4. ASSUME Seen(view), steady' PROVE Seen(view')
    BY <1>0, <2>1, <2>4, HeadMoves
  <2>5. ASSUME honest, Mild', ~argv.dryRun, pc \in {"chunk", "after"}
        PROVE  /\ Seen(view)' => logs' = Upto(view)'
               /\ steady' => Seen(view)'
    <3>1. Seen(view) /\ logs = Upto(view)
      BY <2>3, <2>5 DEF Gathered, Mild
    <3>2. Seen(view)' = Seen(view') /\ Upto(view)' = Upto(view')
      BY <2>1 DEF Seen, Upto, Last
    <3>3. Seen(view') => Upto(view) = Upto(view')
      BY <2>1, <2>5, <3>1, SameHashSameLogs
    <3> QED
      BY <2>1, <2>4, <3>1, <3>2, <3>3
  <2>6. ASSUME honest, Mild', ~argv.dryRun, pc = "emit"
        PROVE  /\ FromOneChain'
               /\ steady' => Seen(view)' /\ logs' = LogsFor(view', Unsplit')
    <3>1. Seen(view) /\ logs = LogsFor(view, Unsplit) /\ FromOneChain
      BY <2>3, <2>6 DEF Gathered, Mild
    <3>2. /\ ParsesAsLogFilter(argv.fields) /\ argv.fields["fromBlock"] = Quantity(filter.from)
          /\ asked # <<>> /\ Last(asked).to = upper
      BY <1>0, <2>6 DEF Place, Gathered
    <3>3. \A f : Upto(f) = LogsFor(f, Unsplit)
      BY <3>2, UnsplitIsWhole DEF Upto
    <3>4. Seen(view') => Upto(view) = Upto(view')
      BY <2>1, <2>6, <3>1, SameHashSameLogs
    <3>5. Seen(view)' = Seen(view') /\ Unsplit' = Unsplit
      BY <2>1 DEF Seen, Unsplit
    <3> QED
      BY <2>1, <2>2, <2>4, <3>1, <3>3, <3>4, <3>5
  <2>7. reorgs' # 0 /\ (steady' => steady)
    BY <2>1
  <2> QED
    BY <2>1, <2>5, <2>6, <2>7 DEF Gathered, Accusations, Last
<1>10. CASE UNCHANGED vars
  BY <1>10 DEF vars, Gathered, Mild, Seen, Upto, FromOneChain, Unsplit, Last
<1> QED
  BY <1>1, <1>2, <1>4, <1>5, <1>6, <1>7, <1>8, <1>9, <1>10, ChunkGathers, AfterGathers
  DEF Next, Command

\* The two invariants hold together in every behaviour.
LEMMA GatheredHolds == Spec => [](IInv /\ Gathered)
<1>1. Init => IInv /\ Gathered
  <2>1. Init => Gathered
    BY DEF Init, Gathered, Accusations
  <2> QED
    BY <2>1, InitIInv
<1>2. IInv /\ Gathered /\ [Next]_vars => (IInv /\ Gathered)'
  BY StepIInv, GatheredKeeps
<1> QED
  BY <1>1, <1>2, PTL DEF Spec

\* Split into chunks of any size, a sweep of a chain that only grows gives
\* what one call would give, and accuses no honest node of anything.
THEOREM ChunksAddUp == Spec => []StableChainIsExact
<1>1. IInv /\ Gathered => StableChainIsExact
  <2> SUFFICES ASSUME Gathered, honest, steady
               PROVE  /\ outcome \notin Accusations
                      /\ outcome = "evidence" => logs = LogsFor(view, Unsplit)
    BY DEF StableChainIsExact
  <2> QED
    BY DEF Gathered, Mild
<1> QED
  BY <1>1, GatheredHolds, PTL

\* One change of fork between any two calls of a sweep does not mix the logs
\* of two chains: the evidence is of the chain that both checkpoints show.
THEOREM OneReorgDoesNotMix == Spec => []OneReorgIsSeen
<1>1. IInv /\ Gathered => OneReorgIsSeen
  <2> SUFFICES ASSUME Gathered, honest, reorgs <= 1, outcome = "evidence"
               PROVE  FromOneChain
    BY DEF OneReorgIsSeen
  <2> QED
    BY DEF Gathered, Mild
<1> QED
  BY <1>1, GatheredHolds, PTL

=============================================================================
