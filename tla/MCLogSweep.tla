----------------------------- MODULE MCLogSweep -----------------------------
(* Instances of LogSweep for TLC: two chains that part at block 2, and the    *)
(* first of them before its last blocks.                                    *)
EXTENDS LogSweep

MCForks == {"early", "main", "side"}
MCTip(f) == Blocks - (IF f = "main" THEN 1 ELSE IF f = "side" THEN 2 ELSE 3)
MCHash(f, b) == <<IF b < 2 THEN "common" ELSE IF f = "side" THEN f ELSE "main", b>>

L(b, tx, i, address, topics) ==
  [pos |-> <<b, tx, i>>, wellFormed |-> TRUE, removed |-> FALSE,
   address |-> address, topics |-> topics]
AllLogs(f) ==
  IF f # "side"
    THEN <<L(1, 0, 0, "a", <<"s">>), L(2, 0, 0, "a", <<"s", "t">>), L(2, 0, 1, "b", <<"t">>),
           L(5, 1, 0, "a", <<>>)>>
    ELSE <<L(1, 0, 0, "a", <<"s">>), L(2, 1, 0, "b", <<"t", "t">>), L(6, 0, 0, "a", <<"s">>)>>

\* A node answers by the meaning of the filter it was sent.
MCLogsFor(f, fields) ==
  SelectSeq(AllLogs(f),
            LAMBDA l : /\ l.pos[1] \in fields["fromBlock"].number .. fields["toBlock"].number
                       /\ IsWithin(fields, l.address, l.topics))

\* Out of order, repeated, removed, malformed, from another chunk.
Odd(b, i) == L(b, 0, i, "a", <<"s">>)
MCOddLogs == {<<Odd(2, 1), Odd(2, 0)>>, <<Odd(3, 0), Odd(3, 0)>>, <<Odd(1, 0)>>,
              <<[Odd(2, 0) EXCEPT !.removed = TRUE]>>,
              <<[Odd(2, 0) EXCEPT !.wellFormed = FALSE]>>}

-----------------------------------------------------------------------------
(* The command lines.                                                      *)

Range(from, to) == [fromBlock |-> from, toBlock |-> to]
Numbered(from, to) == Range(Quantity(from), Quantity(to))
With(range, address, topics) ==
  [f \in DOMAIN range \cup {"address", "topics"} |->
     IF f = "address" THEN address ELSE IF f = "topics" THEN topics ELSE range[f]]

Command0 == [chainOk |-> TRUE, keyOk |-> TRUE, dryRun |-> FALSE, input |-> "object",
             size |-> 3, fields |-> Numbered(0, 1)]
Sweep(fields, size) == [Command0 EXCEPT !.fields = fields, !.size = size]

\* Ranges up to the top, chunks of all sizes, filters with null positions,
\* alternatives, null among them, and positions past a log's topics.
Sweeps ==
  {Sweep(Numbered(0, Blocks - 1), 1), Sweep(Numbered(0, Blocks - 1), 3),
   Sweep(Numbered(1, 5), 2), Sweep(Numbered(2, 6), 5),
   Sweep(Numbered(Blocks - 1, Blocks - 1), 2), Sweep(Numbered(0, 1), 1),
   Sweep(Range(Quantity(1), Latest), 3), Sweep(Range(Quantity(Blocks - 1), Latest), 3),
   Sweep(With(Range(Quantity(1), Latest), Text("a"), List(<<Text("s"), Null>>)), 3),
   Sweep(With(Numbered(1, 6), List(<<Text("a"), Text("b")>>),
              List(<<List(<<Text("t"), Text("s")>>)>>)), 2),
   Sweep(With(Numbered(1, 6), Text("b"), List(<<List(<<Text("s"), Null>>)>>)), 5)}

\* What is refused before the first call.
Refused ==
  {[Command0 EXCEPT !.chainOk = FALSE], [Command0 EXCEPT !.keyOk = FALSE],
   [Command0 EXCEPT !.input = "garbage"], Sweep(Numbered(0, 1), 0),
   Sweep(Numbered(0, 1), MaxLogChunkSize + 1)}
  \cup {Sweep(fields, 3) :
          fields \in {<<>>, [fromBlock |-> Quantity(0)], [toBlock |-> Latest],
                      Numbered(2, 1), Numbered(0, Blocks), Numbered(Blocks, Blocks),
                      Range(Latest, Latest), Range(Quantity(0), Text("a")),
                      [fromBlock |-> Quantity(0), toBlock |-> Latest, blockHash |-> Null]}}
  \cup {Sweep(With(Numbered(0, 1), address, topics), 3) :
          address \in {Null, Text("s"), List(<<>>), List(<<Text("a"), Null>>), Text("a")},
          topics \in {Null, List(<<Null, Null, Null, Null, Null>>), List(<<Other>>),
                      List(<<List(<<>>)>>), List(<<List(<<List(<<Text("s")>>)>>)>>)}}

MCCommands == Sweeps \cup {[c EXCEPT !.dryRun = TRUE] : c \in Sweeps} \cup Refused

-----------------------------------------------------------------------------
(* What the program says of its evidence and does not hold.                *)

\* internal/evidence/logs.go:272 marks every collection "canonical".  Logs of a
\* chain that came and went between the checkpoints pass both of them.
CanonicalEvidence == (honest /\ outcome = "evidence") => FromOneChain

\* internal/app/commands_evidence.go:117: a plan that cannot fit the output is
\* refused.  The count of a plan of every block, one by one, wraps to 0.
PlanFits == argv.dryRun => Len(asked) <= PlanLimit

=============================================================================
