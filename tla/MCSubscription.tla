--------------------------- MODULE MCSubscription ---------------------------
(* An instance of Subscription for TLC.                                    *)
EXTENDS Subscription

MCNoSub == "no subscription"
A == "a"  B == "b"

\* Position 1 admits topic a only, position 2 any.
Asked(n) ==
  [chainOk |-> TRUE, count |-> n, subscription |-> "logs",
   piped |-> FALSE, text |-> "object",
   fields |-> [address |-> Text(A), topics |-> List(<<Text(A), Null>>)],
   baseOk |-> TRUE, dryRun |-> FALSE, keyOk |-> TRUE]
Bare(kind) == [Asked(1) EXCEPT !.subscription = kind, !.text = "none", !.fields = <<>>]
Filtered(fields) == [Asked(1) EXCEPT !.fields = fields]

\* What is read from standard input: a filter, nothing, garbage, too much of it;
\* what ends without reading it, and what is planned.
Piped ==
  {Filtered([address |-> List(<<Text(B), Text(A)>>),
             topics  |-> List(<<List(<<Text(B), Text(A)>>), List(<<Text(A), Null>>)>>)]),
   [Bare("logs") EXCEPT !.keyOk = FALSE], [Bare("newHeads") EXCEPT !.keyOk = FALSE],
   Asked(0), [Asked(1) EXCEPT !.chainOk = FALSE], [Asked(1) EXCEPT !.dryRun = TRUE],
   [Asked(1) EXCEPT !.text = "garbage"], [Asked(1) EXCEPT !.text = "oversized"]}

MCCalls ==
  {Asked(n) : n \in {-1, 0, MaxSubscriptionCount, MaxSubscriptionCount + 1}}
  \cup {[Asked(1) EXCEPT !.chainOk = FALSE], [Asked(1) EXCEPT !.baseOk = FALSE],
        [Asked(1) EXCEPT !.dryRun = TRUE], [Asked(1) EXCEPT !.keyOk = FALSE],
        [Asked(1) EXCEPT !.text = "garbage"], [Asked(1) EXCEPT !.text = "oversized"],
        [Asked(1) EXCEPT !.subscription = "newHeads"]}
  \cup {Bare("newHeads"), Bare("pending"), Filtered([address |-> Null]),
        Filtered([address |-> Text(A), fromBlock |-> Quantity(1)])}
  \cup {[c EXCEPT !.piped = TRUE] : c \in Piped}

Log(addr, topics) == [wellFormed |-> TRUE, address |-> addr, topics |-> topics]
NoPayload == [wellFormed |-> FALSE, address |-> A, topics |-> <<>>]

TextFrame(type, size, answers, failed, s, payload) ==
  [frame |-> "text", size |-> size, type |-> type, answers |-> answers,
   failed |-> failed, sub |-> s, payload |-> payload]
Ack(size)        == TextFrame("response", size, TRUE, FALSE, "sub-1", NoPayload)
Note(size, s, p) == TextFrame("notification", size, FALSE, FALSE, s, p)

MCMessages ==
  {Ack(1), Note(2, "sub-1", Log(A, <<A, B>>)), Note(1, "sub-1", Log(A, <<A, A>>)),
   Note(1, "sub-2", Log(A, <<A, B>>)),
   Note(1, "sub-1", Log(A, <<A>>)), Note(1, "sub-1", Log(B, <<A, B>>)),
   Note(1, "sub-1", NoPayload),
   Note(MaxResponseBytes + 1, "sub-1", Log(A, <<A, B>>)),
   [Ack(1) EXCEPT !.answers = FALSE], [Ack(1) EXCEPT !.failed = TRUE],
   [Ack(1) EXCEPT !.sub = MCNoSub], [Ack(1) EXCEPT !.frame = "binary"],
   [Ack(0) EXCEPT !.frame = "tooBigClose"],
   TextFrame("garbage", 1, FALSE, FALSE, MCNoSub, NoPayload)}

=============================================================================
