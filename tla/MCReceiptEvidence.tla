------------------------- MODULE MCReceiptEvidence -------------------------
(* Instances of ReceiptEvidence for TLC: on two chains the transaction is    *)
(* mined in different blocks of the same number, on a third in another       *)
(* position, on the last it is still pending.                                *)
EXTENDS ReceiptEvidence

MCHashes == {"tx", "other", "block-a", "block-b", "block-c"}
MCForks  == {"a", "b", "c", "pool"}

BlockOn(f)  == CASE f = "a" -> "block-a" [] f = "b" -> "block-b" [] OTHER -> "block-c"
NumberOn(f) == IF f = "c" THEN 2 ELSE 1

Tx(n, b)      == [hash |-> "tx", number |-> n, block |-> b]
Rcpt(h, n, b, i) == [hash |-> h, number |-> n, block |-> b, index |-> i]

MCTransactionOn(f) ==
  IF f = "pool" THEN Tx(Missing, NoHash) ELSE Tx(NumberOn(f), BlockOn(f))
MCReceiptOn(f) ==
  IF f = "pool" THEN Null ELSE Rcpt("tx", NumberOn(f), BlockOn(f), 1)
MCReceiptsOn(f, n) ==
  IF f = "pool" \/ n # NumberOn(f) THEN <<>>
  ELSE <<Rcpt("other", n, BlockOn(f), 0), MCReceiptOn(f)>>
MCHeaderOf(h) == [number |-> IF h = "block-c" THEN 2 ELSE 1, hash |-> h]

MCOddTransactions ==
  {Null, Scalar, Tx(Malformed, "block-a"), Tx(1, NoHash),
   [Tx(1, "block-a") EXCEPT !.hash = "other"], Tx(2, "block-a")}
MCOddReceipts ==
  {Scalar, Rcpt("other", 1, "block-a", 0), Rcpt("tx", 2, "block-a", 1),
   Rcpt("tx", 1, NoHash, 1), Rcpt("tx", 1, "block-a", Malformed),
   Rcpt("tx", 1, "block-b", 1)}
MCOddLists ==
  {Null, <<>>, <<MCReceiptOn("a"), MCReceiptOn("b")>>, <<MCReceiptOn("a"), MCReceiptOn("a")>>,
   <<Rcpt(NoHash, 1, "block-a", 0)>>, <<Rcpt("tx", 1, "block-a", Missing)>>}
MCOddHeaders ==
  {Scalar, [number |-> 1, hash |-> "block-b"], [number |-> 2, hash |-> "block-a"],
   [number |-> Missing, hash |-> "block-a"]}

=============================================================================
