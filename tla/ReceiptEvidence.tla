-------------------------- MODULE ReceiptEvidence --------------------------
(***************************************************************************)
(* The receipt command (src/internal/app/commands_evidence.go) with          *)
(* CollectReceipt (src/internal/evidence/receipt.go): a transaction, its      *)
(* receipt, asked for directly or found among the receipts of its block, and *)
(* the block, each from its own call, while the chain behind the load        *)
(* balancer may reorganise and a node may answer wrongly.                    *)
(***************************************************************************)
EXTENDS Integers, Sequences, FiniteSets

CONSTANTS
  Wanted,            \* the transaction hash asked for
  Hashes, NoHash,    \* full hashes; a missing or malformed one
  Numbers,           \* quantities: block numbers and transaction indices
  Null, Scalar,      \* answers that are no object; null is one of its own
  Forks,             \* chains a node may hold
  TransactionOn(_),  \* transaction of a fork, mined or not, or Null
  ReceiptOn(_),      \* its receipt on a fork, or Null
  ReceiptsOn(_, _),  \* receipts of a fork's block with the given number
  HeaderOf(_),       \* header of the block with the given hash
  OddTransactions, OddReceipts, OddLists, OddHeaders,  \* answers of a faulty node
  MaxReorgs          \* bound on the changes of fork during a call

Missing   == -1   \* a quantity that is not there
Malformed == -2   \* a quantity evm.ParseQuantity refuses
Quantity  == Numbers \cup {Missing, Malformed}
AnyHash   == Hashes \cup {NoHash}

Transaction == [hash : AnyHash, number : Quantity, block : AnyHash]
Receipt     == [hash : AnyHash, number : Quantity, block : AnyHash, index : Quantity]
Header      == [number : Quantity, hash : AnyHash]
NoObject    == {Null, Scalar}

ASSUME ReceiptAssumption ==
  /\ Numbers \subseteq Nat
  /\ Wanted \in Hashes /\ NoHash \notin Hashes
  /\ NoObject \cap (Transaction \cup Receipt \cup Header \cup Seq(Receipt)) = {}
  /\ \A f \in Forks : /\ TransactionOn(f) \in Transaction \cup {Null}
                      /\ ReceiptOn(f) \in Receipt \cup {Null}
                      /\ \A n \in Numbers : ReceiptsOn(f, n) \in Seq(Receipt)
  /\ \A h \in Hashes : HeaderOf(h) \in Header
  /\ OddTransactions \subseteq Transaction \cup NoObject
  /\ OddReceipts \subseteq Receipt \cup NoObject
  /\ OddLists \subseteq Seq(Receipt) \cup NoObject
  /\ OddHeaders \subseteq Header \cup NoObject
  /\ MaxReorgs \in Nat

\* What makes the forks chains: a pending transaction has no receipt, a mined one
\* its own, once among those of its block, and a block's hash fixes its contents.
ASSUME ChainAssumption ==
  /\ \A f \in Forks : IF ReceiptOn(f) = Null
       THEN TransactionOn(f) = Null \/ TransactionOn(f).block = NoHash
       ELSE LET t == TransactionOn(f)  r == ReceiptOn(f)
            IN  /\ t # Null /\ t.hash = Wanted /\ t.number \in Numbers /\ t.block \in Hashes
                /\ r.hash = Wanted /\ r.number = t.number /\ r.block = t.block
                /\ r.index \in Numbers
                /\ HeaderOf(t.block) = [number |-> t.number, hash |-> t.block]
                /\ \E i \in DOMAIN ReceiptsOn(f, t.number) :
                     \A j \in DOMAIN ReceiptsOn(f, t.number) :
                       ReceiptsOn(f, t.number)[j].hash = Wanted <=> j = i
  /\ \A f \in Forks, n \in Numbers : \A i \in DOMAIN ReceiptsOn(f, n) :
       /\ ReceiptsOn(f, n)[i].hash \in Hashes
       /\ ReceiptsOn(f, n)[i].hash = Wanted => ReceiptsOn(f, n)[i] = ReceiptOn(f)
  /\ \A f, g \in Forks :
       ReceiptOn(f) # Null /\ ReceiptOn(g) # Null /\ ReceiptOn(f).block = ReceiptOn(g).block
         => ReceiptOn(f) = ReceiptOn(g)

VARIABLES
  call,                         \* the arguments
  pc, transaction, receipt, header,
  source,                       \* where the receipt came from
  listed,                       \* history: the block receipts looked through
  outcome,
  view, reorgs, honest          \* the node's fork, its changes; no odd answer yet

node     == <<view, reorgs, honest>>
evidence == <<transaction, receipt, header>>
vars     == <<call, pc, transaction, receipt, header, source, listed, outcome,
              view, reorgs, honest>>

Refusals == {"invalid_chain_id", "invalid_transaction_hash", "credential_missing"}
Faults   == {"transaction_unavailable", "contradictory_transaction",
             "invalid_transaction", "invalid_receipt", "contradictory_receipt",
             "invalid_block_receipts", "receipt_unavailable", "block_unavailable",
             "contradictory_block"}
Outcomes == Refusals \cup Faults \cup {"pending", "plan", "evidence", "call_failed"}

Init ==
  /\ call \in [chainOk : BOOLEAN, hashOk : BOOLEAN, dryRun : BOOLEAN, keyOk : BOOLEAN]
  /\ pc = "start"
  /\ transaction = Null /\ receipt = Null /\ header = Null
  /\ source = "none" /\ listed = <<>>
  /\ outcome = "pending"
  /\ view \in Forks /\ reorgs = 0 /\ honest = TRUE

End(result) == pc' = "done" /\ outcome' = result
Goto(place) == pc' = place /\ UNCHANGED outcome

Refusal ==
  IF ~call.chainOk THEN "invalid_chain_id"
  ELSE IF ~call.hashOk THEN "invalid_transaction_hash"
  ELSE IF call.dryRun THEN "plan"
  ELSE IF ~call.keyOk THEN "credential_missing"
  ELSE "none"

Start ==
  /\ pc = "start"
  /\ IF Refusal = "none" THEN Goto("transaction") ELSE End(Refusal)
  /\ UNCHANGED <<call, evidence, source, listed, node>>

-----------------------------------------------------------------------------
(* What the validators say, in the order of their checks.                  *)

\* Mutant: the block number is not parsed.
LaxTransactionFault(t) ==
  IF t \in NoObject THEN "transaction_unavailable"
  ELSE IF t.hash # Wanted THEN "contradictory_transaction"
  ELSE IF t.number = Missing \/ t.block = NoHash THEN "transaction_unavailable"
  ELSE "none"

TransactionFault(t) ==
  IF t \in NoObject THEN "transaction_unavailable"
  ELSE IF t.hash # Wanted THEN "contradictory_transaction"
  ELSE IF t.number = Missing THEN "transaction_unavailable"
  ELSE IF t.number = Malformed THEN "invalid_transaction"
  ELSE IF t.block = NoHash THEN "transaction_unavailable"
  ELSE "none"

EqualQuantity(a, b) == a = b /\ a \in Numbers

\* Mutant: the block hash of a receipt is not compared.
BlocklessReceiptFault(r) ==
  IF r \in NoObject THEN "invalid_receipt"
  ELSE IF r.hash # Wanted \/ ~EqualQuantity(r.number, transaction.number)
    THEN "contradictory_receipt"
  ELSE IF r.index \notin Numbers THEN "invalid_receipt"
  ELSE "none"

ReceiptFault(r) ==
  IF r \in NoObject THEN "invalid_receipt"
  ELSE IF \/ r.hash # Wanted
          \/ ~EqualQuantity(r.number, transaction.number)
          \/ r.block # transaction.block
    THEN "contradictory_receipt"
  ELSE IF r.index \notin Numbers THEN "invalid_receipt"
  ELSE "none"

\* Mutant: the header's number is enough.
NumberedHeaderFault(h) ==
  IF h \in NoObject THEN "block_unavailable"
  ELSE IF ~EqualQuantity(h.number, transaction.number) THEN "contradictory_block"
  ELSE "none"

HeaderFault(h) ==
  IF h \in NoObject THEN "block_unavailable"
  ELSE IF ~EqualQuantity(h.number, transaction.number) \/ h.hash # transaction.block
    THEN "contradictory_block"
  ELSE "none"

MatchesIn(list) == {i \in DOMAIN list : list[i].hash = Wanted}

\* Mutant: the first match will do.
SomeMatch(list) == MatchesIn(list) # {}

UniqueMatch(list) == Cardinality(MatchesIn(list)) = 1

-----------------------------------------------------------------------------
(* The calls.  A node answers from its fork, or oddly.                      *)

Answer(true, odd, Take(_)) ==
  \/ \E v \in true : Take(v) /\ UNCHANGED node
  \/ \E v \in odd : Take(v) /\ honest' = FALSE /\ UNCHANGED <<view, reorgs>>

TakeTransaction(t) ==
  IF TransactionFault(t) # "none"
    THEN End(TransactionFault(t)) /\ UNCHANGED transaction
    ELSE Goto("receipt") /\ transaction' = t

GetTransaction ==
  /\ pc = "transaction"
  /\ Answer({TransactionOn(view)}, OddTransactions, TakeTransaction)
  /\ UNCHANGED <<call, receipt, header, source, listed>>

KeepReceipt(r, from) ==
  /\ receipt' = r
  /\ source' = from
  /\ Goto("header")

Reject(fault) == End(fault) /\ UNCHANGED <<receipt, source>>

\* Mutant: a null receipt ends the call.
NullIsFinal(r) ==
  IF ReceiptFault(r) # "none" THEN Reject(ReceiptFault(r))
  ELSE KeepReceipt(r, "direct")

\* A null receipt leads to the receipts of the transaction's block.
TakeReceipt(r) ==
  IF r = Null THEN Goto("list") /\ UNCHANGED <<receipt, source>>
  ELSE IF ReceiptFault(r) # "none" THEN Reject(ReceiptFault(r))
  ELSE KeepReceipt(r, "direct")

\* A node that does not index the transaction answers null as well.
GetReceipt ==
  /\ pc = "receipt"
  /\ Answer({ReceiptOn(view), Null}, OddReceipts, TakeReceipt)
  /\ UNCHANGED <<call, transaction, header, listed>>

\* matchingReceipt: every entry must have a full hash, exactly one the wanted.
TakeList(list) ==
  IF list \in NoObject \/ \E i \in DOMAIN list : list[i].hash = NoHash
    THEN Reject("invalid_block_receipts") /\ UNCHANGED listed
  ELSE /\ listed' = list
       /\ IF ~UniqueMatch(list) THEN Reject("receipt_unavailable")
          ELSE LET r == list[CHOOSE i \in MatchesIn(list) : TRUE]
               IN  IF ReceiptFault(r) # "none" THEN Reject(ReceiptFault(r))
                   ELSE KeepReceipt(r, "block_receipts")

GetBlockReceipts ==
  /\ pc = "list"
  /\ Answer({ReceiptsOn(view, transaction.number)}, OddLists, TakeList)
  /\ UNCHANGED <<call, transaction, header>>

TakeHeader(h) ==
  IF HeaderFault(h) # "none" THEN End(HeaderFault(h)) /\ UNCHANGED header
                             ELSE End("evidence") /\ header' = h

\* A node knows the block by its hash, also when the block is an orphan; after
\* a reorganisation it may have dropped it.
GetBlock ==
  /\ pc = "header"
  /\ Answer({HeaderOf(transaction.block)} \cup (IF reorgs > 0 THEN {Null} ELSE {}),
            OddHeaders, TakeHeader)
  /\ UNCHANGED <<call, transaction, receipt, source, listed>>

\* DoRPC fails or returns a final JSON-RPC error, at any call.
CallFails ==
  /\ pc \in {"transaction", "receipt", "list", "header"}
  /\ End("call_failed")
  /\ UNCHANGED <<call, evidence, source, listed, node>>

\* Between two calls the node changes its fork, or another node takes over.
Reorg ==
  /\ reorgs < MaxReorgs /\ pc # "done"
  /\ reorgs' = reorgs + 1
  /\ view' \in Forks \ {view}
  /\ UNCHANGED <<call, pc, evidence, source, listed, outcome, honest>>

Command == \/ Start \/ GetTransaction \/ GetReceipt \/ GetBlockReceipts
           \/ GetBlock \/ CallFails

Next == Command \/ Reorg

Spec == Init /\ [][Next]_vars

-----------------------------------------------------------------------------
(* Properties.                                                             *)

TypeOK ==
  /\ call \in [chainOk : BOOLEAN, hashOk : BOOLEAN, dryRun : BOOLEAN, keyOk : BOOLEAN]
  /\ pc \in {"start", "transaction", "receipt", "list", "header", "done"}
  /\ transaction = Null \/ (transaction \in Transaction /\ transaction.number \in Numbers)
  /\ receipt \in Receipt \cup {Null}
  /\ header \in Header \cup {Null}
  /\ source \in {"none", "direct", "block_receipts"}
  /\ listed \in Seq(Receipt)
  /\ outcome \in Outcomes
  /\ view \in Forks /\ reorgs \in 0 .. MaxReorgs /\ honest \in BOOLEAN

\* Evidence is one story: the transaction, the receipt and the header name the
\* wanted transaction and one block, by hash and by number, whatever the node
\* answers to each call and however the chain moves between them.
EvidenceAgrees ==
  outcome = "evidence" =>
    /\ transaction.hash = Wanted /\ receipt.hash = Wanted
    /\ {receipt.block, header.hash} = {transaction.block}
    /\ {receipt.number, header.number} = {transaction.number}
    /\ receipt.index \in Numbers

\* Against honest nodes the receipt is the one of the chain the transaction was
\* read from, over any number of reorganisations, and also when it was looked
\* up by the number of a block that another chain has too.
ReceiptIsTrue ==
  (honest /\ outcome = "evidence") =>
    \E f \in Forks : transaction = TransactionOn(f) /\ receipt = ReceiptOn(f)

\* A recovered receipt is the only one of its list for the transaction.
RecoveryIsUnique ==
  source = "block_receipts" =>
    \E i \in DOMAIN listed :
       /\ listed[i] = receipt
       /\ \A j \in DOMAIN listed : listed[j].hash = Wanted => j = i

\* On a chain that stands still an honest node's mined transaction is not
\* refused, though the node may not index its receipt.
MinedIsFound ==
  (honest /\ reorgs = 0 /\ ReceiptOn(view) # Null) => outcome \notin Faults

=============================================================================
