----------------------- MODULE ReceiptEvidenceProofs -----------------------
(***************************************************************************)
(* Theorems about ReceiptEvidence for every set of chains, every answer of   *)
(* the node and any number of reorganisations.                               *)
(***************************************************************************)
EXTENDS ReceiptEvidence, FiniteSetTheorems, TLAPS

(***************************************************************************)
(* The strengthening: what each call has established of the answers so far. *)
(***************************************************************************)
TransactionProven == transaction \in Transaction /\ TransactionFault(transaction) = "none"
ReceiptProven     == receipt \in Receipt /\ ReceiptFault(receipt) = "none"
HeaderProven      == header \in Header /\ HeaderFault(header) = "none"

Story ==
  /\ pc \in {"receipt", "list", "header"} \/ outcome = "evidence" => TransactionProven
  /\ pc = "header" \/ outcome = "evidence" => ReceiptProven
  /\ outcome = "evidence" => HeaderProven
  /\ pc # "done" => outcome = "pending"
  /\ pc \in {"start", "transaction", "receipt", "list"} => source = "none"

IInv == TypeOK /\ Story /\ RecoveryIsUnique

-----------------------------------------------------------------------------
\* A transaction without a fault names the wanted hash and an exact block.
LEMMA SoundTransaction ==
  ASSUME NEW t \in Transaction \cup NoObject, TransactionFault(t) = "none"
  PROVE  t \in Transaction /\ t.hash = Wanted /\ t.number \in Numbers /\ t.block \in Hashes
BY DEF TransactionFault, Transaction, Quantity, AnyHash

\* A transaction's fault is an outcome of the command, and so are the others.
LEMMA FaultsAreOutcomes ==
  /\ \A t : TransactionFault(t) \in {"none"} \cup Faults
  /\ \A r : ReceiptFault(r) \in {"none"} \cup Faults
  /\ \A h : HeaderFault(h) \in {"none"} \cup Faults
BY DEF TransactionFault, ReceiptFault, HeaderFault, Faults

\* The match of a list with a unique match is the only entry for the transaction.
LEMMA UniqueMatchIsTheOnly ==
  ASSUME NEW list \in Seq(Receipt), UniqueMatch(list)
  PROVE  \E i \in DOMAIN list :
           /\ i = CHOOSE k \in MatchesIn(list) : TRUE
           /\ list[i] \in Receipt
           /\ \A j \in DOMAIN list : list[j].hash = Wanted => j = i
<1>1. IsFiniteSet(MatchesIn(list))
  <2>1. Len(list) \in Nat /\ MatchesIn(list) \subseteq 1 .. Len(list)
    BY DEF MatchesIn
  <2>2. IsFiniteSet(1 .. Len(list))
    BY <2>1, FS_Interval
  <2> QED
    BY <2>1, <2>2, FS_Subset
<1>2. PICK x : MatchesIn(list) = {x}
  BY <1>1, FS_Singleton DEF UniqueMatch
<1>3. x \in DOMAIN list /\ \A j \in DOMAIN list : list[j].hash = Wanted => j = x
  BY <1>2 DEF MatchesIn
<1>4. x = CHOOSE k \in MatchesIn(list) : TRUE
  BY <1>2
<1>5. list[x] \in Receipt
  BY <1>3
<1> QED
  BY <1>3, <1>4, <1>5

\* Nothing is held at the start.
LEMMA InitIInv == Init => IInv
<1> SUFFICES ASSUME Init PROVE IInv
  OBVIOUS
<1>1. /\ pc = "start" /\ outcome = "pending" /\ source = "none" /\ listed = <<>>
      /\ transaction = Null /\ receipt = Null /\ header = Null
      /\ reorgs = 0 /\ honest = TRUE /\ view \in Forks
  BY DEF Init
<1>2. 0 \in 0 .. MaxReorgs
  BY ReceiptAssumption
<1>3. TypeOK
  BY <1>1, <1>2 DEF Init, TypeOK, Outcomes
<1>4. Story /\ RecoveryIsUnique
  BY <1>1 DEF Story, RecoveryIsUnique
<1> QED
  BY <1>3, <1>4 DEF IInv

\* Every call and every reorganisation keeps the invariant.
LEMMA StepIInv == IInv /\ [Next]_vars => IInv'
<1> SUFFICES ASSUME IInv, [Next]_vars PROVE IInv'
  OBVIOUS
<1>0. TypeOK /\ Story /\ RecoveryIsUnique
  BY DEF IInv
<1> USE DEF IInv
<1>1. CASE Start
  <2>1. Refusal \in Refusals \cup {"plan", "none"}
    BY DEF Refusal, Refusals
  <2>2. TypeOK'
    BY <1>0, <1>1, <2>1 DEF TypeOK, Start, End, Goto, Outcomes, evidence, node
  <2>3. Story'
    BY <1>0, <1>1, <2>1 DEF Story, Start, End, Goto, Refusals, evidence, node
  <2>4. RecoveryIsUnique'
    BY <1>0, <1>1 DEF RecoveryIsUnique, Start, evidence, node
  <2> QED
    BY <2>2, <2>3, <2>4
<1>2. CASE GetTransaction
  <2>1. /\ pc = "transaction"
        /\ UNCHANGED <<call, receipt, header, source, listed, view, reorgs>>
        /\ honest' \in BOOLEAN
        /\ \E t \in Transaction \cup NoObject : TakeTransaction(t)
    BY <1>0, <1>2, ReceiptAssumption, Zenon
    DEF GetTransaction, Answer, node, TypeOK, NoObject
  <2>2. PICK t \in Transaction \cup NoObject : TakeTransaction(t)
    BY <2>1
  <2>3. CASE TransactionFault(t) = "none"
    <3>1. transaction' = t /\ pc' = "receipt" /\ outcome' = outcome
      BY <2>2, <2>3 DEF TakeTransaction, Goto
    <3>2. TypeOK'
      BY <1>0, <2>1, <2>3, <3>1, SoundTransaction DEF TypeOK
    <3>3. Story'
      BY <1>0, <2>1, <2>3, <3>1, SoundTransaction
      DEF Story, TransactionProven, TransactionFault
    <3> QED
      BY <1>0, <2>1, <3>2, <3>3 DEF RecoveryIsUnique
  <2>4. CASE TransactionFault(t) # "none"
    <3>1. /\ transaction' = transaction /\ pc' = "done"
          /\ outcome' = TransactionFault(t) /\ outcome' \in Faults
      BY <2>2, <2>4, FaultsAreOutcomes DEF TakeTransaction, End
    <3>2. TypeOK'
      BY <1>0, <2>1, <3>1 DEF TypeOK, Outcomes
    <3>3. Story'
      BY <1>0, <2>1, <3>1 DEF Story, Faults
    <3> QED
      BY <1>0, <2>1, <3>2, <3>3 DEF RecoveryIsUnique
  <2> QED
    BY <2>3, <2>4
<1>3. CASE GetReceipt
  <2>1. /\ pc = "receipt"
        /\ UNCHANGED <<call, transaction, header, listed, view, reorgs>>
        /\ honest' \in BOOLEAN
        /\ \E r \in Receipt \cup NoObject : TakeReceipt(r)
    <3>1. ReceiptOn(view) \in Receipt \cup NoObject /\ Null \in NoObject
          /\ OddReceipts \subseteq Receipt \cup NoObject
      BY <1>0, ReceiptAssumption DEF TypeOK, NoObject
    <3>2. /\ view' = view /\ reorgs' = reorgs /\ honest' \in BOOLEAN
          /\ \E r \in {ReceiptOn(view), Null} \cup OddReceipts : TakeReceipt(r)
      BY <1>0, <1>3, Zenon DEF GetReceipt, Answer, node, TypeOK
    <3> QED
      BY <1>3, <3>1, <3>2, Zenon DEF GetReceipt
  <2>2. PICK r \in Receipt \cup NoObject : TakeReceipt(r)
    BY <2>1
  <2>3. CASE pc' = "list" /\ UNCHANGED <<outcome, receipt, source>>
    <3>1. TypeOK'
      BY <1>0, <2>1, <2>3 DEF TypeOK
    <3>2. Story'
      BY <1>0, <2>1, <2>3 DEF Story, TransactionProven, TransactionFault
    <3>3. RecoveryIsUnique'
      BY <1>0, <2>1, <2>3 DEF RecoveryIsUnique
    <3> QED
      BY <3>1, <3>2, <3>3
  <2>4. CASE ReceiptFault(r) # "none" /\ Reject(ReceiptFault(r))
    <3>1. pc' = "done" /\ outcome' \in Faults /\ UNCHANGED <<receipt, source>>
      BY <2>4, FaultsAreOutcomes DEF Reject, End
    <3> QED
      BY <1>0, <2>1, <3>1 DEF TypeOK, Story, RecoveryIsUnique, Outcomes, Faults
  <2>5. CASE ReceiptFault(r) = "none" /\ KeepReceipt(r, "direct")
    <3>1. /\ r \in Receipt /\ receipt' = r /\ source' = "direct" /\ pc' = "header"
          /\ outcome' = outcome
      BY <2>5 DEF KeepReceipt, Goto, ReceiptFault
    <3>2. TransactionProven' /\ ReceiptProven'
      BY <1>0, <2>1, <2>5, <3>1
      DEF Story, TransactionProven, TransactionFault, ReceiptProven, ReceiptFault
    <3> QED
      BY <1>0, <2>1, <3>1, <3>2 DEF TypeOK, Story, RecoveryIsUnique
  <2> QED
    BY <2>2, <2>3, <2>4, <2>5 DEF TakeReceipt, Goto
<1>4. CASE GetBlockReceipts
  <2>0. transaction.number \in Numbers
    BY <1>0, <1>4, SoundTransaction DEF GetBlockReceipts, Story, TransactionProven
  <2>1. /\ pc = "list"
        /\ UNCHANGED <<call, transaction, header, view, reorgs>>
        /\ honest' \in BOOLEAN
        /\ \E list \in Seq(Receipt) \cup NoObject : TakeList(list)
    BY <1>0, <1>4, <2>0, ReceiptAssumption, Zenon
    DEF GetBlockReceipts, Answer, node, TypeOK, NoObject
  <2>2. PICK list \in Seq(Receipt) \cup NoObject : TakeList(list)
    BY <2>1
  <2> DEFINE match == list[CHOOSE i \in MatchesIn(list) : TRUE]
  <2>3. CASE \E e \in Faults : Reject(e) /\ listed' \in Seq(Receipt)
    <3>1. pc' = "done" /\ outcome' \in Faults /\ UNCHANGED <<receipt, source>>
      BY <2>3 DEF Reject, End
    <3> QED
      BY <1>0, <2>1, <2>3, <3>1 DEF TypeOK, Story, RecoveryIsUnique, Outcomes, Faults
  <2>4. CASE /\ list \in Seq(Receipt) /\ listed' = list /\ UniqueMatch(list)
             /\ ReceiptFault(match) = "none" /\ KeepReceipt(match, "block_receipts")
    <3>1. /\ receipt' = match /\ source' = "block_receipts" /\ pc' = "header"
          /\ outcome' = outcome
      BY <2>4 DEF KeepReceipt, Goto
    <3>2. PICK i \in DOMAIN list :
            /\ list[i] = match /\ match \in Receipt
            /\ \A j \in DOMAIN list : list[j].hash = Wanted => j = i
      BY <2>4, UniqueMatchIsTheOnly
    <3>3. TransactionProven' /\ ReceiptProven'
      BY <1>0, <2>1, <2>4, <3>1, <3>2
      DEF Story, TransactionProven, TransactionFault, ReceiptProven, ReceiptFault
    <3>4. RecoveryIsUnique'
      BY <2>4, <3>1, <3>2 DEF RecoveryIsUnique
    <3>5. TypeOK'
      BY <1>0, <2>1, <2>4, <3>1, <3>2 DEF TypeOK
    <3> QED
      BY <1>0, <2>1, <3>1, <3>3, <3>4, <3>5 DEF Story
  <2>5. CASE list \in NoObject \/ \E i \in DOMAIN list : list[i].hash = NoHash
    <3>1. Reject("invalid_block_receipts") /\ listed' = listed
      BY <2>2, <2>5 DEF TakeList
    <3> QED
      BY <1>0, <2>3, <3>1 DEF Faults, TypeOK
  <2>6. CASE ~(list \in NoObject \/ \E i \in DOMAIN list : list[i].hash = NoHash)
    <3>1. list \in Seq(Receipt) /\ listed' = list
      BY <2>2, <2>6 DEF TakeList
    <3>2. \/ ~UniqueMatch(list) /\ Reject("receipt_unavailable")
          \/ UniqueMatch(list) /\ ReceiptFault(match) # "none" /\ Reject(ReceiptFault(match))
          \/ /\ UniqueMatch(list) /\ ReceiptFault(match) = "none"
             /\ KeepReceipt(match, "block_receipts")
      BY <2>2, <2>6 DEF TakeList
    <3>3. ReceiptFault(match) # "none" => ReceiptFault(match) \in Faults
      BY FaultsAreOutcomes
    <3>4. "receipt_unavailable" \in Faults
      BY DEF Faults
    <3> QED
      BY <2>3, <2>4, <3>1, <3>2, <3>3, <3>4
  <2> QED
    BY <2>5, <2>6
<1>5. CASE GetBlock
  <2>0. transaction.block \in Hashes
    BY <1>0, <1>5, SoundTransaction DEF GetBlock, Story, TransactionProven
  <2>1. /\ pc = "header"
        /\ UNCHANGED <<call, transaction, receipt, source, listed, view, reorgs>>
        /\ honest' \in BOOLEAN
        /\ \E h \in Header \cup NoObject : TakeHeader(h)
    BY <1>0, <1>5, <2>0, ReceiptAssumption
    DEF GetBlock, Answer, node, TypeOK, NoObject
  <2>2. PICK h \in Header \cup NoObject : TakeHeader(h)
    BY <2>1
  <2>3. CASE HeaderFault(h) = "none"
    <3>1. h \in Header /\ header' = h /\ pc' = "done" /\ outcome' = "evidence"
      BY <2>2, <2>3 DEF TakeHeader, End, HeaderFault
    <3>2. TransactionProven' /\ ReceiptProven' /\ HeaderProven'
      BY <1>0, <2>1, <2>3, <3>1
      DEF Story, TransactionProven, TransactionFault, ReceiptProven, ReceiptFault,
          HeaderProven, HeaderFault
    <3> QED
      BY <1>0, <2>1, <3>1, <3>2 DEF TypeOK, Story, RecoveryIsUnique, Outcomes
  <2>4. CASE HeaderFault(h) # "none"
    <3>1. header' = header /\ pc' = "done" /\ outcome' \in Faults
      BY <2>2, <2>4, FaultsAreOutcomes DEF TakeHeader, End
    <3> QED
      BY <1>0, <2>1, <3>1 DEF TypeOK, Story, RecoveryIsUnique, Outcomes, Faults
  <2> QED
    BY <2>3, <2>4
<1>6. CASE CallFails
  BY <1>0, <1>6
  DEF TypeOK, Story, RecoveryIsUnique, CallFails, End, Outcomes, evidence, node
<1>7. CASE Reorg
  <2>1. /\ UNCHANGED <<call, pc, transaction, receipt, header, source, listed, outcome>>
        /\ view' \in Forks /\ reorgs' \in 0 .. MaxReorgs /\ honest' = honest
    BY <1>0, <1>7, ReceiptAssumption DEF Reorg, evidence, TypeOK
  <2> QED
    BY <1>0, <2>1
    DEF TypeOK, Story, TransactionProven, TransactionFault, ReceiptProven, ReceiptFault,
        HeaderProven, HeaderFault, RecoveryIsUnique
<1>8. CASE UNCHANGED vars
  BY <1>0, <1>8
  DEF vars, TypeOK, Story, TransactionProven, TransactionFault, ReceiptProven,
      ReceiptFault, HeaderProven, HeaderFault, RecoveryIsUnique
<1> QED
  BY <1>1, <1>2, <1>3, <1>4, <1>5, <1>6, <1>7, <1>8 DEF Next, Command

-----------------------------------------------------------------------------
\* The inductive invariant holds in every behaviour of the receipt command.
THEOREM Invariance == Spec => []IInv
BY InitIInv, StepIInv, PTL DEF Spec

\* The state of the receipt command has its types.
THEOREM TypeCorrect == Spec => []TypeOK
<1>1. IInv => TypeOK
  BY DEF IInv
<1> QED
  BY <1>1, Invariance, PTL

\* Evidence names one transaction and one block, whatever the nodes answer.
THEOREM EvidenceIsOneStory == Spec => []EvidenceAgrees
<1>1. IInv => EvidenceAgrees
  BY SoundTransaction
  DEF IInv, Story, TransactionProven, ReceiptProven, HeaderProven, ReceiptFault,
      HeaderFault, EqualQuantity, EvidenceAgrees
<1> QED
  BY <1>1, Invariance, PTL

\* A recovered receipt is the only one of its list, for every list.
THEOREM RecoveredReceiptIsUnique == Spec => []RecoveryIsUnique
<1>1. IInv => RecoveryIsUnique
  BY DEF IInv
<1> QED
  BY <1>1, Invariance, PTL

-----------------------------------------------------------------------------
(***************************************************************************)
(* Against honest nodes: where the pieces of the evidence come from.         *)
(***************************************************************************)
Truth ==
  honest =>
    /\ transaction # Null => \E f \in Forks : transaction = TransactionOn(f)
    /\ receipt # Null => \E f \in Forks : receipt = ReceiptOn(f)

\* What is read while the node answers from its fork is on that fork.
LEMMA TruthKeeps == IInv /\ Truth /\ [Next]_vars => Truth'
<1> SUFFICES ASSUME IInv, Truth, [Next]_vars, honest' PROVE Truth'
  BY DEF Truth
<1>0. TypeOK /\ Story
  BY DEF IInv
<1>1. CASE GetTransaction
  <2>1. PICK v \in {TransactionOn(view)} : TakeTransaction(v) /\ UNCHANGED node
    BY <1>0, <1>1, Zenon DEF GetTransaction, Answer, TypeOK
  <2>2. UNCHANGED receipt /\ view \in Forks /\ UNCHANGED honest
    BY <1>0, <1>1, <2>1 DEF GetTransaction, TypeOK, node
  <2>3. transaction' = transaction \/ transaction' = TransactionOn(view)
    BY <2>1 DEF TakeTransaction
  <2> QED
    BY <2>2, <2>3 DEF Truth
<1>2. CASE GetReceipt
  <2>1. PICK v \in {ReceiptOn(view), Null} : TakeReceipt(v) /\ UNCHANGED node
    BY <1>2, Zenon DEF GetReceipt, Answer
  <2>2. UNCHANGED transaction /\ view \in Forks /\ UNCHANGED honest
    BY <1>0, <1>2, <2>1 DEF GetReceipt, TypeOK, node
  <2>3. receipt' = receipt \/ receipt' = ReceiptOn(view)
    BY <2>1 DEF TakeReceipt, Reject, KeepReceipt
  <2> QED
    BY <2>2, <2>3 DEF Truth
<1>3. CASE GetBlockReceipts
  <2>1. transaction.number \in Numbers
    BY <1>0, <1>3, SoundTransaction DEF GetBlockReceipts, Story, TransactionProven
  <2>2. TakeList(ReceiptsOn(view, transaction.number)) /\ UNCHANGED node
    BY <1>3, Zenon DEF GetBlockReceipts, Answer
  <2>3. UNCHANGED transaction /\ view \in Forks /\ UNCHANGED honest
    BY <1>0, <1>3, <2>2 DEF GetBlockReceipts, TypeOK, node
  <2> DEFINE list == ReceiptsOn(view, transaction.number)
             match == list[CHOOSE i \in MatchesIn(list) : TRUE]
  <2>4. receipt' = receipt \/ (UniqueMatch(list) /\ receipt' = match)
    BY <2>2 DEF TakeList, Reject, KeepReceipt
  <2>5. UniqueMatch(list) => match = ReceiptOn(view)
    <3> SUFFICES ASSUME UniqueMatch(list) PROVE match = ReceiptOn(view)
      OBVIOUS
    <3>1. list \in Seq(Receipt)
      BY <2>1, <2>3, ReceiptAssumption
    <3>2. MatchesIn(list) # {}
      BY FS_EmptySet DEF UniqueMatch
    <3>3. (CHOOSE i \in MatchesIn(list) : TRUE) \in MatchesIn(list)
      BY <3>2
    <3> QED
      BY <2>1, <2>3, <3>3, ChainAssumption DEF MatchesIn
  <2> QED
    BY <2>3, <2>4, <2>5 DEF Truth
<1>4. CASE GetBlock
  BY <1>0, <1>4, Zenon DEF GetBlock, Answer, node, Truth
<1>5. CASE Start \/ CallFails \/ Reorg \/ UNCHANGED vars
  BY <1>5 DEF Start, CallFails, Reorg, evidence, node, vars, Truth
<1> QED
  BY <1>1, <1>2, <1>3, <1>4, <1>5 DEF Next, Command

\* Against honest nodes the evidence is of one chain, whatever its reorganisations.
THEOREM ReceiptIsOfTheChain == Spec => []ReceiptIsTrue
<1>1. Init => Truth
  BY DEF Init, Truth
<1>2. IInv /\ Truth => ReceiptIsTrue
  <2> SUFFICES ASSUME IInv, Truth, honest, outcome = "evidence"
               PROVE  \E f \in Forks : transaction = TransactionOn(f) /\ receipt = ReceiptOn(f)
    BY DEF ReceiptIsTrue
  <2>1. TransactionProven /\ ReceiptProven
    BY DEF IInv, Story
  <2>2. /\ transaction \in Transaction /\ transaction.block \in Hashes
        /\ receipt \in Receipt /\ receipt.block = transaction.block
    BY <2>1, SoundTransaction DEF TransactionProven, ReceiptProven, ReceiptFault
  <2>3. transaction # Null /\ receipt # Null
    BY <2>2, ReceiptAssumption DEF NoObject
  <2>4. PICK f \in Forks : transaction = TransactionOn(f)
    BY <2>3 DEF Truth
  <2>5. PICK g \in Forks : receipt = ReceiptOn(g)
    BY <2>3 DEF Truth
  <2>6. ReceiptOn(f) # Null
    BY <2>2, <2>3, <2>4, ChainAssumption, ReceiptAssumption
  <2>7. ReceiptOn(f).block = ReceiptOn(g).block
    BY <2>2, <2>4, <2>5, <2>6, ChainAssumption
  <2>8. ReceiptOn(f) = ReceiptOn(g)
    BY <2>3, <2>5, <2>6, <2>7, ChainAssumption
  <2> QED
    BY <2>4, <2>5, <2>8
<1> QED
  BY <1>1, <1>2, Invariance, TruthKeeps, PTL DEF Spec

(***************************************************************************)
(* On a chain that stands still: no answer is found faulty.                  *)
(***************************************************************************)
Calm == honest /\ reorgs = 0 /\ ReceiptOn(view) # Null

Still ==
  Calm => /\ pc \in {"receipt", "list", "header"} => transaction = TransactionOn(view)
          /\ outcome \notin Faults

\* The pieces of a mined transaction pass the command's checks.
LEMMA MinedPasses ==
  ASSUME NEW f \in Forks, ReceiptOn(f) # Null
  PROVE  /\ TransactionOn(f) \in Transaction /\ TransactionFault(TransactionOn(f)) = "none"
         /\ transaction = TransactionOn(f) =>
              /\ ReceiptFault(ReceiptOn(f)) = "none"
              /\ HeaderFault(HeaderOf(transaction.block)) = "none"
<1> DEFINE t == TransactionOn(f)  r == ReceiptOn(f)
<1>1. /\ t # Null /\ t.hash = Wanted /\ t.number \in Numbers /\ t.block \in Hashes
      /\ r.hash = Wanted /\ r.number = t.number /\ r.block = t.block /\ r.index \in Numbers
      /\ HeaderOf(t.block) = [number |-> t.number, hash |-> t.block]
  BY ChainAssumption
<1>2. t \in Transaction /\ r \in Receipt /\ HeaderOf(t.block) \in Header
  BY <1>1, ReceiptAssumption
<1>3. t \notin NoObject /\ r \notin NoObject /\ HeaderOf(t.block) \notin NoObject
  BY <1>2, ReceiptAssumption
<1>4. t.number # Missing /\ t.number # Malformed /\ t.block # NoHash
  BY <1>1, ReceiptAssumption DEF Missing, Malformed
<1>5. TransactionFault(t) = "none"
  BY <1>1, <1>3, <1>4 DEF TransactionFault
<1>6. ASSUME transaction = t
      PROVE  ReceiptFault(r) = "none" /\ HeaderFault(HeaderOf(t.block)) = "none"
  <2> HIDE DEF t, r
  <2> QED
    BY <1>1, <1>3, <1>6 DEF ReceiptFault, HeaderFault, EqualQuantity
<1> QED
  BY <1>2, <1>5, <1>6

\* The receipts of its block hold the transaction's receipt, once.
LEMMA ListPasses ==
  ASSUME NEW f \in Forks, ReceiptOn(f) # Null, transaction = TransactionOn(f)
  PROVE  LET list == ReceiptsOn(f, transaction.number)
         IN  /\ list \notin NoObject /\ \A i \in DOMAIN list : list[i].hash # NoHash
             /\ UniqueMatch(list)
             /\ list[CHOOSE i \in MatchesIn(list) : TRUE] = ReceiptOn(f)
<1> DEFINE n == transaction.number  list == ReceiptsOn(f, n)
<1>1. n \in Numbers
  BY ChainAssumption
<1>2. list \in Seq(Receipt) /\ list \notin NoObject
  BY <1>1, ReceiptAssumption
<1>3. \A i \in DOMAIN list : /\ list[i].hash \in Hashes
                             /\ list[i].hash = Wanted => list[i] = ReceiptOn(f)
  BY <1>1, ChainAssumption
<1>4. PICK i \in DOMAIN list : \A j \in DOMAIN list : list[j].hash = Wanted <=> j = i
  BY ChainAssumption
<1>5. MatchesIn(list) = {i}
  BY <1>4 DEF MatchesIn
<1>6. UniqueMatch(list) /\ (CHOOSE k \in MatchesIn(list) : TRUE) = i
  BY <1>5, FS_Singleton DEF UniqueMatch
<1> HIDE DEF list
<1>7. \A k \in DOMAIN list : list[k].hash # NoHash
  BY <1>3, ReceiptAssumption
<1>8. list[i] = ReceiptOn(f)
  BY <1>3, <1>4
<1> QED
  BY <1>2, <1>6, <1>7, <1>8 DEF list

\* Every step of honest nodes keeps it on a chain that stands still.
LEMMA StillKeeps == IInv /\ Still /\ [Next]_vars => Still'
<1> SUFFICES ASSUME IInv, Still, [Next]_vars, Calm' PROVE Still'
  BY DEF Still
<1>0. TypeOK /\ Story /\ view \in Forks
  BY DEF IInv, TypeOK
<1>1. Calm /\ UNCHANGED view
  <2>1. CASE UNCHANGED view
    <3>1. honest /\ reorgs = 0
      <4>1. CASE Reorg
        BY <2>1, <4>1, <1>0 DEF Reorg
      <4>2. CASE UNCHANGED vars \/ Start \/ CallFails
        BY <4>2 DEF vars, Start, CallFails, node, Calm
      <4>3. CASE GetTransaction \/ GetReceipt \/ GetBlockReceipts \/ GetBlock
        BY <1>0, <4>3, Zenon
        DEF GetTransaction, GetReceipt, GetBlockReceipts, GetBlock, Answer, node, Calm
      <4> QED
        BY <4>1, <4>2, <4>3 DEF Next, Command
    <3> QED
      BY <2>1, <3>1 DEF Calm
  <2>2. CASE ~UNCHANGED view
    <3>1. Reorg
      BY <2>2, Zenon
      DEF Next, Command, vars, Start, CallFails, GetTransaction, GetReceipt,
          GetBlockReceipts, GetBlock, Answer, node
    <3>2. reorgs' # 0
      BY <1>0, <3>1 DEF Reorg, TypeOK
    <3> QED
      BY <3>2 DEF Calm
  <2> QED
    BY <2>1, <2>2
<1>2. ReceiptOn(view) # Null /\ honest' /\ reorgs = 0
  BY <1>1 DEF Calm
<1>3. /\ pc \in {"receipt", "list", "header"} => transaction = TransactionOn(view)
      /\ outcome \notin Faults
  BY <1>1 DEF Still
<1>4. CASE GetTransaction
  <2>1. TakeTransaction(TransactionOn(view))
    BY <1>2, <1>4, Zenon DEF GetTransaction, Answer
  <2>2. transaction' = TransactionOn(view) /\ UNCHANGED outcome
    BY <1>0, <1>2, <2>1, MinedPasses DEF TakeTransaction, Goto
  <2> QED
    BY <1>1, <1>3, <2>2 DEF Still
<1>5. CASE GetReceipt
  <2>1. TakeReceipt(ReceiptOn(view)) \/ TakeReceipt(Null)
    BY <1>2, <1>5, Zenon DEF GetReceipt, Answer
  <2>2. ReceiptFault(ReceiptOn(view)) = "none" /\ UNCHANGED transaction
    BY <1>0, <1>2, <1>3, <1>5, MinedPasses DEF GetReceipt
  <2>3. UNCHANGED outcome
    BY <1>2, <2>1, <2>2 DEF TakeReceipt, KeepReceipt, Goto
  <2> QED
    BY <1>1, <1>3, <1>5, <2>2, <2>3 DEF Still, GetReceipt
<1>6. CASE GetBlockReceipts
  <2>1. TakeList(ReceiptsOn(view, transaction.number)) /\ transaction = TransactionOn(view)
    BY <1>2, <1>3, <1>6, Zenon DEF GetBlockReceipts, Answer
  <2>2. ReceiptFault(ReceiptOn(view)) = "none"
    BY <1>0, <1>2, <2>1, MinedPasses
  <2>3. UNCHANGED outcome
    BY <1>0, <1>2, <2>1, <2>2, ListPasses DEF TakeList, KeepReceipt, Goto
  <2> QED
    BY <1>1, <1>3, <1>6, <2>1, <2>3 DEF Still, GetBlockReceipts
<1>7. CASE GetBlock
  <2>0. ~(reorgs > 0)
    BY <1>2
  <2>1. TakeHeader(HeaderOf(transaction.block)) /\ transaction = TransactionOn(view)
    BY <1>2, <1>3, <1>7, <2>0, Zenon DEF GetBlock, Answer
  <2>2. outcome' = "evidence" /\ UNCHANGED transaction
    BY <1>0, <1>2, <1>7, <2>1, MinedPasses DEF TakeHeader, End, GetBlock
  <2> QED
    BY <1>1, <2>1, <2>2 DEF Still, Faults
<1>8. CASE Start
  <2>1. Refusal \in Refusals \cup {"plan", "none"}
    BY DEF Refusal, Refusals
  <2> QED
    BY <1>1, <1>3, <1>8, <2>1 DEF Start, End, Goto, Still, Faults, Refusals
<1>9. CASE CallFails
  BY <1>1, <1>9 DEF CallFails, End, Still, Faults
<1>10. CASE Reorg \/ UNCHANGED vars
  BY <1>1, <1>3, <1>10 DEF Reorg, evidence, vars, Still
<1> QED
  BY <1>4, <1>5, <1>6, <1>7, <1>8, <1>9, <1>10 DEF Next, Command

\* A mined transaction of a chain that stands still is not refused, for every chain.
THEOREM MinedIsNotRefused == Spec => []MinedIsFound
<1>1. Init => Still
  BY DEF Init, Still, Faults
<1>2. Still => MinedIsFound
  BY DEF Still, Calm, MinedIsFound
<1> QED
  BY <1>1, <1>2, Invariance, StillKeeps, PTL DEF Spec

=============================================================================
