------------------------- MODULE SubscriptionProofs -------------------------
(***************************************************************************)
(* Theorems about Subscription for every limit, every filter and everything *)
(* a server may send.                                                       *)
(***************************************************************************)
EXTENDS Subscription, PrefixProofs

(***************************************************************************)
(* The strengthening: how far the conversation is.  On the network, the       *)
(* options are in order and the input is known.                              *)
(***************************************************************************)
Heard == ~call.piped \/ stdin # "open"

Place ==
  /\ pc \notin {"start", "stdin", "done"} => CountOk(call.count) /\ Heard
  /\ pc \in {"start", "stdin", "dial", "write", "ack"} => kept = <<>> /\ taken = 0
  /\ conn = "open" => pc \in {"write", "ack", "collect"}
  /\ pc = "collect" =>
       Acknowledged /\ sub = wire[1].sub /\ Len(kept) < call.count

IInv == TypeOK /\ Place /\ KeptIsTheStream

-----------------------------------------------------------------------------
\* Every fault of a message is an outcome of the command.
LEMMA FaultsAreOutcomes ==
  /\ \A m : ReadFaults(m) \subseteq Outcomes
  /\ \A m : AckFault(m) \in {"none"} \cup Outcomes
  /\ \A m : NoteFault(m) \in {"none"} \cup Outcomes
  /\ Refusal \in {"none"} \cup Outcomes
<1>1. \A m : ReadFaults(m) \subseteq Outcomes
  BY DEF ReadFaults, Outcomes, Faults
<1>2. \A m : AckFault(m) \in {"none"} \cup Outcomes
  BY DEF AckFault, Outcomes, Faults
<1>3. \A m : NoteFault(m) \in {"none"} \cup Outcomes
  BY DEF NoteFault, Outcomes, Faults
<1>4. Refusal \in {"none"} \cup Outcomes
  BY DEF Refusal, Outcomes, Refusals
<1> QED
  BY <1>1, <1>2, <1>3, <1>4

\* What matches a condition is among the values the condition admits.
LEMMA MatchIsAdmitted ==
  ASSUME NEW value, NEW all, NEW actual \in all, MatchesLogValue(value, actual)
  PROVE  actual \in Admits(value, all)
BY DEF MatchesLogValue, MatchesOne, Admits

\* A payload that matches the conditions of a filter is within its meaning.
LEMMA MatchIsWithin ==
  ASSUME NEW fields, NEW address \in Addresses, NEW topics \in Seq(Topics),
         Matches(fields, address, topics)
  PROVE  IsWithin(fields, address, topics)
<1>1. "address" \in DOMAIN fields => address \in Admits(fields["address"], Addresses)
  BY MatchIsAdmitted DEF Matches
<1>2. ASSUME "topics" \in DOMAIN fields, NEW i \in DOMAIN fields["topics"].items
      PROVE  i \in DOMAIN topics /\ topics[i] \in Admits(fields["topics"].items[i], Topics)
  <2>1. i \in DOMAIN topics /\ MatchesLogValue(fields["topics"].items[i], topics[i])
    BY <1>2 DEF Matches
  <2>2. topics[i] \in Topics
    BY <2>1
  <2> QED
    BY <2>1, <2>2, MatchIsAdmitted
<1> QED
  BY <1>1, <1>2 DEF IsWithin

\* A note without fault is an event of the subscription acknowledged.
LEMMA SoundNoteIsEvent ==
  ASSUME NEW m \in Messages, NoteFault(m) = "none", sub = wire[1].sub
  PROVE  IsEvent(m)
<1>1. m.type = "notification" /\ m.sub = wire[1].sub /\ m.payload.wellFormed
  BY DEF NoteFault
<1>2. MatchesFilter(m.payload)
  BY <1>1 DEF NoteFault
<1>3. m.payload.address \in Addresses /\ m.payload.topics \in Seq(Topics)
  BY <1>1, SubscriptionAssumption
<1>4. call.subscription = "logs" =>
        IsWithin(call.fields, m.payload.address, m.payload.topics)
  BY <1>2, <1>3, MatchIsWithin DEF MatchesFilter
<1> QED
  BY <1>1, <1>4 DEF IsEvent

\* A step that ends the command keeps the invariant when it leaves the stream
\* and the notifications as they are.
LEMMA EndKeeps ==
  ASSUME IInv, NEW result \in Outcomes, End(result),
         UNCHANGED <<call, wire, kept>>,
         ctxDone' \in BOOLEAN, stdin' \in {"open", "full", "closed"},
         session' \in {0, 101, 401, 402, 403, 429},
         taken' \in 0 .. Len(wire),
         remaining' \in Int, remaining' <= MaxResponseBytes,
         sub' \in STRING \cup {NoSub}, stdout' \in Seq(Messages)
  PROVE  IInv'
<1>1. pc' = "done" /\ outcome' = result /\ conn' \in {"none", "closed"}
  BY DEF IInv, TypeOK, End
<1>2. TypeOK'
  BY <1>1 DEF IInv, TypeOK
<1>3. Place'
  BY <1>1 DEF Place
<1>4. KeptIsTheStream'
  BY <1>1 DEF IInv, KeptIsTheStream, Acknowledged, AckFault, IsEvent
<1> QED
  BY <1>2, <1>3, <1>4 DEF IInv

\* Nothing is read at the start.
LEMMA InitIInv == Init => IInv
<1> SUFFICES ASSUME Init PROVE IInv
  OBVIOUS
<1>1. <<>> \in Seq(Messages) /\ Len(<<>>) = 0
  OBVIOUS
<1>2. TypeOK
  <2>1. MaxResponseBytes \in Int /\ 0 <= MaxSubscriptionCount /\ 0 \in 0 .. 0
    BY SubscriptionAssumption
  <2>2. /\ call \in Calls /\ ctxDone = FALSE /\ pc = "start" /\ conn = "none"
        /\ stdin = "open"
        /\ session = 0 /\ wire = <<>> /\ taken = 0 /\ remaining = MaxResponseBytes
        /\ sub = NoSub /\ kept = <<>> /\ stdout = <<>> /\ outcome = "pending"
    BY DEF Init
  <2>3. outcome \in Outcomes
    BY <2>2 DEF Outcomes
  <2>4. /\ wire \in Seq(Messages) /\ kept \in Seq(Messages) /\ stdout \in Seq(Messages)
        /\ taken \in 0 .. Len(wire) /\ Len(kept) <= MaxSubscriptionCount
    BY <1>1, <2>1, <2>2
  <2>5. remaining \in Int /\ remaining <= MaxResponseBytes
    BY <2>1, <2>2
  <2> QED
    BY <2>2, <2>3, <2>4, <2>5 DEF TypeOK
<1>3. Place /\ KeptIsTheStream
  BY <1>1 DEF Init, Place, KeptIsTheStream
<1> QED
  BY <1>2, <1>3 DEF IInv

\* What reading the next message leaves of the budget.
LEMMA ReadingSpends ==
  ASSUME TypeOK, taken < Len(wire),
         NEW m, m = wire[taken + 1],
         remaining' = IF m.frame = "text" /\ m.size <= MaxResponseBytes
                        THEN Left(m) ELSE remaining
  PROVE  /\ m \in Messages /\ m.sub \in STRING \cup {NoSub}
         /\ taken + 1 \in 0 .. Len(wire)
         /\ remaining' \in Int /\ remaining' <= MaxResponseBytes
<1>1. taken \in Nat /\ Len(wire) \in Nat /\ taken + 1 \in 1 .. Len(wire)
  BY DEF TypeOK
<1>2. m \in Messages
  BY <1>1, ElementOfSeq DEF TypeOK
<1>3. m \in Message
  BY <1>2, SubscriptionAssumption
<1>4. m.size \in Nat /\ m.sub \in STRING \cup {NoSub}
  BY <1>3 DEF Message
<1>5. remaining \in Int /\ remaining <= MaxResponseBytes /\ MaxResponseBytes \in Nat
  BY SubscriptionAssumption DEF TypeOK
<1>6. remaining' \in Int /\ remaining' <= MaxResponseBytes
  BY <1>4, <1>5 DEF Left
<1> QED
  BY <1>1, <1>2, <1>4, <1>6

\* The step from the text to the network keeps the invariant, its input known.
LEMMA ProceedKeeps ==
  ASSUME IInv, pc \in {"start", "stdin"}, Proceed, Refusal = "none" => Heard,
         UNCHANGED <<call, ctxDone, stdin, session, wire, taken, remaining, sub, kept, stdout>>
  PROVE  IInv'
<1>0. TypeOK /\ Place /\ KeptIsTheStream
  BY DEF IInv
<1>1. ASSUME NEW result \in Outcomes, End(result) PROVE IInv'
  BY <1>0, <1>1, EndKeeps DEF TypeOK
<1>2. CASE Refusal = "none" /\ pc' = "dial" /\ UNCHANGED <<conn, outcome>>
  <2>1. CountOk(call.count) /\ Heard
    BY <1>2 DEF Refusal
  <2>2. conn # "open" /\ kept = <<>> /\ taken = 0
    BY <1>0 DEF Place
  <2> QED
    BY <1>0, <1>2, <2>1, <2>2 DEF IInv, TypeOK, Place, CountOk, Heard, KeptIsTheStream
<1>3. CASE Refusal # "none" /\ End(Refusal)
  BY <1>1, <1>3, FaultsAreOutcomes
<1>4. CASE End("output_error")
  BY <1>1, <1>4 DEF Outcomes
<1> QED
  BY <1>2, <1>3, <1>4 DEF Proceed

\* Every step of the command and of the server keeps the invariant.
LEMMA StepIInv == IInv /\ [Next]_vars => IInv'
<1> SUFFICES ASSUME IInv, [Next]_vars PROVE IInv'
  OBVIOUS
<1>0. TypeOK /\ Place /\ KeptIsTheStream
  BY DEF IInv
<1>1. CASE Start
  <2>1. /\ pc = "start"
        /\ UNCHANGED <<call, ctxDone, stdin, session, wire, taken, remaining, sub, kept, stdout>>
    BY <1>1 DEF Start, reads
  <2>2. CASE pc' = "stdin" /\ UNCHANGED <<conn, outcome>>
    <3>1. conn # "open"
      BY <1>0, <2>1 DEF Place
    <3> QED
      BY <1>0, <2>1, <2>2, <3>1 DEF IInv, TypeOK, Place, KeptIsTheStream
  <2>3. CASE ~(OptionsOk /\ call.piped) /\ Proceed
    <3>1. Refusal = "none" => Heard
      BY <2>3 DEF Refusal, OptionsOk, Heard
    <3> QED
      BY <2>1, <2>3, <3>1, ProceedKeeps
  <2> QED
    BY <1>1, <2>2, <2>3 DEF Start
<1>2. CASE Dial
  <2>1. /\ pc = "dial"
        /\ UNCHANGED <<call, ctxDone, stdin, wire, taken, remaining, sub, kept, stdout>>
    BY <1>2 DEF Dial, reads
  <2>2. CASE session' = 101 /\ conn' = "open" /\ pc' = "write" /\ UNCHANGED outcome
    BY <1>0, <2>1, <2>2 DEF IInv, TypeOK, Place, CountOk, Heard, KeptIsTheStream
  <2>3. ASSUME NEW status \in {401, 402, 403, 429},
               session' = status, End(DialError(status))
        PROVE  IInv'
    <3>1. DialError(status) \in Outcomes
      BY DEF DialError, Outcomes
    <3> QED
      BY <1>0, <2>1, <2>3, <3>1, EndKeeps DEF TypeOK
  <2>4. CASE UNCHANGED session /\ End("transport_error")
    <3>1. "transport_error" \in Outcomes
      BY DEF Outcomes
    <3> QED
      BY <1>0, <2>1, <2>4, <3>1, EndKeeps DEF TypeOK
  <2> QED
    BY <1>2, <2>2, <2>3, <2>4 DEF Dial
<1>3. CASE Write
  <2>1. /\ pc = "write"
        /\ UNCHANGED <<call, ctxDone, stdin, session, wire, taken, remaining, sub, kept, stdout>>
    BY <1>3 DEF Write, reads
  <2>2. CASE pc' = "ack" /\ UNCHANGED <<conn, outcome>>
    BY <1>0, <2>1, <2>2 DEF IInv, TypeOK, Place, CountOk, Heard, KeptIsTheStream
  <2>3. CASE End("transport_error")
    <3>1. "transport_error" \in Outcomes
      BY DEF Outcomes
    <3> QED
      BY <1>0, <2>1, <2>3, <3>1, EndKeeps DEF TypeOK
  <2> QED
    BY <1>3, <2>2, <2>3 DEF Write
<1>4. CASE ReadAck
  <2> DEFINE m == wire[taken + 1]
  <2>1. /\ pc = "ack" /\ taken < Len(wire) /\ taken' = taken + 1
        /\ remaining' = IF m.frame = "text" /\ m.size <= MaxResponseBytes
                          THEN Left(m) ELSE remaining
        /\ UNCHANGED <<call, ctxDone, stdin, session, wire, stdout>>
    BY <1>4 DEF ReadAck, ReadNext
  <2>2. /\ m \in Messages /\ m.sub \in STRING \cup {NoSub}
        /\ taken + 1 \in 0 .. Len(wire)
        /\ remaining' \in Int /\ remaining' <= MaxResponseBytes
    BY <1>0, <2>1, ReadingSpends
  <2>3. \/ \E e \in ReadFaults(m) : End(e) /\ UNCHANGED <<sub, kept>>
        \/ AckFault(m) # "none" /\ End(AckFault(m)) /\ UNCHANGED <<sub, kept>>
        \/ AckFault(m) = "none" /\ Subscribed(m)
    BY <1>4 DEF ReadAck, ReadNext
  <2>4. ASSUME NEW e \in Outcomes, End(e), UNCHANGED <<sub, kept>>
        PROVE  IInv'
    BY <1>0, <2>1, <2>2, <2>4, EndKeeps DEF TypeOK
  <2>5. CASE AckFault(m) = "none" /\ Subscribed(m)
    <3>1. taken = 0 /\ kept = <<>> /\ CountOk(call.count) /\ Heard
      BY <1>0, <2>1 DEF Place
    <3>2. Acknowledged' /\ sub' = wire'[1].sub
      BY <1>0, <2>1, <2>5, <3>1 DEF Acknowledged, Subscribed, AckFault, TypeOK
    <3>3. pc' = "collect" /\ kept' = <<>> /\ taken' = 1 /\ UNCHANGED <<conn, outcome>>
      BY <2>1, <2>5, <3>1 DEF Subscribed
    <3>4. Len(kept') = 0 /\ Len(kept') < call'.count
      <4>1. call.count \in Int
        BY <1>0, SubscriptionAssumption DEF TypeOK
      <4> QED
        BY <2>1, <3>1, <3>3, <4>1 DEF CountOk
    <3>5. TypeOK'
      BY <1>0, <2>1, <2>2, <2>5, <3>1, <3>3 DEF TypeOK, Subscribed
    <3>6. Place'
      BY <1>0, <2>1, <3>1, <3>2, <3>3, <3>4 DEF Place, CountOk, Heard
    <3>7. KeptIsTheStream'
      BY <3>3, <3>4 DEF KeptIsTheStream
    <3> QED
      BY <3>5, <3>6, <3>7 DEF IInv
  <2> QED
    BY <2>3, <2>4, <2>5, FaultsAreOutcomes
<1>5. CASE Collect
  <2> DEFINE m == wire[taken + 1]
  <2>1. /\ pc = "collect" /\ taken < Len(wire) /\ taken' = taken + 1
        /\ remaining' = IF m.frame = "text" /\ m.size <= MaxResponseBytes
                          THEN Left(m) ELSE remaining
        /\ UNCHANGED <<call, ctxDone, stdin, session, wire, stdout>>
    BY <1>5 DEF Collect, ReadNext
  <2>2. /\ m \in Messages /\ m.sub \in STRING \cup {NoSub}
        /\ taken + 1 \in 0 .. Len(wire)
        /\ remaining' \in Int /\ remaining' <= MaxResponseBytes
    BY <1>0, <2>1, ReadingSpends
  <2>3. \/ \E e \in ReadFaults(m) : End(e) /\ UNCHANGED <<sub, kept>>
        \/ NoteFault(m) # "none" /\ End(NoteFault(m)) /\ UNCHANGED <<sub, kept>>
        \/ NoteFault(m) = "none" /\ Keep(m)
    BY <1>5 DEF Collect, ReadNext
  <2>4. ASSUME NEW e \in Outcomes, End(e), UNCHANGED <<sub, kept>>
        PROVE  IInv'
    BY <1>0, <2>1, <2>2, <2>4, EndKeeps DEF TypeOK
  <2>5. CASE NoteFault(m) = "none" /\ Keep(m)
    <3>1. /\ Acknowledged /\ sub = wire[1].sub /\ Len(kept) < call.count
          /\ taken = Len(kept) + 1 /\ CountOk(call.count) /\ Heard
      BY <1>0, <2>1 DEF Place, KeptIsTheStream
    <3>2. /\ kept' \in Seq(Messages) /\ Len(kept') = Len(kept) + 1
          /\ kept'[Len(kept) + 1] = m
          /\ \A i \in 1 .. Len(kept) : kept'[i] = kept[i]
          /\ Len(kept) \in Nat
      BY <1>0, <2>2, <2>5, AppendProperties, LenProperties DEF Keep, TypeOK
    <3>3. /\ UNCHANGED <<sub, outcome>>
          /\ \/ pc' = "emit" /\ conn' = "closed" /\ Len(kept') >= call.count
             \/ UNCHANGED <<pc, conn>> /\ ~(Len(kept') >= call.count)
      BY <2>5 DEF Keep, Enough
    <3>4. call.count \in Int /\ call.count <= MaxSubscriptionCount
      <4>1. call.count \in Int
        BY <1>0, SubscriptionAssumption DEF TypeOK
      <4> QED
        BY <3>1, <4>1 DEF CountOk
    <3>5. TypeOK'
      BY <1>0, <2>1, <2>2, <3>1, <3>2, <3>3, <3>4, SubscriptionAssumption DEF TypeOK
    <3>6. Acknowledged' /\ sub' = wire'[1].sub
      BY <2>1, <3>1, <3>3 DEF Acknowledged, AckFault
    <3>7. Place'
      BY <1>0, <2>1, <3>1, <3>2, <3>3, <3>4, <3>6 DEF Place, CountOk, Heard
    <3>8. (\A i \in 1 .. Len(kept) : kept[i] = wire[i + 1] /\ IsEvent(kept[i]))'
      <4>1. IsEvent(m)
        BY <2>2, <2>5, <3>1, SoundNoteIsEvent
      <4>2. \A x : IsEvent(x) => IsEvent(x)'
        BY <2>1 DEF IsEvent
      <4>3. ASSUME NEW i \in 1 .. Len(kept')
            PROVE  kept'[i] = wire'[i + 1] /\ IsEvent(kept'[i])
        <5>1. CASE i <= Len(kept)
          BY <1>0, <2>1, <3>2, <4>3, <5>1 DEF KeptIsTheStream
        <5>2. CASE i = Len(kept) + 1
          BY <2>1, <3>1, <3>2, <4>1, <5>2
        <5> QED
          BY <3>2, <4>3, <5>1, <5>2
      <4> QED
        BY <4>2, <4>3
    <3>9. KeptIsTheStream'
      BY <2>1, <3>1, <3>2, <3>3, <3>4, <3>6, <3>8 DEF KeptIsTheStream
    <3> QED
      BY <3>5, <3>7, <3>9 DEF IInv
  <2> QED
    BY <2>3, <2>4, <2>5, FaultsAreOutcomes
<1>6. CASE ReadFails
  <2>1. "transport_error" \in Outcomes
    BY DEF Outcomes
  <2> QED
    BY <1>0, <1>6, <2>1, EndKeeps DEF ReadFails, TypeOK, reads
<1>7. CASE Emit
  <2>1. {"evidence", "output_error"} \subseteq Outcomes
    BY DEF Outcomes
  <2> QED
    BY <1>0, <1>7, <2>1, EndKeeps DEF Emit, TypeOK, reads
<1>8. CASE Push
  <2>1. PICK m \in Messages : wire' = Append(wire, m)
    BY <1>8 DEF Push
  <2>2. /\ conn = "open"
        /\ UNCHANGED <<call, ctxDone, stdin, pc, conn, session, taken, remaining, sub, kept,
                       stdout, outcome>>
    BY <1>8 DEF Push, link, reads
  <2>3. /\ wire' \in Seq(Messages) /\ Len(wire') = Len(wire) + 1 /\ Len(wire) \in Nat
        /\ \A i \in 1 .. Len(wire) : wire'[i] = wire[i]
    BY <1>0, <2>1, AppendProperties, LenProperties DEF TypeOK
  <2>4. TypeOK'
    BY <1>0, <2>2, <2>3 DEF TypeOK
  <2>5. Acknowledged => Acknowledged' /\ wire'[1] = wire[1]
    BY <2>3 DEF Acknowledged, AckFault
  <2>6. Place'
    BY <1>0, <2>2, <2>5 DEF Place, CountOk, Heard
  <2>7. KeptIsTheStream'
    <3>1. CASE kept = <<>>
      BY <1>0, <2>2, <3>1 DEF KeptIsTheStream
    <3>2. CASE kept # <<>>
      <4>1. pc = "collect" /\ taken = Len(kept) + 1 /\ Acknowledged
        BY <1>0, <2>2, <3>2 DEF Place, KeptIsTheStream
      <4>2. Len(kept) \in Nat /\ Len(kept) + 1 <= Len(wire)
        BY <1>0, <2>3, <4>1 DEF TypeOK
      <4>3. \A x : IsEvent(x) => IsEvent(x)'
        BY <2>2, <2>5, <4>1 DEF IsEvent
      <4>4. \A i \in 1 .. Len(kept) : wire'[i + 1] = wire[i + 1]
        BY <2>3, <4>2
      <4> QED
        BY <1>0, <2>2, <2>5, <4>1, <4>3, <4>4 DEF KeptIsTheStream
    <3> QED
      BY <3>1, <3>2
  <2> QED
    BY <2>4, <2>6, <2>7 DEF IInv
<1>9. CASE EndContext
  BY <1>0, <1>9
  DEF IInv, TypeOK, Place, CountOk, Heard, KeptIsTheStream, Acknowledged, AckFault,
      IsEvent, EndContext, link, reads
<1>10. CASE UNCHANGED vars
  BY <1>0, <1>10
  DEF IInv, TypeOK, Place, CountOk, Heard, KeptIsTheStream, Acknowledged, AckFault,
      IsEvent, vars
<1>11. CASE ReadInput
  <2>1. /\ pc = "stdin" /\ stdin # "open"
        /\ UNCHANGED <<call, ctxDone, stdin, session, wire, taken, remaining, sub, kept, stdout>>
    BY <1>11 DEF ReadInput, reads
  <2>2. CASE Proceed
    BY <2>1, <2>2, ProceedKeeps DEF Heard
  <2>3. CASE End("invalid_json_input")
    <3>1. "invalid_json_input" \in Outcomes
      BY DEF Outcomes, Refusals
    <3> QED
      BY <1>0, <2>1, <2>3, <3>1, EndKeeps DEF TypeOK
  <2> QED
    BY <1>11, <2>2, <2>3 DEF ReadInput
<1>12. CASE FeedInput
  BY <1>0, <1>12
  DEF IInv, TypeOK, Place, CountOk, Heard, KeptIsTheStream, Acknowledged, AckFault,
      IsEvent, FeedInput, link, reads
<1> QED
  BY <1>1, <1>2, <1>3, <1>4, <1>5, <1>6, <1>7, <1>8, <1>9, <1>10, <1>11, <1>12
  DEF Next, Command

-----------------------------------------------------------------------------
\* The inductive invariant holds in every behaviour of the subscribe command.
THEOREM Invariance == Spec => []IInv
BY InitIInv, StepIInv, PTL DEF Spec

\* The state of the subscribe command has its types, its outcomes among them.
THEOREM TypeCorrect == Spec => []TypeOK
<1>1. IInv => TypeOK
  BY DEF IInv
<1> QED
  BY <1>1, Invariance, PTL

\* The notifications kept are the acknowledged subscription's stream from its
\* first event on, for every filter and whatever the server sends.
THEOREM NotificationsAreTheStream == Spec => []KeptIsTheStream
<1>1. IInv => KeptIsTheStream
  BY DEF IInv
<1> QED
  BY <1>1, Invariance, PTL

\* No return of the command leaves its connection open.
THEOREM ConnectionIsClosed == Spec => []NothingLeftOpen
<1>1. IInv => NothingLeftOpen
  BY DEF IInv, Place, NothingLeftOpen
<1> QED
  BY <1>1, Invariance, PTL

-----------------------------------------------------------------------------
(***************************************************************************)
(* The budget: what is left of it is what the bytes read so far leave, and   *)
(* a fault means that the server was not honest.                            *)
(***************************************************************************)
Ledger ==
  /\ pc # "done" =>
       /\ outcome = "pending" /\ stdout = <<>>
       /\ remaining = MaxResponseBytes - Bytes(taken) /\ remaining >= 0
  /\ pc \notin {"start", "stdin", "done"} => ParsesAsSubscription
  /\ pc \in {"start", "stdin"} => wire = <<>>
  /\ outcome = "evidence" =>
       pc = "done" /\ taken = Len(kept) + 1 /\ Bytes(taken) <= MaxResponseBytes
  /\ outcome \in Faults => ~Honest /\ pc = "done"

-----------------------------------------------------------------------------
\* The bytes of the messages add up along the wire, and never fall.
LEMMA BytesAlong ==
  ASSUME TypeOK
  PROVE  /\ Bytes(0) = 0
         /\ \A i \in 1 .. Len(wire) : /\ wire[i].size \in Nat
                                      /\ Bytes(i) = Bytes(i - 1) + wire[i].size
         /\ \A i \in 0 .. Len(wire) : Bytes(i) \in Nat /\ Bytes(i) <= Bytes(Len(wire))
<1>1. wire \in Seq(Messages) /\ Len(wire) \in Nat
  BY DEF TypeOK
<1>2. \A i \in 1 .. Len(wire) : wire[i].size \in Nat
  <2> SUFFICES ASSUME NEW i \in 1 .. Len(wire) PROVE wire[i].size \in Nat
    OBVIOUS
  <2>1. wire[i] \in Message
    BY <1>1, ElementOfSeq, SubscriptionAssumption
  <2> QED
    BY <2>1 DEF Message
<1>3. /\ Sizes \in Seq(Nat) /\ Len(Sizes) = Len(wire)
      /\ \A i \in 1 .. Len(wire) : Sizes[i] = wire[i].size
  BY <1>1, <1>2 DEF Sizes
<1>4. \A i \in 0 .. Len(wire) : Sums(Sizes)[i] <= Sums(Sizes)[Len(wire)]
  BY <1>1, <1>3, SumsRise
<1> QED
  BY <1>1, <1>2, <1>3, <1>4, SumsAlong DEF Bytes

\* A message sent leaves the bytes of the earlier ones as they are.
LEMMA PushKeepsBytes ==
  ASSUME TypeOK, NEW m \in Messages, wire' = Append(wire, m)
  PROVE  \A i \in 0 .. Len(wire) : Bytes(i)' = Bytes(i)
<1>1. wire \in Seq(Messages) /\ Len(wire) \in Nat
  BY DEF TypeOK
<1>2. /\ wire' \in Seq(Messages) /\ Len(wire') = Len(wire) + 1
      /\ \A i \in 1 .. Len(wire) : wire'[i] = wire[i]
  BY <1>1, AppendProperties
<1>3. \A w \in Seq(Messages) : \A i \in 1 .. Len(w) : w[i].size \in Nat
  <2> SUFFICES ASSUME NEW w \in Seq(Messages), NEW i \in 1 .. Len(w)
               PROVE  w[i].size \in Nat
    OBVIOUS
  <2>1. w[i] \in Message
    BY ElementOfSeq, SubscriptionAssumption
  <2> QED
    BY <2>1 DEF Message
<1> DEFINE Of(w) == [i \in DOMAIN w |-> w[i].size]
<1>4. \A w \in Seq(Messages) : Of(w) \in Seq(Nat) /\ Len(Of(w)) = Len(w)
  BY <1>3
<1>5. \A i \in 1 .. Len(wire) : Of(wire)[i] = Of(wire')[i]
  BY <1>1, <1>2
<1> HIDE DEF Of
<1>6. \A i \in 0 .. Len(wire) : Sums(Of(wire))[i] = Sums(Of(wire'))[i]
  <2>1. /\ Of(wire) \in Seq(Nat) /\ Len(Of(wire)) = Len(wire)
        /\ Of(wire') \in Seq(Nat) /\ Len(Of(wire')) = Len(wire) + 1
    BY <1>1, <1>2, <1>4
  <2>2. PICK s, t \in Seq(Nat) : s = Of(wire) /\ t = Of(wire')
    BY <2>1
  <2>3. Len(wire) \in 0 .. Len(s) /\ Len(wire) <= Len(t)
    BY <1>1, <2>1, <2>2
  <2>4. \A i \in 1 .. Len(wire) : s[i] = t[i]
    BY <1>5, <2>2
  <2>5. \A i \in 0 .. Len(wire) : Sums(s)[i] = Sums(t)[i]
    BY <2>3, <2>4, SumsAgree
  <2> QED
    BY <2>2, <2>5
<1> QED
  BY <1>6 DEF Bytes, Sizes, Of

\* A value within the meaning of a condition that was accepted matches it.
LEMMA AdmittedMatches ==
  ASSUME NEW value, NEW all, NEW actual,
         actual \in Admits(value, all),
         value.kind \in {"null", "text"} \/ Alternatives(value)
  PROVE  MatchesLogValue(value, actual)
BY DEF MatchesLogValue, MatchesOne, Admits, Alternatives, ValidateTopic
\* A payload within the meaning of accepted conditions matches them.
LEMMA WithinMatches ==
  ASSUME NEW fields, NEW address, NEW topics,
         ValidateConditions(fields), IsWithin(fields, address, topics)
  PROVE  Matches(fields, address, topics)
<1>1. ASSUME "address" \in DOMAIN fields
      PROVE  MatchesLogValue(fields["address"], address)
  <2> DEFINE value == fields["address"]
  <2>1. ValidateAddresses(value) /\ address \in Admits(value, Addresses)
    BY <1>1 DEF ValidateConditions, IsWithin
  <2>2. CASE ValidateAddress(value)
    BY <2>1, <2>2 DEF ValidateAddress, Admits, MatchesLogValue, MatchesOne
  <2>3. CASE /\ value.kind = "array"
             /\ \A i \in DOMAIN value.items : ValidateAddress(value.items[i])
    BY <2>1, <2>3 DEF ValidateAddress, Admits, MatchesLogValue, MatchesOne
  <2> QED
    BY <2>1, <2>2, <2>3 DEF ValidateAddresses
<1>2. ASSUME "topics" \in DOMAIN fields, NEW i \in DOMAIN fields["topics"].items
      PROVE  i \in DOMAIN topics /\ MatchesLogValue(fields["topics"].items[i], topics[i])
  <2> DEFINE value == fields["topics"].items[i]
  <2>1. i \in DOMAIN topics /\ topics[i] \in Admits(value, Topics)
    BY <1>2 DEF IsWithin
  <2>2. value.kind \in {"null", "text"} \/ Alternatives(value)
    BY <1>2 DEF ValidateConditions, ValidateTopics, ValidateTopic
  <2>3. MatchesLogValue(value, topics[i])
    <3> HIDE DEF value
    <3> QED
      BY <2>1, <2>2, AdmittedMatches
  <2> QED
    BY <2>1, <2>3
<1> QED
  BY <1>1, <1>2 DEF Matches

\* Reading a sound message takes its bytes off the budget, which stays positive.
LEMMA SoundReadSpends ==
  ASSUME TypeOK, Ledger, pc # "done", taken < Len(wire),
         NEW m, m = wire[taken + 1], ReadFaults(m) = {},
         remaining' = IF m.frame = "text" /\ m.size <= MaxResponseBytes
                        THEN Left(m) ELSE remaining
  PROVE  remaining' = MaxResponseBytes - Bytes(taken + 1) /\ remaining' >= 0
<1>1. taken \in Nat /\ Len(wire) \in Nat /\ taken + 1 \in 1 .. Len(wire)
  BY DEF TypeOK
<1>2. /\ m.size \in Nat /\ Bytes(taken + 1) = Bytes(taken) + m.size
      /\ Bytes(taken) \in Nat /\ (taken + 1) - 1 = taken
  BY <1>1, BytesAlong
<1>3. m.frame = "text" /\ m.size <= remaining /\ ~(m.size > MaxResponseBytes)
  BY DEF ReadFaults, Fits
<1>4. remaining \in Int /\ MaxResponseBytes \in Nat /\ remaining = MaxResponseBytes - Bytes(taken)
  BY SubscriptionAssumption DEF TypeOK, Ledger
<1>5. remaining' = remaining - m.size
  BY <1>2, <1>3, <1>4 DEF Left
<1> QED
  BY <1>2, <1>3, <1>4, <1>5

\* No message of an honest server is at fault.
LEMMA HonestMessage ==
  ASSUME IInv, Ledger, Honest, pc \in {"ack", "collect"}, taken < Len(wire),
         NEW m, m = wire[taken + 1]
  PROVE  /\ ReadFaults(m) = {}
         /\ pc = "ack" => AckFault(m) = "none"
         /\ pc = "collect" => NoteFault(m) = "none"
<1>1. TypeOK /\ Place /\ KeptIsTheStream
  BY DEF IInv
<1>2. taken \in Nat /\ Len(wire) \in Nat /\ taken + 1 \in 1 .. Len(wire)
  BY <1>1 DEF TypeOK
<1>3. /\ m.size \in Nat /\ Bytes(taken + 1) = Bytes(taken) + m.size
      /\ Bytes(taken) \in Nat /\ (taken + 1) - 1 = taken
      /\ Bytes(taken + 1) <= Bytes(Len(wire)) /\ Bytes(Len(wire)) \in Nat
  BY <1>1, <1>2, BytesAlong
<1>4. m.frame = "text" /\ (taken + 1 > 1 => IsEvent(m))
      /\ Bytes(Len(wire)) <= MaxResponseBytes
  BY <1>2 DEF Honest
<1>5. /\ remaining \in Int /\ MaxResponseBytes \in Nat
      /\ remaining = MaxResponseBytes - Bytes(taken)
  BY <1>1, SubscriptionAssumption DEF TypeOK, Ledger
<1>6. m.size <= remaining /\ m.size <= MaxResponseBytes
  BY <1>3, <1>4, <1>5
<1>7. CASE pc = "ack"
  <2>1. taken + 1 = 1
    BY <1>1, <1>7 DEF Place
  <2>2. AckFault(m) = "none"
    BY <2>1 DEF Honest, Acknowledged
  <2>3. m.type = "response"
    BY <2>2 DEF AckFault
  <2>4. ReadFaults(m) = {}
    BY <1>3, <1>4, <1>5, <1>6, <2>3 DEF ReadFaults, Fits
  <2> QED
    BY <1>7, <2>2, <2>4
<1>8. CASE pc = "collect"
  <2>1. taken + 1 > 1 /\ sub = wire[1].sub /\ Acknowledged
    <3>1. taken = Len(kept) + 1 /\ Len(kept) \in Nat
      BY <1>1, <1>8 DEF KeptIsTheStream, TypeOK
    <3> QED
      BY <1>1, <1>8, <3>1 DEF Place
  <2>2. IsEvent(m) /\ sub # NoSub
    BY <1>4, <2>1 DEF Acknowledged, AckFault
  <2>3. m.type = "notification" /\ m.sub = sub /\ m.payload.wellFormed
    BY <2>1, <2>2 DEF IsEvent
  <2>4. ReadFaults(m) = {}
    BY <1>3, <1>4, <1>5, <1>6, <2>3 DEF ReadFaults, Fits
  <2>5. MatchesFilter(m.payload)
    <3> SUFFICES ASSUME call.subscription = "logs"
                 PROVE  Matches(call.fields, m.payload.address, m.payload.topics)
      BY DEF MatchesFilter
    <3>1. ValidateConditions(call.fields)
      BY <1>8 DEF Ledger, ParsesAsSubscription
    <3>2. IsWithin(call.fields, m.payload.address, m.payload.topics)
      BY <2>2 DEF IsEvent
    <3> QED
      BY <3>1, <3>2, WithinMatches
  <2>6. NoteFault(m) = "none"
    BY <2>2, <2>3, <2>5 DEF NoteFault
  <2> QED
    BY <1>8, <2>4, <2>6
<1> QED
  BY <1>7, <1>8

\* A step that ends the command keeps the ledger, when it ends it with evidence
\* only within the budget and with a fault only of a dishonest server.
LEMMA EndKeepsLedger ==
  ASSUME Ledger, NEW result, End(result), UNCHANGED <<call, wire>>,
         result = "evidence" =>
           taken' = Len(kept') + 1 /\ Bytes(taken') <= MaxResponseBytes,
         result \in Faults => ~Honest
  PROVE  Ledger'
<1>1. pc' = "done" /\ outcome' = result
  BY DEF End
<1>2. ~Honest => ~Honest'
  BY DEF Honest, Acknowledged, AckFault, IsEvent, Bytes, Sizes
<1>3. Bytes(taken)' = Bytes(taken')
  BY DEF Bytes, Sizes
<1> QED
  BY <1>1, <1>2, <1>3 DEF Ledger

\* The whole budget is left at the start.
LEMMA InitLedger == Init => Ledger
<1> SUFFICES ASSUME Init PROVE Ledger
  OBVIOUS
<1>1. /\ pc = "start" /\ wire = <<>> /\ taken = 0 /\ remaining = MaxResponseBytes
      /\ stdout = <<>> /\ outcome = "pending"
  BY DEF Init
<1>2. Bytes(0) = 0
  BY InitIInv, BytesAlong DEF IInv
<1>3. remaining = MaxResponseBytes - Bytes(taken) /\ remaining >= 0
  BY <1>1, <1>2, SubscriptionAssumption
<1>4. outcome # "evidence" /\ outcome \notin Faults
  BY <1>1 DEF Faults
<1> QED
  BY <1>1, <1>3, <1>4 DEF Ledger

\* A step that goes on, and neither reads nor writes, keeps the ledger.
LEMMA GoingOnKeepsLedger ==
  ASSUME Ledger, ParsesAsSubscription, pc # "done", pc' \notin {"start", "stdin", "done"},
         UNCHANGED <<call, wire, taken, remaining, stdout, outcome>>
  PROVE  Ledger'
<1>1. Bytes(taken)' = Bytes(taken)
  BY DEF Bytes, Sizes
<1>2. outcome' = "pending" /\ "pending" \notin Faults
  BY DEF Ledger, Faults
<1>3. ParsesAsSubscription'
  BY DEF ParsesAsSubscription
<1> QED
  BY <1>1, <1>2, <1>3 DEF Ledger

\* The step from the text to the network keeps the ledger.
LEMMA ProceedKeepsLedger ==
  ASSUME Ledger, pc # "done", Proceed, UNCHANGED <<call, wire, taken, remaining, stdout>>
  PROVE  Ledger'
<1>1. ASSUME NEW result \in {Refusal, "output_error"}, End(result) PROVE Ledger'
  <2>1. result # "evidence" /\ result \notin Faults
    BY DEF Refusal, Faults
  <2> QED
    BY <1>1, <2>1, EndKeepsLedger
<1>2. CASE Refusal = "none" /\ pc' = "dial" /\ UNCHANGED outcome
  <2>1. ParsesAsSubscription
    BY <1>2 DEF Refusal
  <2> QED
    BY <1>2, <2>1, GoingOnKeepsLedger
<1> QED
  BY <1>1, <1>2 DEF Proceed

\* A sound message accepted keeps the ledger.
LEMMA AcceptedKeepsLedger ==
  ASSUME TypeOK, Ledger, pc \in {"ack", "collect"}, pc' \in {"collect", "emit"},
         taken < Len(wire), taken' = taken + 1, ReadFaults(wire[taken + 1]) = {},
         remaining' = IF /\ wire[taken + 1].frame = "text"
                         /\ wire[taken + 1].size <= MaxResponseBytes
                        THEN Left(wire[taken + 1]) ELSE remaining,
         UNCHANGED <<call, wire, stdout, outcome>>
  PROVE  Ledger'
<1>1. remaining' = MaxResponseBytes - Bytes(taken + 1) /\ remaining' >= 0
  BY SoundReadSpends
<1>2. Bytes(taken)' = Bytes(taken + 1)
  BY DEF Bytes, Sizes
<1>3. outcome' = "pending" /\ "pending" \notin Faults
  BY DEF Ledger, Faults
<1>4. ParsesAsSubscription'
  BY DEF Ledger, ParsesAsSubscription
<1> QED
  BY <1>1, <1>2, <1>3, <1>4 DEF Ledger

\* Every message read is booked.
LEMMA StepLedger == IInv /\ Ledger /\ [Next]_vars => Ledger'
<1> SUFFICES ASSUME IInv, Ledger, [Next]_vars PROVE Ledger'
  OBVIOUS
<1>0. TypeOK /\ Place /\ KeptIsTheStream
  BY DEF IInv
<1>1. CASE Start
  <2>1. pc = "start" /\ UNCHANGED <<call, wire, taken, remaining, stdout>>
    BY <1>1 DEF Start, reads
  <2>2. CASE pc' = "stdin" /\ UNCHANGED outcome
    <3>1. Bytes(taken)' = Bytes(taken)
      BY <2>1 DEF Bytes, Sizes
    <3>2. outcome' = "pending" /\ "pending" \notin Faults
      BY <2>1, <2>2 DEF Ledger, Faults
    <3> QED
      BY <2>1, <2>2, <3>1, <3>2 DEF Ledger
  <2>3. CASE Proceed
    BY <2>1, <2>3, ProceedKeepsLedger
  <2> QED
    BY <1>1, <2>2, <2>3 DEF Start
<1>2. CASE Dial
  <2>1. pc = "dial" /\ UNCHANGED <<call, wire, taken, remaining, stdout>>
    BY <1>2 DEF Dial, reads
  <2>2. CASE pc' = "write" /\ UNCHANGED outcome
    BY <2>1, <2>2, GoingOnKeepsLedger DEF Ledger
  <2>3. ASSUME NEW e \in {"transport_error", "credential_rejected", "insufficient_credits"},
               End(e)
        PROVE  Ledger'
    <3>1. e # "evidence" /\ e \notin Faults
      BY DEF Faults
    <3> QED
      BY <2>1, <2>3, <3>1, EndKeepsLedger
  <2> QED
    BY <1>2, <2>2, <2>3 DEF Dial, DialError
<1>3. CASE Write
  <2>1. pc = "write" /\ UNCHANGED <<call, wire, taken, remaining, stdout>>
    BY <1>3 DEF Write, reads
  <2>2. CASE pc' = "ack" /\ UNCHANGED outcome
    BY <2>1, <2>2, GoingOnKeepsLedger DEF Ledger
  <2>3. CASE End("transport_error")
    <3>1. "transport_error" \notin Faults
      BY DEF Faults
    <3> QED
      BY <2>1, <2>3, <3>1, EndKeepsLedger
  <2> QED
    BY <1>3, <2>2, <2>3 DEF Write
<1>4. CASE ReadAck
  <2> DEFINE m == wire[taken + 1]
  <2>1. /\ pc = "ack" /\ taken < Len(wire) /\ taken' = taken + 1
        /\ remaining' = IF m.frame = "text" /\ m.size <= MaxResponseBytes
                          THEN Left(m) ELSE remaining
        /\ UNCHANGED <<call, wire, stdout>>
    BY <1>4 DEF ReadAck, ReadNext
  <2>2. \/ \E e \in ReadFaults(m) : End(e)
        \/ AckFault(m) # "none" /\ End(AckFault(m))
        \/ ReadFaults(m) = {} /\ Subscribed(m)
    BY <1>4 DEF ReadAck, ReadNext
  <2>3. Honest => ReadFaults(m) = {} /\ AckFault(m) = "none"
    BY <2>1, HonestMessage
  <2>4. ASSUME NEW e \in ReadFaults(m), End(e) PROVE Ledger'
    <3>1. e # "evidence" /\ ~Honest
      BY <2>3 DEF ReadFaults
    <3> QED
      BY <2>1, <2>4, <3>1, EndKeepsLedger
  <2>5. CASE AckFault(m) # "none" /\ End(AckFault(m))
    <3>1. AckFault(m) # "evidence" /\ ~Honest
      BY <2>3, <2>5 DEF AckFault
    <3> QED
      BY <2>1, <2>5, <3>1, EndKeepsLedger
  <2>6. CASE ReadFaults(m) = {} /\ Subscribed(m)
    <3>1. pc' = "collect" /\ UNCHANGED outcome
      BY <2>6 DEF Subscribed
    <3> QED
      BY <1>0, <2>1, <2>6, <3>1, AcceptedKeepsLedger
  <2> QED
    BY <2>2, <2>4, <2>5, <2>6
<1>5. CASE Collect
  <2> DEFINE m == wire[taken + 1]
  <2>1. /\ pc = "collect" /\ taken < Len(wire) /\ taken' = taken + 1
        /\ remaining' = IF m.frame = "text" /\ m.size <= MaxResponseBytes
                          THEN Left(m) ELSE remaining
        /\ UNCHANGED <<call, wire, stdout>>
    BY <1>5 DEF Collect, ReadNext
  <2>2. \/ \E e \in ReadFaults(m) : End(e)
        \/ NoteFault(m) # "none" /\ End(NoteFault(m))
        \/ ReadFaults(m) = {} /\ Keep(m)
    BY <1>5 DEF Collect, ReadNext
  <2>3. Honest => ReadFaults(m) = {} /\ NoteFault(m) = "none"
    BY <2>1, HonestMessage
  <2>4. ASSUME NEW e \in ReadFaults(m), End(e) PROVE Ledger'
    <3>1. e # "evidence" /\ ~Honest
      BY <2>3 DEF ReadFaults
    <3> QED
      BY <2>1, <2>4, <3>1, EndKeepsLedger
  <2>5. CASE NoteFault(m) # "none" /\ End(NoteFault(m))
    <3>1. NoteFault(m) # "evidence" /\ ~Honest
      BY <2>3, <2>5 DEF NoteFault
    <3> QED
      BY <2>1, <2>5, <3>1, EndKeepsLedger
  <2>6. CASE ReadFaults(m) = {} /\ Keep(m)
    <3>1. pc' \in {"collect", "emit"} /\ UNCHANGED outcome
      BY <2>1, <2>6 DEF Keep
    <3> QED
      BY <1>0, <2>1, <2>6, <3>1, AcceptedKeepsLedger
  <2> QED
    BY <2>2, <2>4, <2>5, <2>6
<1>6. CASE ReadFails
  <2>1. "transport_error" \notin Faults
    BY DEF Faults
  <2> QED
    BY <1>6, <2>1, EndKeepsLedger DEF ReadFails
<1>7. CASE Emit
  <2>1. pc = "emit" /\ UNCHANGED <<call, wire, taken, remaining, kept>>
    BY <1>7 DEF Emit, reads
  <2>2. {"evidence", "output_error"} \cap Faults = {}
    BY DEF Faults
  <2>3. taken = Len(kept) + 1 /\ Bytes(taken) <= MaxResponseBytes
    <3>1. Bytes(taken) \in Nat
      BY <1>0, BytesAlong DEF TypeOK
    <3> QED
      BY <1>0, <2>1, <3>1, SubscriptionAssumption DEF KeptIsTheStream, Ledger
  <2>4. taken' = Len(kept') + 1 /\ Bytes(taken') <= MaxResponseBytes
    BY <2>1, <2>3
  <2> QED
    BY <1>7, <2>1, <2>2, <2>4, EndKeepsLedger DEF Emit
<1>8. CASE Push
  <2>1. PICK m \in Messages : wire' = Append(wire, m)
    BY <1>8 DEF Push
  <2>2. /\ conn = "open"
        /\ UNCHANGED <<call, pc, taken, remaining, kept, stdout, outcome>>
    BY <1>8 DEF Push, reads
  <2>3. pc \notin {"start", "stdin", "done"}
    BY <1>0, <2>2 DEF Place
  <2>4. Bytes(taken)' = Bytes(taken)
    <3>1. taken \in 0 .. Len(wire) /\ taken' = taken
      BY <1>0, <2>2 DEF TypeOK
    <3> QED
      BY <1>0, <2>1, <3>1, PushKeepsBytes
  <2>5. outcome' = "pending" /\ "pending" \notin Faults
    BY <2>2, <2>3 DEF Ledger, Faults
  <2>6. ParsesAsSubscription'
    BY <2>2, <2>3 DEF Ledger, ParsesAsSubscription
  <2> QED
    BY <2>2, <2>3, <2>4, <2>5, <2>6 DEF Ledger
<1>9. CASE FeedInput \/ EndContext \/ UNCHANGED vars
  <2>1. UNCHANGED <<call, pc, wire, taken, remaining, kept, stdout, outcome>>
    BY <1>9 DEF FeedInput, EndContext, reads, vars
  <2> QED
    BY <2>1 DEF Ledger, ParsesAsSubscription, Honest, Acknowledged, AckFault, IsEvent,
                Bytes, Sizes
<1>10. CASE ReadInput
  <2>1. pc = "stdin" /\ UNCHANGED <<call, wire, taken, remaining, stdout>>
    BY <1>10 DEF ReadInput, reads
  <2>2. "invalid_json_input" \notin Faults
    BY DEF Faults
  <2> QED
    BY <1>10, <2>1, <2>2, ProceedKeepsLedger, EndKeepsLedger DEF ReadInput
<1> QED
  BY <1>1, <1>2, <1>3, <1>4, <1>5, <1>6, <1>7, <1>8, <1>9, <1>10 DEF Next, Command

\* The ledger holds in every behaviour of the subscribe command.
THEOREM LedgerInvariance == Spec => []Ledger
BY InitIInv, StepIInv, InitLedger, StepLedger, PTL DEF Spec

\* Everything read for the notifications, the acknowledgement included, is within
\* the limit of one response, whatever the limit and the sizes of the messages.
THEOREM BudgetHolds == Spec => []BudgetIsTotal
<1>1. IInv /\ Ledger => BudgetIsTotal
  <2> SUFFICES ASSUME IInv, Ledger, pc \in {"collect", "emit"} \/ outcome = "evidence"
               PROVE  Bytes(Len(kept) + 1) <= MaxResponseBytes
    BY DEF BudgetIsTotal
  <2>1. CASE pc \in {"collect", "emit"}
    <3>1. taken = Len(kept) + 1 /\ remaining = MaxResponseBytes - Bytes(taken)
          /\ remaining >= 0
      BY <2>1 DEF IInv, KeptIsTheStream, Ledger
    <3>2. Bytes(taken) \in Nat
      BY BytesAlong DEF IInv, TypeOK
    <3> QED
      BY <3>1, <3>2, SubscriptionAssumption
  <2>2. CASE outcome = "evidence"
    BY <2>2 DEF Ledger
  <2> QED
    BY <2>1, <2>2
<1> QED
  BY <1>1, Invariance, LedgerInvariance, PTL

\* A server that keeps to its subscription and to the limit is accused of nothing.
THEOREM HonestIsNotAccused == Spec => []NoFalseAccusation
<1>1. Ledger => NoFalseAccusation
  BY DEF Ledger, NoFalseAccusation
<1> QED
  BY <1>1, LedgerInvariance, PTL

-----------------------------------------------------------------------------
(***************************************************************************)
(* The refinement of Delivery.                                              *)
(***************************************************************************)

\* What the server sends adds at most one event to the feed.
LEMMA PushFeeds ==
  ASSUME TypeOK, NEW m \in Messages, wire' = Append(wire, m), UNCHANGED call
  PROVE  Feed' = Feed \/ (Feed' # Feed /\ Feed' = Append(Feed, m))
<1>1. wire \in Seq(Messages) /\ Len(wire) \in Nat
  BY DEF TypeOK
<1>2. /\ Len(wire') = Len(wire) + 1 /\ wire'[Len(wire) + 1] = m
      /\ \A i \in 1 .. Len(wire) : wire'[i] = wire[i]
  BY <1>1, AppendProperties
<1>3. PICK w, E : w = wire /\ E = Events'
  OBVIOUS
<1> DEFINE P == Picked(w, E)[Len(w)]
           Q == Picked(Append(w, m), E)[Len(w) + 1]
<1>4. /\ Picked(w, E)[0] = <<>> /\ P \in Seq(E)
      /\ Q = IF m \in E THEN Append(P, m) ELSE P
  BY <1>1, <1>3, PickedAppend
<1>5. Acknowledged' => Feed' = Q
  BY <1>2, <1>3 DEF Feed
<1>6. CASE Len(wire) = 0
  <2>1. Feed = <<>> /\ P = <<>>
    BY <1>3, <1>4, <1>6 DEF Feed, Acknowledged
  <2>2. Acknowledged' => m \notin E
    BY <1>2, <1>3, <1>6 DEF Acknowledged, AckFault, Events, IsEvent
  <2>3. Acknowledged' => Feed' = <<>>
    BY <1>4, <1>5, <2>1, <2>2
  <2>4. ~Acknowledged' => Feed' = <<>>
    BY DEF Feed
  <2> QED
    BY <2>1, <2>3, <2>4
<1>7. CASE Len(wire) # 0
  <2>1. wire'[1] = wire[1] /\ Len(wire) > 0 /\ Len(wire') > 0
    BY <1>1, <1>2, <1>7
  <2>2. Acknowledged' = Acknowledged /\ E = Events
    BY <1>3, <2>1 DEF Acknowledged, AckFault, Events, IsEvent
  <2>3. CASE Acknowledged
    <3>1. Feed = P /\ Feed' = Q
      BY <1>3, <1>5, <2>2, <2>3 DEF Feed
    <3>2. Append(P, m) # P
      <4>1. \A p \in Seq(E) : Append(p, m) # p
        OBVIOUS
      <4> QED
        BY <1>4, <4>1
    <3> QED
      BY <1>4, <3>1, <3>2
  <2>4. CASE ~Acknowledged
    BY <2>2, <2>4 DEF Feed
  <2> QED
    BY <2>3, <2>4
<1> QED
  BY <1>6, <1>7

\* The notifications kept are the beginning of the feed.
LEMMA KeptBeginsFeed ==
  ASSUME IInv, pc = "emit"
  PROVE  /\ Heard /\ call.count \in Int /\ 0 < call.count /\ call.count <= Len(Feed)
         /\ kept = SubSeq(Feed, 1, call.count)
<1>1. TypeOK /\ Place /\ KeptIsTheStream
  BY DEF IInv
<1>2. /\ Len(kept) = call.count /\ taken = Len(kept) + 1 /\ Len(kept) \in Nat
      /\ taken <= Len(wire) /\ Len(wire) \in Nat
      /\ wire \in Seq(Messages) /\ kept \in Seq(Messages)
  BY <1>1 DEF KeptIsTheStream, TypeOK
<1>3. CountOk(call.count) /\ call.count \in Int /\ 0 < call.count
  <2>1. CountOk(call.count)
    BY <1>1 DEF Place
  <2> QED
    BY <1>2, <2>1 DEF CountOk
<1>4. Acknowledged
  BY <1>1, <1>2, <1>3 DEF KeptIsTheStream
<1>5. wire[1] \notin Events
  BY <1>4 DEF Acknowledged, AckFault, Events, IsEvent
<1>6. ASSUME NEW i \in 2 .. taken PROVE wire[i] \in Events
  <2>1. i - 1 \in 1 .. Len(kept) /\ (i - 1) + 1 = i /\ i \in 1 .. Len(wire)
    BY <1>2
  <2>2. IsEvent(wire[i])
    BY <1>1, <2>1 DEF KeptIsTheStream
  <2> QED
    BY <1>2, <2>1, <2>2 DEF Events
<1> HIDE DEF Events
<1>7. PICK P \in [0 .. Len(wire) -> Seq(Events)] : P = Picked(wire, Events)
  BY <1>2, PickedAlong
<1>8. Len(P[taken]) = Len(kept) /\ \A i \in 1 .. Len(kept) : P[taken][i] = wire[i + 1]
  <2>1. taken \in 1 .. Len(wire) /\ taken - 1 = Len(kept)
    BY <1>2
  <2>2. PICK w, E, n : w = wire /\ E = Events /\ n = taken
    OBVIOUS
  <2>3. Len(w) \in Nat /\ n \in 1 .. Len(w) /\ w[1] \notin E
    BY <1>2, <1>5, <2>1, <2>2
  <2>4. \A i \in 2 .. n : w[i] \in E
    BY <1>6, <2>2
  <2>5. /\ Len(Picked(w, E)[n]) = n - 1
        /\ \A i \in 1 .. n - 1 : Picked(w, E)[n][i] = w[i + 1]
    BY <2>3, <2>4, PickedRun
  <2> QED
    BY <1>7, <2>1, <2>2, <2>5
<1>9. Extends(P[Len(wire)], P[taken])
  <2>1. taken \in 0 .. Len(wire) /\ Len(wire) \in taken .. Len(wire)
    BY <1>2
  <2> QED
    BY <1>2, <1>7, <2>1, PickedGrows
<1>10. Feed = P[Len(wire)] /\ Feed \in Seq(Events)
  BY <1>2, <1>4, <1>7 DEF Feed
<1>11. /\ Len(kept) <= Len(Feed) /\ Len(Feed) \in Nat
       /\ \A i \in 1 .. Len(kept) : Feed[i] = kept[i]
  BY <1>1, <1>8, <1>9, <1>10 DEF Extends, KeptIsTheStream
<1>12. kept = SubSeq(Feed, 1, Len(kept))
  <2>1. PICK f \in Seq(Events) : f = Feed
    BY <1>10
  <2>2. SubSeq(f, 1, Len(kept)) = [i \in 1 .. Len(kept) |-> f[i]]
    BY <1>2, <1>11, <2>1
  <2>3. kept = [i \in 1 .. Len(kept) |-> kept[i]]
    BY <1>2
  <2> QED
    BY <1>11, <2>1, <2>2, <2>3
<1> QED
  BY <1>1, <1>2, <1>3, <1>11, <1>12 DEF Place

\* A command that has not begun has promised nothing yet.
LEMMA InitDelivers == Init => Promise!Init
<1> SUFFICES ASSUME Init PROVE Promise!Init
  OBVIOUS
<1>1. call.count \in Int
  BY SubscriptionAssumption DEF Init
<1> QED
  BY <1>1 DEF Init, Promise!Init, Feed, Acknowledged

\* Every step is one of Delivery, or none.
LEMMA StepDelivers == IInv /\ Ledger /\ [Next]_vars => [Promise!Next]_Promise!vars
<1> SUFFICES ASSUME IInv, Ledger, [Next]_vars PROVE [Promise!Next]_Promise!vars
  OBVIOUS
<1>0. TypeOK /\ Place
  BY DEF IInv
<1>1. UNCHANGED <<call, wire>> => UNCHANGED <<call.count, Feed>>
  BY DEF Feed, Acknowledged, AckFault, Events, IsEvent
<1>2. ASSUME UNCHANGED <<call, stdin, wire, stdout>>, pc' = "done", pc # "done"
      PROVE  Promise!Next
  BY <1>1, <1>2 DEF Promise!Next, Promise!Fail
<1>3. ASSUME UNCHANGED <<call, stdin, wire, stdout>>, pc' # "done", pc # "done"
      PROVE  UNCHANGED Promise!vars
  BY <1>1, <1>3 DEF Promise!vars
<1>4. CASE Start \/ ReadInput \/ Dial \/ Write \/ ReadAck \/ Collect \/ ReadFails
  <2>1. UNCHANGED <<call, stdin, wire, stdout>> /\ pc # "done"
    BY <1>4 DEF Start, ReadInput, Dial, Write, ReadAck, Collect, ReadFails
  <2> QED
    BY <1>2, <1>3, <2>1
<1>5. CASE Emit
  <2>1. pc = "emit" /\ pc' = "done" /\ UNCHANGED <<call, stdin, wire>>
    BY <1>5 DEF Emit, End
  <2>2. CASE UNCHANGED stdout
    BY <1>2, <2>1, <2>2
  <2>3. CASE stdout' = kept
    <3>1. /\ Heard /\ 0 < call.count /\ call.count <= Len(Feed)
          /\ kept = SubSeq(Feed, 1, call.count)
      BY <2>1, KeptBeginsFeed
    <3>2. Promise!Deliver
      BY <1>1, <2>1, <2>3, <3>1 DEF Promise!Deliver, Heard
    <3> QED
      BY <3>2 DEF Promise!Next
  <2> QED
    BY <1>5, <2>2, <2>3 DEF Emit
<1>6. CASE Push
  <2>1. PICK m \in Messages : wire' = Append(wire, m)
    BY <1>6 DEF Push
  <2>2. UNCHANGED <<call, stdin, pc, stdout>>
    BY <1>6 DEF Push
  <2>3. Feed' = Feed \/ (Feed' # Feed /\ Feed' = Append(Feed, m))
    BY <1>0, <2>1, <2>2, PushFeeds
  <2>4. CASE Feed' = Feed
    BY <2>2, <2>4 DEF Promise!vars
  <2>5. CASE Feed' # Feed /\ Feed' = Append(Feed, m)
    BY <2>2, <2>5 DEF Promise!Next, Promise!Publish
  <2> QED
    BY <2>3, <2>4, <2>5
<1>7. CASE EndContext \/ UNCHANGED vars
  <2>1. UNCHANGED <<call, stdin, wire, stdout, pc>>
    BY <1>7 DEF EndContext, vars
  <2> QED
    BY <1>1, <2>1 DEF Promise!vars
<1>8. CASE FeedInput
  <2>1. /\ call.piped /\ stdin = "open" /\ stdin' # "open"
        /\ UNCHANGED <<call, wire, stdout, pc>>
    BY <1>8 DEF FeedInput
  <2>2. Promise!Ask
    BY <1>1, <2>1 DEF Promise!Ask
  <2> QED
    BY <2>2 DEF Promise!Next
<1> QED
  BY <1>4, <1>5, <1>6, <1>7, <1>8 DEF Next, Command

\* The safety of KeepsPromise: for every filter, count and limit, and whatever the
\* server sends, the command prints the first `count` events its subscription
\* published, complete and in order, or none of them, and never before its input is
\* known.
THEOREM ImplementsDelivery == Spec => Promise!Safety
BY InitDelivers, StepDelivers, Invariance, LedgerInvariance, PTL DEF Spec, Promise!Safety

=============================================================================
