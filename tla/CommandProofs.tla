--------------------------- MODULE CommandProofs ---------------------------
(***************************************************************************)
(* Theorems about Command for every command line, every input, every limit   *)
(* on attempts and every course of the call.                                 *)
(***************************************************************************)
EXTENDS Command, OutputProofs

(***************************************************************************)
(* The strengthening: before the call nothing has happened; from the call on *)
(* the envelope is the text that consent was given for; what reaches the      *)
(* output has passed its command's judgement.                                *)
(***************************************************************************)
Early ==
  pc \in {"parse", "run", "stdin"} =>
    /\ envelope = <<>> /\ limit = 0 /\ rounds = 0 /\ effects = 0
    /\ phase = "idle" /\ reply = "none" /\ stdout = "empty"

Consented ==
  /\ pc = "stdin" => argv.command = "rpc"
  /\ (pc = "call" \/ rounds > 0) =>
       /\ ~argv.dryRun
       /\ argv.command = "rpc" =>
            /\ envelope = argv.text.requests
            /\ HasWrite(envelope) => argv.allowWrite /\ limit = WriteLimit

Printable ==
  /\ reply # "odd"
  /\ reply = "final" => argv.command = "rpc"
  /\ reply = "unready" => argv.command = "health"
  /\ reply = "none" => argv.dryRun \/ argv.command \in Offline

Judged ==
  /\ pc # "done" => document = NoDocument /\ encoded = Refused
  /\ pc = "call" => reply = "none" /\ stdout = "empty"
  /\ pc = "emit" => stdout = "empty" /\ Printable
  /\ ExitMatchesOutput

IInv == TypeOK /\ Early /\ Consented /\ Judged /\ IdsDiffer

-----------------------------------------------------------------------------
\* Two ids with different keys differ as IdsDiffer asks.
LEMMA KeysTellIdsApart ==
  ASSUME NEW a \in Id, NEW b \in Id, IdKey(a) # IdKey(b),
         a.kind = b.kind, a.value = b.value
  PROVE  a.minus # b.minus /\ a.value # 0
<1>1. a.value \in Nat /\ b.value \in Nat /\ a.minus \in BOOLEAN /\ b.minus \in BOOLEAN
  BY DEF Id
<1>2. (IF a.minus THEN -a.value ELSE a.value) # (IF b.minus THEN -b.value ELSE b.value)
  BY DEF IdKey
<1> QED
  BY <1>1, <1>2

\* Requests that parse make an envelope whose ids differ and that fits a batch.
LEMMA ParsedRequests ==
  ASSUME NEW v \in Invocations, ParsesAsRequest(v.text)
  PROVE  /\ v.text.requests \in Seq(Request)
         /\ Len(v.text.requests) <= MaxBatchRequests
         /\ \A i, j \in DOMAIN v.text.requests :
              (i # j /\ v.text.requests[i].id.kind = v.text.requests[j].id.kind
                     /\ v.text.requests[i].id.value = v.text.requests[j].id.value)
                => /\ v.text.requests[i].id.minus # v.text.requests[j].id.minus
                   /\ v.text.requests[i].id.value # 0
<1> DEFINE rs == v.text.requests
<1>1. rs \in Seq(Request) /\ (v.text.kind = "object" => Len(rs) = 1)
  BY CommandAssumption DEF Invocation, Text
<1>2. \A i \in DOMAIN rs : rs[i] \in Request /\ rs[i].id \in Id
  <2> SUFFICES ASSUME NEW i \in DOMAIN rs PROVE rs[i] \in Request /\ rs[i].id \in Id
    OBVIOUS
  <2>1. rs[i] \in Request
    BY <1>1
  <2> QED
    BY <2>1 DEF Request
<1>3. Len(rs) <= MaxBatchRequests
  BY <1>1, CommandAssumption DEF ParsesAsRequest, LengthOk
<1>4. ASSUME NEW i \in DOMAIN rs, NEW j \in DOMAIN rs, i # j
      PROVE  IdKey(rs[i].id) # IdKey(rs[j].id)
  <2>1. CASE v.text.kind = "object"
    <3>1. DOMAIN rs = 1 .. 1
      BY <1>1, <2>1
    <3> QED
      BY <1>4, <3>1
  <2>2. CASE v.text.kind # "object"
    BY <1>4, <2>2 DEF ParsesAsRequest
  <2> QED
    BY <2>1, <2>2
<1> QED
  BY <1>1, <1>2, <1>3, <1>4, KeysTellIdsApart

\* The batch of ping is an envelope of that kind too.
LEMMA PingIsSound ==
  /\ PingRequests \in Seq(Request) /\ Len(PingRequests) <= MaxBatchRequests
  /\ \A i, j \in DOMAIN PingRequests :
       i # j => PingRequests[i].id.value # PingRequests[j].id.value
BY CommandAssumption DEF PingRequests, Reading, Request, Id

\* What was printed stays what it was; before the end there is nothing.
LEMMA NothingPrinted ==
  ASSUME document' = NoDocument, encoded' = Refused
  PROVE  PrintedOK'
BY DEF PrintedOK

\* As long as what it was printed from stays.
LEMMA PrintedStays ==
  ASSUME PrintedOK, UNCHANGED <<argv, reply, body, envelope, printVars>>
  PROVE  PrintedOK'
<1>1. ToPrint' = ToPrint
  BY DEF ToPrint, Items
<1>2. document' = document /\ encoded' = encoded
  BY DEF printVars
<1> QED
  BY <1>1, <1>2 DEF PrintedOK

\* Nothing has happened at the start.
LEMMA InitIInv == Init => IInv
<1> SUFFICES ASSUME Init PROVE IInv
  OBVIOUS
<1>1. TypeOK
  <2>1. envelope \in Seq(Request) /\ Len(envelope) <= MaxBatchRequests
    BY CommandAssumption DEF Init
  <2>2. exit \in Exits \cup {Running}
    BY DEF Init
  <2>3. rounds \in 0 .. limit /\ effects \in 0 .. rounds
    BY DEF Init
  <2>4. ctxDone \in BOOLEAN
    BY DEF Init
  <2>5. PrintedOK
    BY DEF Init, PrintedOK
  <2> QED
    BY <2>1, <2>2, <2>3, <2>4, <2>5 DEF Init, TypeOK
<1>2. Early /\ Consented /\ Judged /\ IdsDiffer
  BY DEF Init, Early, Consented, Judged, ExitMatchesOutput, IdsDiffer
<1> QED
  BY <1>1, <1>2 DEF IInv

(***************************************************************************)
(* What happens to the text of an rpc command, before or after its arrival.  *)
(***************************************************************************)
LEMMA TakeKeepsIInv ==
  ASSUME IInv, pc \in {"run", "stdin"}, argv.command = "rpc",
         Take(argv.text) \/ Stop(2),
         UNCHANGED <<argv, ctxDone, stdin, reply, body, printVars, stdout>>
  PROVE  IInv'
<1>0. /\ TypeOK /\ Early /\ Consented /\ Judged /\ IdsDiffer
      /\ document' = NoDocument /\ encoded' = Refused /\ PrintedOK'
  BY NothingPrinted DEF IInv, Judged, printVars
<1>1. CASE \E code \in {2, 3} : Stop(code)
  <2>1. /\ pc' = "done" /\ exit' \in {2, 3}
        /\ UNCHANGED <<envelope, limit, rounds, effects, phase>>
    BY <1>1 DEF Stop, End, callVars
  <2>2. TypeOK'
    BY <1>0, <2>1 DEF TypeOK, Exits
  <2> QED
    BY <1>0, <2>1, <2>2
    DEF IInv, Early, Consented, Judged, ExitMatchesOutput, IdsDiffer
<1>2. CASE argv.dryRun /\ Goto("emit") /\ UNCHANGED <<envelope, callVars>>
  <2>1. /\ pc' = "emit" /\ exit' = exit
        /\ UNCHANGED <<envelope, limit, rounds, effects, phase>>
    BY <1>2 DEF Goto, callVars
  <2>2. TypeOK'
    BY <1>0, <2>1 DEF TypeOK
  <2> QED
    BY <1>0, <1>2, <2>1, <2>2
    DEF IInv, Early, Consented, Judged, Printable, ExitMatchesOutput, IdsDiffer
<1>3. CASE /\ ParsesAsRequest(argv.text) /\ ~argv.dryRun
           /\ HasWrite(argv.text.requests) => argv.allowWrite
           /\ StartCall(argv.text.requests)
  <2>1. /\ pc' = "call" /\ exit' = exit /\ UNCHANGED <<rounds, effects, phase>>
        /\ envelope' = argv.text.requests
        /\ limit' \in {ReadLimit, WriteLimit}
        /\ HasWrite(envelope') => limit' = WriteLimit
    BY <1>3 DEF StartCall, Goto
  <2>2. rounds = 0 /\ effects = 0 /\ phase = "idle" /\ reply = "none" /\ stdout = "empty"
    BY <1>0 DEF Early
  <2>3. argv \in Invocations
    BY <1>0 DEF TypeOK
  <2>4. /\ envelope' \in Seq(Request) /\ Len(envelope') <= MaxBatchRequests
        /\ IdsDiffer'
    BY <1>3, <2>1, <2>3, ParsedRequests DEF IdsDiffer
  <2>5. TypeOK'
    BY <1>0, <2>1, <2>2, <2>4, CommandAssumption DEF TypeOK
  <2> QED
    BY <1>0, <1>3, <2>1, <2>2, <2>4, <2>5
    DEF IInv, Early, Consented, Judged, ExitMatchesOutput, HasWrite
<1> QED
  BY <1>1, <1>2, <1>3 DEF Take, Authenticated

\* The first step of a command.
LEMMA RunKeepsIInv == IInv /\ Run => IInv'
<1> SUFFICES ASSUME IInv, Run PROVE IInv'
  OBVIOUS
<1>0. /\ TypeOK /\ Early /\ Consented /\ Judged /\ IdsDiffer
      /\ document' = NoDocument /\ encoded' = Refused /\ PrintedOK'
  BY NothingPrinted DEF IInv, Judged, Run, printVars
<1>1. /\ pc = "run" /\ UNCHANGED <<argv, ctxDone, stdin, reply, body, printVars, stdout>>
      /\ argv \in Invocations
      /\ limit = 0 /\ rounds = 0 /\ effects = 0 /\ phase = "idle"
      /\ reply = "none" /\ stdout = "empty"
  BY <1>0 DEF Run, Early, TypeOK
<1>2. ASSUME NEW code \in {2, 3}, End(code), UNCHANGED <<envelope, callVars>>
      PROVE  IInv'
  <2>1. /\ pc' = "done" /\ exit' \in {2, 3}
        /\ UNCHANGED <<envelope, limit, rounds, effects, phase>>
    BY <1>2 DEF End, callVars
  <2>2. TypeOK'
    BY <1>0, <1>1, <2>1 DEF TypeOK, Exits
  <2> QED
    BY <1>0, <1>1, <2>1, <2>2
    DEF IInv, Early, Consented, Judged, ExitMatchesOutput, IdsDiffer
<1>3. ASSUME NEW place \in {"stdin", "emit"}, Goto(place),
             UNCHANGED <<envelope, callVars>>,
             place = "emit" => argv.command \in Offline,
             place = "stdin" => argv.command = "rpc"
      PROVE  IInv'
  <2>1. /\ pc' = place /\ exit' = exit
        /\ UNCHANGED <<envelope, limit, rounds, effects, phase>>
    BY <1>3 DEF Goto, callVars
  <2>2. TypeOK'
    BY <1>0, <1>1, <1>3, <2>1 DEF TypeOK
  <2> QED
    BY <1>0, <1>1, <1>3, <2>1, <2>2
    DEF IInv, Early, Consented, Judged, Printable, ExitMatchesOutput, IdsDiffer
<1>4. ASSUME NEW requests \in {<<>>, PingRequests}, StartCall(requests),
             argv.command # "rpc"
      PROVE  IInv'
  <2>1. /\ pc' = "call" /\ exit' = exit /\ UNCHANGED <<rounds, effects, phase>>
        /\ envelope' = requests /\ limit' \in {ReadLimit, WriteLimit}
    BY <1>4 DEF StartCall, Goto
  <2>2. /\ envelope' \in Seq(Request) /\ Len(envelope') <= MaxBatchRequests
        /\ IdsDiffer'
    <3>1. CASE requests = <<>>
      BY <2>1, <3>1, CommandAssumption DEF IdsDiffer
    <3>2. CASE requests = PingRequests
      BY <2>1, <3>2, PingIsSound DEF IdsDiffer
    <3> QED
      BY <1>4, <3>1, <3>2
  <2>3. ~argv.dryRun
    BY <1>1, <1>4, CommandAssumption
  <2>4. TypeOK'
    BY <1>0, <1>1, <2>1, <2>2, CommandAssumption DEF TypeOK
  <2> QED
    BY <1>0, <1>1, <1>4, <2>1, <2>2, <2>3, <2>4
    DEF IInv, Early, Consented, Judged, ExitMatchesOutput
<1>5. CASE argv.command \in Public /\ StartCall(<<>>)
  BY <1>4, <1>5 DEF Public
<1>6. CASE argv.command = "schema" /\ (Goto("emit") \/ End(2))
           /\ UNCHANGED <<envelope, callVars>>
  BY <1>2, <1>3, <1>6 DEF Offline
<1>7. CASE argv.command = "ping" /\ (Stop(2) \/ Stop(3) \/ StartCall(PingRequests))
  BY <1>2, <1>4, <1>7 DEF Stop
<1>8. CASE argv.command = "rpc"
           /\ \/ Stop(2) \/ Take(argv.text)
              \/ Goto("stdin") /\ UNCHANGED <<envelope, callVars>>
  BY <1>1, <1>3, <1>8, TakeKeepsIInv
<1> QED
  BY <1>5, <1>6, <1>7, <1>8 DEF Run, Authenticated

\* Every step of an invocation and of the world keeps the invariant.
LEMMA StepIInv == IInv /\ [Next]_vars => IInv'
<1> SUFFICES ASSUME IInv, [Next]_vars PROVE IInv'
  OBVIOUS
<1>0. TypeOK /\ Early /\ Consented /\ Judged /\ IdsDiffer
  BY DEF IInv
<1>1. CASE Parse
  <2>1. document' = NoDocument /\ encoded' = Refused /\ PrintedOK'
    BY <1>0, <1>1, NothingPrinted DEF Parse, Judged, printVars
  <2>2. TypeOK'
    BY <1>0, <1>1, <2>1 DEF TypeOK, Parse, End, Goto, callVars, Exits
  <2> QED
    BY <1>0, <1>1, <2>1, <2>2
    DEF IInv, Early, Consented, Judged, ExitMatchesOutput, IdsDiffer, Parse, End, Goto,
        callVars, Offline
<1>2. CASE Run
  BY <1>2, RunKeepsIInv
<1>3. CASE ReadInput
  <2>1. argv.command = "rpc"
    BY <1>0, <1>3 DEF ReadInput, Consented
  <2> QED
    BY <1>3, <2>1, TakeKeepsIInv DEF ReadInput
<1>4. CASE Exchange \/ Pause \/ Execute
  <2>0. PrintedOK'
    BY <1>0, <1>4, PrintedStays DEF Exchange, Pause, Execute, TypeOK
  <2>1. /\ UNCHANGED <<argv, ctxDone, pc, stdin, envelope, limit, reply, body, document, encoded,
                      stdout, exit>>
        /\ rounds' \in 0 .. limit /\ effects' \in 0 .. rounds'
        /\ phase' \in {"idle", "exchange", "pause"} \cup Call!Final
        /\ pc = "call" \/ rounds > 0
    BY <1>0, <1>4, CommandAssumption
    DEF Exchange, Pause, Execute, Call!Exchange, Call!Pause, Call!Effect, TypeOK, printVars
  <2>2. TypeOK'
    BY <1>0, <2>0, <2>1 DEF TypeOK
  <2>3. Early'
    BY <1>0, <2>1 DEF Early
  <2> QED
    BY <1>0, <2>1, <2>2, <2>3
    DEF IInv, Consented, Judged, Printable, ExitMatchesOutput, IdsDiffer, HasWrite
<1>5. CASE CallFails
  <2>0. PrintedOK'
    BY <1>0, <1>5, PrintedStays DEF CallFails, TypeOK
  <2>1. /\ pc = "call" /\ pc' = "done" /\ exit' \in {3, 4, 6} /\ phase' = "failed"
        /\ UNCHANGED <<argv, ctxDone, stdin, envelope, limit, rounds, effects, reply, body, stdout>>
    BY <1>5 DEF CallFails, End, FailureCodes, Call!Conclude
  <2>2. TypeOK'
    BY <1>0, <2>0, <2>1 DEF TypeOK, Exits, Call!Final
  <2> QED
    BY <1>0, <2>1, <2>2
    DEF IInv, Early, Consented, Judged, ExitMatchesOutput, IdsDiffer, HasWrite
<1>6. CASE CallAnswers
  <2>0. document' = NoDocument /\ encoded' = Refused /\ PrintedOK'
    BY <1>0, <1>6, NothingPrinted DEF CallAnswers, Judged, printVars
  <2>1. /\ pc = "call" /\ phase' = "answered"
        /\ UNCHANGED <<argv, ctxDone, stdin, envelope, limit, rounds, effects, stdout>>
    BY <1>6 DEF CallAnswers, Call!Conclude
  <2>2. PICK r \in Replies :
          /\ reply' = r[1] /\ body' = r[2]
          /\ IF BeforeOutput(r[1]) = 0 THEN Goto("emit") ELSE End(BeforeOutput(r[1]))
    BY <1>6 DEF CallAnswers
  <2>3. /\ reply' \in {"good", "final", "unready", "odd"}
        /\ reply' = "final" => argv.command \in {"rpc", "ping"}
        /\ reply' = "unready" => argv.command = "health"
        /\ body' = NoBody \/ body' \in Bodies(argv.command)
    BY <2>2 DEF Replies, Verdict
  <2>4. \/ pc' = "emit" /\ exit' = exit /\ BeforeOutput(reply') = 0
        \/ pc' = "done" /\ exit' = BeforeOutput(reply') /\ exit' \in {5, 6}
    BY <2>2 DEF Goto, End, BeforeOutput
  <2>5. TypeOK'
    BY <1>0, <2>0, <2>1, <2>3, <2>4 DEF TypeOK, Exits, Call!Final
  <2>6. Judged'
    BY <1>0, <2>0, <2>1, <2>3, <2>4 DEF Judged, Printable, ExitMatchesOutput, BeforeOutput
  <2> QED
    BY <1>0, <2>1, <2>4, <2>5, <2>6 DEF IInv, Early, Consented, IdsDiffer, HasWrite
<1>7. CASE Emit
  <2>1. /\ pc = "emit" /\ pc' = "done" /\ stdout = "empty"
        /\ \/ stdout' = "document" /\ exit' = AfterOutput(reply)
           \/ stdout' \in {"empty", "partial"} /\ exit' = 2
        /\ UNCHANGED <<argv, ctxDone, stdin, envelope, limit, rounds, effects, phase, reply, body>>
    BY <1>0, <1>7 DEF Emit, End, callVars, Judged
  <2>2. PrintedOK'
    <3>1. PICK d \in ToPrint :
            /\ document' = d
            /\ encoded' # Refused =>
                 encoded' = [ok |-> TRUE, records |-> Selected(argv.output, d)]
      BY <1>7 DEF Emit
    <3>2. ToPrint' = ToPrint
      BY <2>1 DEF ToPrint, Items
    <3> QED
      BY <2>1, <3>1, <3>2 DEF PrintedOK
  <2>3. TypeOK'
    BY <1>0, <2>1, <2>2 DEF TypeOK, Exits, AfterOutput
  <2>4. Judged'
    BY <1>0, <2>1 DEF Judged, Printable, ExitMatchesOutput, AfterOutput, TypeOK
  <2> QED
    BY <1>0, <2>1, <2>3, <2>4 DEF IInv, Early, Consented, IdsDiffer, HasWrite
<1>8. CASE Feed \/ EndContext \/ UNCHANGED vars
  <2>0. PrintedOK'
    BY <1>0, <1>8, PrintedStays DEF Feed, EndContext, vars, printVars, TypeOK
  <2>1. /\ stdin' \in {"open", "full", "closed"} /\ ctxDone' \in BOOLEAN
        /\ UNCHANGED <<argv, pc, envelope, limit, rounds, effects, phase, reply, body, document, encoded,
                      stdout, exit>>
    BY <1>0, <1>8 DEF Feed, EndContext, vars, callVars, printVars, TypeOK
  <2>2. TypeOK'
    BY <1>0, <2>0, <2>1 DEF TypeOK
  <2> QED
    BY <1>0, <2>1, <2>2
    DEF IInv, Early, Consented, Judged, Printable, ExitMatchesOutput, IdsDiffer, HasWrite
<1> QED
  BY <1>1, <1>2, <1>3, <1>4, <1>5, <1>6, <1>7, <1>8 DEF Next, Process

-----------------------------------------------------------------------------
\* The inductive invariant holds in every behaviour of an invocation.
THEOREM Invariance == Spec => []IInv
BY InitIInv, StepIInv, PTL DEF Spec

\* An invocation keeps its types: no batch past its limit, no exchange past the limit.
THEOREM TypeCorrect == Spec => []TypeOK
<1>1. IInv => TypeOK
  BY DEF IInv
<1> QED
  BY <1>1, Invariance, PTL

\* Nothing of a write without consent, nor of a dry run, reaches the provider.
THEOREM WritesNeedConsent == Spec => []ConsentFirst
<1>1. IInv => ConsentFirst
  <2> SUFFICES ASSUME IInv PROVE ConsentFirst
    OBVIOUS
  <2>1. rounds \in 0 .. limit /\ effects \in 0 .. rounds /\ limit \in Nat
    BY CommandAssumption DEF IInv, TypeOK
  <2> QED
    BY <2>1, CommandAssumption DEF IInv, Consented, ConsentFirst, HasWrite
<1> QED
  BY <1>1, Invariance, PTL

\* The requests of an envelope have different ids.
THEOREM EnvelopeIdsDiffer == Spec => []IdsDiffer
<1>1. IInv => IdsDiffer
  BY DEF IInv
<1> QED
  BY <1>1, Invariance, PTL

\* The exit code and stdout of an invocation tell one story.
THEOREM ExitTellsTheOutput == Spec => []ExitMatchesOutput
<1>1. IInv => ExitMatchesOutput
  BY DEF IInv, Judged
<1> QED
  BY <1>1, Invariance, PTL

-----------------------------------------------------------------------------
(***************************************************************************)
(* What is vouched for: a body that is about to be printed, or was, is one   *)
(* that its command accepted.                                               *)
(***************************************************************************)
Vouched ==
  argv.command \in {"chains", "ping"} /\ (pc = "emit" \/ stdout = "document") =>
    body \in Bodies(argv.command) /\ Accepts(body)

\* Every accepted catalog can be sorted: its order exists, leaves no item out, and
\* is strict, for no two items have one number.
LEMMA OrderSorts ==
  ASSUME NEW b, b.items \in Seq({b.items[i] : i \in DOMAIN b.items}), AcceptsChains(b)
  PROVE  /\ Order(b.items) \in [DOMAIN b.items -> DOMAIN b.items]
         /\ \A x \in DOMAIN b.items : \E i \in DOMAIN b.items : Order(b.items)[i] = x
         /\ \A i, j \in DOMAIN b.items : i < j =>
              b.items[Order(b.items)[i]]["chain_id"].number
                < b.items[Order(b.items)[j]]["chain_id"].number
<1>1. PICK items, N : items = b.items /\ N = Len(items)
  OBVIOUS
<1>2. N \in Nat /\ DOMAIN items = 1 .. N
  BY <1>1
<1>3. ASSUME NEW i \in 1 .. N
      PROVE  /\ items[i]["chain_id"].number \in Nat
             /\ items[i]["chain_id"].number < Words
  <2>1. ParsesAsChainID(items[i]["chain_id"])
    BY <1>1, <1>2 DEF AcceptsChains, AcceptsChain
  <2> QED
    BY <2>1, CommandAssumption DEF ParsesAsChainID
<1>4. \A i, j \in 1 .. N :
        items[i]["chain_id"].number = items[j]["chain_id"].number => i = j
  BY <1>1, <1>2 DEF AcceptsChains
<1>5. PICK K : K = [i \in 1 .. N |-> items[i]["chain_id"].number]
  OBVIOUS
<1>6. /\ K \in [1 .. N -> Nat] /\ \A i \in 1 .. N : K[i] < Words
      /\ \A i, j \in 1 .. N : K[i] = K[j] => i = j
  BY <1>3, <1>4, <1>5
<1>7. PICK p \in [1 .. N -> 1 .. N] : \A i, j \in 1 .. N : i < j => K[p[i]] < K[p[j]]
  BY <1>2, <1>6, SortingExists, CommandAssumption
<1> DEFINE Sorts(q) == \A i, j \in DOMAIN items : i < j =>
             /\ q[i] # q[j]
             /\ items[q[i]]["chain_id"].number <= items[q[j]]["chain_id"].number
<1>8. Sorts(p)
  <2> SUFFICES ASSUME NEW i \in 1 .. N, NEW j \in 1 .. N, i < j
               PROVE  /\ p[i] # p[j]
                      /\ items[p[i]]["chain_id"].number <= items[p[j]]["chain_id"].number
    BY <1>2
  <2>1. K[p[i]] < K[p[j]] /\ K[p[i]] \in Nat /\ K[p[j]] \in Nat
    BY <1>6, <1>7
  <2>2. p[i] \in 1 .. N /\ p[j] \in 1 .. N
    OBVIOUS
  <2>3. /\ K[p[i]] = items[p[i]]["chain_id"].number
        /\ K[p[j]] = items[p[j]]["chain_id"].number
    BY <1>5, <2>2
  <2>4. K[p[i]] # K[p[j]] /\ K[p[i]] <= K[p[j]]
    BY <2>1
  <2> QED
    BY <2>3, <2>4
<1>9. PICK order : order = Order(items)
  OBVIOUS
<1>10. order \in [DOMAIN items -> DOMAIN items] /\ Sorts(order)
  <2>1. p \in [DOMAIN items -> DOMAIN items]
    BY <1>2
  <2>2. order = CHOOSE q \in [DOMAIN items -> DOMAIN items] : Sorts(q)
    BY <1>9 DEF Order
  <2> HIDE DEF Sorts
  <2> QED
    BY <1>8, <2>1, <2>2
<1>11. order \in [1 .. N -> 1 .. N] /\ \A i, j \in 1 .. N : i < j => order[i] # order[j]
  BY <1>2, <1>10
<1>12. \A x \in 1 .. N : \E i \in 1 .. N : order[i] = x
  BY <1>2, <1>11, PermutationCovers
<1>13. ASSUME NEW i \in 1 .. N, NEW j \in 1 .. N, i < j
       PROVE  items[order[i]]["chain_id"].number < items[order[j]]["chain_id"].number
  <2>1. order[i] \in 1 .. N /\ order[j] \in 1 .. N /\ order[i] # order[j]
    BY <1>11, <1>13
  <2>2. items[order[i]]["chain_id"].number <= items[order[j]]["chain_id"].number
    BY <1>2, <1>10, <1>13
  <2>3. items[order[i]]["chain_id"].number # items[order[j]]["chain_id"].number
    BY <1>4, <2>1
  <2> QED
    BY <1>3, <2>1, <2>2, <2>3
<1>14. /\ order \in [DOMAIN items -> DOMAIN items]
       /\ \A x \in DOMAIN items : \E i \in DOMAIN items : order[i] = x
       /\ \A i, j \in DOMAIN items : i < j =>
            items[order[i]]["chain_id"].number < items[order[j]]["chain_id"].number
  BY <1>2, <1>11, <1>12, <1>13
<1> QED
  BY <1>1, <1>9, <1>14

\* What a catalog that was accepted lists.
LEMMA CatalogIsTrue ==
  ASSUME NEW b, b.items \in Seq({b.items[i] : i \in DOMAIN b.items}), AcceptsChains(b)
  PROVE  /\ {Catalog(b)[i] : i \in DOMAIN Catalog(b)} = {b.items[i] : i \in DOMAIN b.items}
         /\ \A i \in DOMAIN Catalog(b) :
              /\ ParsesAsChainID(Catalog(b)[i]["chain_id"])
              /\ i > 1 => Catalog(b)[i - 1]["chain_id"].number
                            < Catalog(b)[i]["chain_id"].number
<1>1. PICK order : order = Order(b.items)
  OBVIOUS
<1>2. /\ order \in [DOMAIN b.items -> DOMAIN b.items]
      /\ \A x \in DOMAIN b.items : \E i \in DOMAIN b.items : order[i] = x
      /\ \A i, j \in DOMAIN b.items : i < j =>
           b.items[order[i]]["chain_id"].number < b.items[order[j]]["chain_id"].number
  BY <1>1, OrderSorts
<1>3. Catalog(b) = [i \in DOMAIN b.items |-> b.items[order[i]]]
  BY <1>1 DEF Catalog
<1>4. {Catalog(b)[i] : i \in DOMAIN Catalog(b)} = {b.items[i] : i \in DOMAIN b.items}
  <2>1. \A i \in DOMAIN b.items :
          order[i] \in DOMAIN b.items /\ Catalog(b)[i] = b.items[order[i]]
    BY <1>2, <1>3
  <2>2. \A x \in DOMAIN b.items : \E i \in DOMAIN b.items : Catalog(b)[i] = b.items[x]
    BY <1>2, <2>1
  <2>3. DOMAIN Catalog(b) = DOMAIN b.items
    BY <1>3
  <2>4. PICK f, g, D : f = Catalog(b) /\ g = b.items /\ D = DOMAIN b.items
    OBVIOUS
  <2>5. {f[i] : i \in D} = {g[i] : i \in D}
    <3>1. \A i \in D : \E x \in D : f[i] = g[x]
      BY <2>1, <2>4
    <3>2. \A x \in D : \E i \in D : f[i] = g[x]
      BY <2>2, <2>4
    <3> QED
      BY <3>1, <3>2
  <2> QED
    BY <2>3, <2>4, <2>5
<1>5. ASSUME NEW i \in DOMAIN b.items PROVE ParsesAsChainID(Catalog(b)[i]["chain_id"])
  <2>1. Catalog(b)[i] = b.items[order[i]] /\ order[i] \in DOMAIN b.items
    BY <1>2, <1>3
  <2> QED
    BY <2>1 DEF AcceptsChains, AcceptsChain
<1>6. ASSUME NEW i \in DOMAIN b.items, i > 1
      PROVE  Catalog(b)[i - 1]["chain_id"].number < Catalog(b)[i]["chain_id"].number
  <2>1. i \in Int /\ i - 1 \in DOMAIN b.items /\ i - 1 < i
    BY <1>6
  <2> QED
    BY <1>2, <1>3, <2>1
<1>7. DOMAIN Catalog(b) = DOMAIN b.items
  BY <1>3
<1> QED
  BY <1>4, <1>5, <1>6, <1>7

\* There is no answer at the start.
LEMMA InitVouched == Init => Vouched
BY DEF Init, Vouched

\* An answer reaches the output only past the judgement of its command.
LEMMA StepVouched == IInv /\ Vouched /\ [Next]_vars => Vouched'
<1> SUFFICES ASSUME IInv, Vouched, [Next]_vars, argv'.command \in {"chains", "ping"},
                    pc' = "emit" \/ stdout' = "document"
             PROVE  body' \in Bodies(argv'.command) /\ Accepts(body)'
  BY DEF Vouched
<1>0. /\ argv' = argv /\ argv \in Invocations /\ Early /\ Consented /\ Judged
      /\ argv.command \in {"chains", "ping"}
  BY DEF IInv, TypeOK, Next, Process, Parse, Run, ReadInput, Exchange, Pause, CallFails,
         CallAnswers, Emit, Feed, Execute, EndContext, vars
<1>1. ~argv.dryRun /\ argv.command \notin {"help", "schema", "rpc"}
  BY <1>0, CommandAssumption
<1>2. CASE Parse
  BY <1>0, <1>1, <1>2 DEF Parse, End, Goto, Early
<1>3. CASE Run
  <2>1. stdout' = "empty" /\ pc' # "emit"
    BY <1>0, <1>1, <1>3 DEF Run, Early, Stop, End, Authenticated, StartCall, Goto, Public
  <2> QED
    BY <2>1
<1>4. CASE ReadInput
  BY <1>0, <1>1, <1>4 DEF ReadInput, Consented
<1>5. CASE CallFails
  BY <1>0, <1>5 DEF CallFails, End, Judged
<1>6. CASE CallAnswers
  <2>1. stdout' = "empty"
    BY <1>0, <1>6 DEF CallAnswers, Judged
  <2>2. PICK r \in Replies :
          /\ reply' = r[1] /\ body' = r[2]
          /\ IF BeforeOutput(r[1]) = 0 THEN Goto("emit") ELSE End(BeforeOutput(r[1]))
    BY <1>6 DEF CallAnswers
  <2>3. BeforeOutput(r[1]) = 0
    BY <2>1, <2>2 DEF End
  <2>4. PICK b \in Bodies(argv.command) : r = <<Verdict(b), b>>
    BY <1>1, <2>3 DEF Replies, BeforeOutput
  <2>5. Accepts(b) /\ body' = b
    BY <2>2, <2>3, <2>4 DEF BeforeOutput, Verdict
  <2> QED
    BY <1>0, <2>4, <2>5 DEF Accepts
<1>7. CASE Emit
  <2>1. pc = "emit" /\ body' = body
    BY <1>7 DEF Emit
  <2> QED
    BY <1>0, <2>1 DEF Vouched, Accepts
<1>8. CASE Exchange \/ Pause \/ Feed \/ Execute \/ EndContext \/ UNCHANGED vars
  <2>1. UNCHANGED <<pc, body, stdout>>
    BY <1>8 DEF Exchange, Pause, Feed, Execute, EndContext, vars
  <2> QED
    BY <1>0, <2>1 DEF Vouched, Accepts
<1> QED
  BY <1>2, <1>3, <1>4, <1>5, <1>6, <1>7, <1>8 DEF Next, Process

\* What is printed was accepted, in every behaviour of an invocation.
THEOREM VouchedInvariance == Spec => []Vouched
BY InitIInv, StepIInv, InitVouched, StepVouched, PTL DEF Spec

\* chains lists what it was told of, each chain once and by rising number, and ping
\* names the chain its node named, for every width of a machine word.
THEOREM PrintedIsVouchedFor == Spec => []AnswersAreVouchedFor
<1>1. Vouched => AnswersAreVouchedFor
  <2> SUFFICES ASSUME Vouched, stdout = "document",
                      argv.command \in {"chains", "ping"}
               PROVE  AnswersAreVouchedFor
    BY DEF AnswersAreVouchedFor
  <2>1. body \in Bodies(argv.command) /\ Accepts(body)
    BY DEF Vouched
  <2>2. CASE argv.command = "chains"
    <3>1. AcceptsChains(body)
      BY <2>1, <2>2 DEF Accepts
    <3>2. body.items \in Seq({body.items[i] : i \in DOMAIN body.items})
      BY <2>1, <2>2, CommandAssumption
    <3> QED
      BY <2>2, <3>1, <3>2, CatalogIsTrue DEF AnswersAreVouchedFor
  <2>3. CASE argv.command = "ping"
    BY <2>1, <2>3 DEF Accepts, AcceptsPing, SingleResult, AnswersAreVouchedFor
  <2> QED
    BY <2>2, <2>3
<1> QED
  BY <1>1, VouchedInvariance, PTL

-----------------------------------------------------------------------------
(***************************************************************************)
(* What is chosen: at the output the options are valid and the envelope is   *)
(* the text's; a document, once there is one, is made of trees, and what was  *)
(* selected of it is what Output selects.                                    *)
(***************************************************************************)
Chosen ==
  /\ pc \notin {"parse", "done"} => Validate(argv.output) /\ argv.command # "help"
  /\ pc \in {"call", "emit"} /\ argv.command = "rpc" /\ ~argv.dryRun =>
       envelope = argv.text.requests /\ ParsesAsRequest(argv.text)
  /\ document # NoDocument =>
       /\ Validate(argv.output) /\ IsDocument(document)
       /\ encoded = IF Conforms(document) /\ CanEncode(argv.output, document)
                    THEN [ok |-> TRUE, records |-> Selected(argv.output, document)]
                    ELSE Refused

\* One tree, or a list of them, is a document.
LEMMA MadeOfTrees ==
  /\ \A tree : IsTree(tree) => IsDocument(Whole(tree))
  /\ \A items : AreTrees(items) => IsDocument(Rows(items))
BY ListIsTree DEF IsDocument, Whole, Rows

\* What a command prints is a document.
LEMMA ToPrintIsDocument ==
  ASSUME IInv, Vouched, Chosen, pc = "emit", NEW d \in ToPrint
  PROVE  IsDocument(d)
<1>0. /\ argv \in Invocations /\ argv \in Invocation /\ Printable
      /\ argv.text.requests \in Seq(Request) /\ argv.command # "help"
  BY CommandAssumption DEF IInv, TypeOK, Judged, Chosen, Invocation, Text
<1>1. CASE argv.dryRun
  <2>1. d = Whole(Plan(argv.text.requests, argv.text.kind = "array"))
    BY <1>1 DEF ToPrint
  <2>2. IsSequence(argv.text.requests)
    BY <1>0 DEF IsSequence
  <2>3. IsTree(Plan(argv.text.requests, argv.text.kind = "array"))
    BY <2>2, PlanIsTree
  <2> QED
    BY <2>1, <2>3, MadeOfTrees
<1>2. CASE ~argv.dryRun /\ argv.command = "schema"
  <2>1. d = Whole(Index) \/ d = Whole(Detail(argv.path))
    BY <1>2 DEF ToPrint
  <2> QED
    BY <2>1, CatalogIsTree, MadeOfTrees
<1>3. CASE ~argv.dryRun /\ argv.command \in {"health", "ping"}
  <2>1. d = Whole(Health) \/ d = Whole(Ping)
    BY <1>3 DEF ToPrint
  <2> QED
    BY <2>1, PlainDocuments, MadeOfTrees
<1>4. CASE ~argv.dryRun /\ argv.command = "chains"
  <2>1. PICK rows : rows = [i \in DOMAIN Catalog(body) |-> Chain] /\ d = Rows(rows)
    BY <1>4 DEF ToPrint
  <2>2. body \in Bodies("chains")
    BY <1>4 DEF Vouched
  <2>3. DOMAIN rows = DOMAIN body.items
    BY <2>1 DEF Catalog
  <2>4. body.items \in Seq({body.items[i] : i \in DOMAIN body.items})
    BY <2>2, CommandAssumption
  <2>5. DOMAIN body.items = 1 .. Len(body.items) /\ Len(body.items) \in Nat
    BY <2>4
  <2>6. \A i \in DOMAIN rows : IsTree(rows[i])
    BY <2>1, PlainDocuments
  <2>7. AreTrees(rows)
    BY <2>3, <2>5, <2>6 DEF AreTrees
  <2> QED
    BY <2>1, <2>7, MadeOfTrees
<1>5. CASE ~argv.dryRun /\ argv.command = "openapi"
  <2>1. PICK paths \in Answers : d = Whole(OpenAPI(paths))
    BY <1>5 DEF ToPrint
  <2>2. IsTree(OpenAPI(paths))
    BY CommandAssumption, PlainDocuments
  <2> QED
    BY <2>1, <2>2, MadeOfTrees
<1>6. CASE ~argv.dryRun /\ argv.command = "rpc"
  <2>1. PICK items \in Items :
          d = IF argv.text.kind = "array" THEN Rows(items) ELSE Whole(items[1])
    BY <1>6 DEF ToPrint
  <2>2. envelope = argv.text.requests /\ ParsesAsRequest(argv.text)
    BY <1>6 DEF Chosen
  <2>3. DOMAIN items = DOMAIN envelope
    BY DEF Items
  <2>4. DOMAIN items = 1 .. Len(argv.text.requests) /\ Len(argv.text.requests) \in Nat
    BY <1>0, <2>2, <2>3
  <2>5. \A i \in DOMAIN items : IsTree(items[i])
    <3> SUFFICES ASSUME NEW i \in DOMAIN items PROVE IsTree(items[i])
      OBVIOUS
    <3>1. items[i] = Failed \/ \E answer \in Answers : items[i] = Result(answer)
      BY DEF Items
    <3> QED
      BY <3>1, CommandAssumption, PlainDocuments
  <2>6. CASE argv.text.kind = "array"
    <3>1. AreTrees(items)
      BY <2>4, <2>5 DEF AreTrees
    <3> QED
      BY <2>1, <2>6, <3>1, MadeOfTrees
  <2>7. CASE argv.text.kind # "array"
    <3>1. Len(argv.text.requests) = 1
      BY <1>0, <2>2, <2>7, CommandAssumption DEF ParsesAsRequest
    <3>2. IsTree(items[1])
      BY <2>4, <2>5, <3>1
    <3> QED
      BY <2>1, <2>7, <3>2, MadeOfTrees
  <2> QED
    BY <2>6, <2>7
<1> QED
  BY <1>0, <1>1, <1>2, <1>3, <1>4, <1>5, <1>6 DEF Invocation, Public, Offline

\* There is no document at the start.
LEMMA InitChosen == Init => Chosen
BY DEF Init, Chosen

\* Only Emit makes a document, and from what ToPrintIsDocument speaks of.
LEMMA StepChosen == IInv /\ Vouched /\ Chosen /\ [Next]_vars => Chosen'
<1> SUFFICES ASSUME IInv, Vouched, Chosen, [Next]_vars PROVE Chosen'
  OBVIOUS
<1>0. /\ argv' = argv /\ Early /\ Consented /\ Judged
      /\ pc # "done" => document = NoDocument
  BY DEF IInv, Judged, Next, Process, Parse, Run, ReadInput, Exchange, Pause, CallFails,
         CallAnswers, Emit, Feed, Execute, EndContext, vars
<1> DEFINE Envelope == pc \in {"call", "emit"} /\ argv.command = "rpc" /\ ~argv.dryRun =>
                         envelope = argv.text.requests /\ ParsesAsRequest(argv.text)
<1>1. CASE Emit
  <2>1. PICK d \in ToPrint :
          /\ document' = d
          /\ encoded' = IF Conforms(d) /\ CanEncode(argv.output, d)
                        THEN [ok |-> TRUE, records |-> Selected(argv.output, d)]
                        ELSE Refused
    BY <1>1 DEF Emit
  <2>2. pc = "emit" /\ pc' = "done" /\ Validate(argv.output)
    BY <1>1 DEF Emit, End, Chosen
  <2>3. IsDocument(d)
    BY <2>2, ToPrintIsDocument
  <2> QED
    BY <1>0, <2>1, <2>2, <2>3 DEF Chosen
<1>2. ASSUME NEW text, text = argv.text, Take(text), argv.command = "rpc"
      PROVE  /\ pc' \in {"call", "emit", "done"}
             /\ Envelope'
  <2>1. CASE ~ParsesAsRequest(text) \/ (HasWrite(text.requests) /\ ~argv.allowWrite)
    BY <1>2, <2>1 DEF Take, Stop, End
  <2>2. CASE ParsesAsRequest(text) /\ argv.dryRun /\ Goto("emit")
    BY <1>0, <2>2 DEF Goto
  <2>3. CASE ParsesAsRequest(text) /\ Authenticated(text.requests)
    BY <1>0, <1>2, <2>3 DEF Authenticated, StartCall, Goto, Stop, End
  <2> QED
    BY <1>2, <2>1, <2>2, <2>3 DEF Take
<1>3. ASSUME document' = document, encoded' = encoded, Envelope',
             pc' \notin {"parse", "done"} => Validate(argv.output) /\ argv.command # "help"
      PROVE  Chosen'
  BY <1>0, <1>3 DEF Chosen
<1>4. CASE Parse
  <2>1. /\ document' = document /\ encoded' = encoded
        /\ pc' = "done" \/ (pc' = "run" /\ Validate(argv.output) /\ argv.command # "help")
    BY <1>4 DEF Parse, End, Goto, printVars
  <2> QED
    BY <1>3, <2>1
<1>5. CASE Run
  <2>1. /\ document' = document /\ encoded' = encoded /\ pc = "run"
        /\ Validate(argv.output) /\ argv.command # "help"
    BY <1>5 DEF Run, printVars, Chosen
  <2>2. Envelope'
    <3>1. CASE argv.command # "rpc"
      BY <1>0, <3>1
    <3>2. CASE argv.command = "rpc" /\ Take(argv.text)
      BY <1>2, <3>2
    <3>3. CASE argv.command = "rpc" /\ (Stop(2) \/ Goto("stdin"))
      BY <3>3 DEF Stop, End, Goto
    <3> QED
      BY <1>5, <3>1, <3>2, <3>3 DEF Run, Public
  <2> QED
    BY <1>3, <2>1, <2>2
<1>6. CASE ReadInput
  <2>1. /\ document' = document /\ encoded' = encoded /\ pc = "stdin"
        /\ Validate(argv.output) /\ argv.command # "help" /\ argv.command = "rpc"
    BY <1>0, <1>6 DEF ReadInput, printVars, Chosen, Consented
  <2>2. Envelope'
    <3>1. CASE Take(argv.text)
      BY <1>2, <2>1, <3>1
    <3>2. CASE Stop(2)
      BY <3>2 DEF Stop, End
    <3> QED
      BY <1>6, <3>1, <3>2 DEF ReadInput
  <2> QED
    BY <1>3, <2>1, <2>2
<1>7. CASE CallAnswers
  <2>1. /\ document' = document /\ encoded' = encoded /\ pc = "call"
        /\ envelope' = envelope /\ Validate(argv.output) /\ argv.command # "help"
    BY <1>7 DEF CallAnswers, printVars, Chosen
  <2>2. Envelope'
    BY <1>0, <2>1 DEF Chosen
  <2> QED
    BY <1>3, <2>1, <2>2
<1>8. CASE CallFails
  <2>1. document' = document /\ encoded' = encoded /\ pc' = "done"
    BY <1>8 DEF CallFails, End, printVars
  <2> QED
    BY <1>3, <2>1
<1>9. CASE Exchange \/ Pause \/ Feed \/ Execute \/ EndContext \/ UNCHANGED vars
  <2>1. UNCHANGED <<pc, envelope, document, encoded>>
    BY <1>9 DEF Exchange, Pause, Feed, Execute, EndContext, vars, printVars
  <2> QED
    BY <1>0, <2>1 DEF Chosen
<1> QED
  BY <1>1, <1>4, <1>5, <1>6, <1>7, <1>8, <1>9 DEF Next, Process

\* What was chosen is what Output chooses, in every behaviour of an invocation.
THEOREM ChosenInvariance == Spec => []Chosen
BY InitIInv, StepIInv, InitVouched, StepVouched, InitChosen, StepChosen, PTL DEF Spec

\* The pointers of a command line are pointers, and there is at least one.
LEMMA WantedArePointers ==
  ASSUME NEW config \in Config
  PROVE  Wanted(config) \in Seq(Pointer)
<1>1. config.pointers \in Seq(Pointer)
  BY DEF Config
<1>2. [rooted |-> TRUE, tokens |-> <<>>] \in Pointer
  BY DEF Pointer
<1> QED
  BY <1>1, <1>2 DEF Wanted

\* What a pointer selects is what it leads to.
LEMMA SelectedAreResolved ==
  ASSUME NEW config, NEW d, CanEncode(config, d)
  PROVE  /\ DOMAIN Selected(config, d) = DOMAIN Records(config, d)
         /\ \A i \in DOMAIN Records(config, d), j \in DOMAIN Wanted(config) :
              Selected(config, d)[i][j]
                \in Resolve(Records(config, d)[i], Wanted(config)[j])
<1>1. PICK records, wanted :
        records = Records(config, d) /\ wanted = Wanted(config)
  OBVIOUS
<1>2. Selected(config, d) =
        [i \in DOMAIN records |->
           [j \in DOMAIN wanted |-> CHOOSE p \in Resolve(records[i], wanted[j]) : TRUE]]
  BY <1>1 DEF Selected, ApplyPointers
<1>3. ASSUME NEW i \in DOMAIN records, NEW j \in DOMAIN wanted
      PROVE  Selected(config, d)[i][j] \in Resolve(records[i], wanted[j])
  <2>1. Resolve(records[i], wanted[j]) # {}
    BY <1>1 DEF CanEncode, CanSelect
  <2>2. PICK R : R = Resolve(records[i], wanted[j])
    OBVIOUS
  <2>3. (CHOOSE p \in R : TRUE) \in R
    BY <2>1, <2>2
  <2> QED
    BY <1>2, <2>2, <2>3
<1> QED
  BY <1>1, <1>2, <1>3

\* A document that was printed holds the nodes its pointers spell, a sign apart, and
\* one that was refused has a reason, for all trees, pointers, and lengths of lists.
THEOREM SelectionSpellsNames == Spec => []SelectionIsByName
<1>1. IInv /\ Chosen => SelectionIsByName
  <2> SUFFICES ASSUME IInv, Chosen, document # NoDocument PROVE SelectionIsByName
    BY DEF SelectionIsByName
  <2>1. PICK config, records, pointers :
          /\ config = argv.output /\ records = Records(config, document)
          /\ pointers = Wanted(config)
    OBVIOUS
  <2>2. config \in Config /\ Validate(config) /\ IsDocument(document)
    BY <2>1, CommandAssumption DEF IInv, TypeOK, Chosen, Invocation
  <2>3. \A i \in DOMAIN records : IsTree(records[i])
    BY <2>1, <2>2, RecordsAreTrees
  <2>4. \A j \in DOMAIN pointers : pointers[j] \in Pointer
    <3>1. pointers \in Seq(Pointer)
      BY <2>1, <2>2, WantedArePointers
    <3> QED
      BY <3>1
  <2>5. CASE Conforms(document) /\ CanEncode(config, document)
    <3>1. encoded.ok /\ encoded.records = Selected(config, document)
      BY <2>1, <2>5 DEF Chosen
    <3>2. /\ DOMAIN encoded.records = DOMAIN records
          /\ \A i \in DOMAIN records, j \in DOMAIN pointers :
               encoded.records[i][j] \in Resolve(records[i], pointers[j])
      BY <2>1, <2>5, <3>1, SelectedAreResolved
    <3>3. \A i \in DOMAIN records, j \in DOMAIN pointers :
            /\ encoded.records[i][j] \in DOMAIN records[i]
            /\ Open(records[i], encoded.records[i][j])
            /\ SpeltUpToSign(records[i], encoded.records[i][j], pointers[j])
      BY <2>3, <2>4, <3>2, PointersAreNames
    <3> QED
      BY <2>1, <3>1, <3>2, <3>3 DEF SelectionIsByName
  <2>6. CASE ~Conforms(document)
    <3>1. ~encoded.ok
      BY <2>6 DEF Chosen, Refused
    <3>2. \E p \in DOMAIN document.tree : document.tree[p] = "huge"
      BY <2>6 DEF Conforms
    <3> QED
      BY <3>1, <3>2 DEF SelectionIsByName
  <2>7. CASE Conforms(document) /\ ~CanEncode(config, document)
    <3>1. ~encoded.ok
      BY <2>1, <2>7 DEF Chosen, Refused
    <3>2. CASE ~(EncodedLen(config, document) <= config.maxBytes)
      BY <2>1, <3>1, <3>2 DEF SelectionIsByName
    <3>3. CASE EncodedLen(config, document) <= config.maxBytes
      <4>1. PICK i \in DOMAIN records, j \in DOMAIN pointers :
              Resolve(records[i], pointers[j]) = {}
        BY <2>1, <2>2, <2>7, <3>3 DEF CanEncode, CanSelect
      <4>2. ~\E p \in DOMAIN records[i] :
               Rfc6901(p) = pointers[j] /\ Open(records[i], p)
        BY <2>3, <2>4, <4>1, PointersAreNames
      <4> QED
        BY <2>1, <3>1, <4>1, <4>2 DEF SelectionIsByName
    <3> QED
      BY <3>2, <3>3
  <2> QED
    BY <2>5, <2>6, <2>7
<1> QED
  BY <1>1, Invariance, ChosenInvariance, PTL

=============================================================================
