-------------------------- MODULE RpcClientProofs --------------------------
(***************************************************************************)
(* Theorems about RpcClient for every set of envelopes, statuses, headers   *)
(* and bodies and every width of time.Duration.                              *)
(***************************************************************************)
EXTENDS RpcClient, SequenceTheorems, TLAPS

(***************************************************************************)
(* The strengthening.  LoopBound ties the loop's counter to its bound: a    *)
(* sleep is only begun with an attempt left.  Wire ties the requests on the *)
(* wire to the counter; it is what a bound on attempts says of the provider. *)
(* Cap is what the loop remembers of a reply that reported exhaustion.       *)
(***************************************************************************)
LoopBound ==
  /\ pc = "start" => attempt = 0 /\ maxAttempts = 0
  /\ pc \in {"send", "await", "body", "sleep"} =>
       /\ attempt \in 1 .. maxAttempts
       /\ maxAttempts \in 1 .. Limit
  /\ pc = "sleep" => attempt < maxAttempts
  /\ attempt <= Limit

Wire ==
  /\ pc = "start" => sent = 0
  /\ pc = "send" => sent = attempt - 1
  /\ pc \in {"await", "body", "sleep"} => sent = attempt
  /\ sent <= attempt
  /\ executed <= sent

Cap ==
  /\ exhausted \in 0 .. attempt
  /\ exhausted # 0 =>
       /\ attempt <= Larger(2, exhausted)
       /\ pc \in {"send", "await", "body", "sleep"} => maxAttempts <= 2

IInv == TypeOK /\ LoopBound /\ Wire /\ Cap

-----------------------------------------------------------------------------
\* Every delay the policy can return is a number of ticks, so the retry sleep
\* always has a duration (RetryPolicy).
LEMMA DelaysAreIntegers ==
  ASSUME NEW h \in RetryAfterHeader, NEW n, NEW codes
  PROVE  HttpDelays(h, n) \subseteq Int /\ RetryDelays(codes, h, n) \subseteq Int
<1>1. MaxDuration \in Int
  BY DurationAssumption DEF MaxDuration
<1>2. ASSUME NEW x \in Int PROVE Signed(x) \in Int
  BY <1>1, <1>2, DurationAssumption DEF Signed
<1>3. ParsedDelay(h) \in Int
  BY <1>2, DurationAssumption DEF ParsedDelay, RetryAfterHeader
<1>4. BaseDelay(codes, h) \in Int
  BY <1>3, DurationAssumption DEF BaseDelay, Larger
<1>5. ASSUME NEW base PROVE Backoff(base, n) \subseteq Int
  BY DEF Backoff
<1> QED
  BY <1>3, <1>4, <1>5 DEF HttpDelays, RetryDelays

\* rpcAttempt returns one of the error codes DoRPC can return, or a transient
\* HTTP status, or evidence.
LEMMA JudgementKinds ==
  ASSUME NEW body PROVE Judgement(body) \in Errors \cup {"transient"}
BY DEF Judgement, InvalidRPCResponse, Errors

\* Only a reply without valid JSON-RPC is a transient HTTP status; so a reply
\* that reports exhaustion is either returned as an error or judged evidence.
LEMMA TransientIsNotEvidence ==
  ASSUME NEW body, Judgement(body) = "transient" PROVE ~ReportsExhaustion(body)
BY DEF Judgement, InvalidRPCResponse, ReportsExhaustion

\* A valid reply that reports exhaustion and is retried at all (every item
\* failed) carries that code to the loop's bound.
LEMMA ExhaustionReachesTheBound ==
  ASSUME NEW body, ReportsExhaustion(body), ~HasWrite, maxAttempts \in Int,
         RetryDelays(RetryCodes(body), retryAfter, attempt) # {}
  PROVE  NextBound(RetryCodes(body)) <= 2
<1>1. RetryCodes(body) # {}
  BY DEF RetryDelays, Retryable
<1>2. RetryCodes(body) = {item.code : item \in InRange(body.items)}
  BY <1>1 DEF RetryCodes
<1>3. ProviderExhausted \in RetryCodes(body)
  BY <1>2 DEF ReportsExhaustion
<1> QED
  BY <1>3 DEF NextBound

-----------------------------------------------------------------------------
\* The initial states satisfy the inductive invariant.
LEMMA InitIInv == Init => IInv
<1> SUFFICES ASSUME Init PROVE IInv
  OBVIOUS
<1> USE DEF Init
<1>1. TypeOK
  <2>1. <<>> \in Seq(1 .. ReadRPCMaxAttempts)
    OBVIOUS
  <2>2. Pending \in [error : Errors, attempts : 0 .. ReadRPCMaxAttempts]
    BY DEF Pending, Errors, ReadRPCMaxAttempts
  <2>3. ctxDone \in BOOLEAN
    OBVIOUS
  <2>4. /\ events \in Seq(1 .. ReadRPCMaxAttempts)
        /\ outcome \in [error : Errors, attempts : 0 .. ReadRPCMaxAttempts]
    BY <2>1, <2>2
  <2> QED
    BY <2>3, <2>4 DEF TypeOK, ReadRPCMaxAttempts
<1>2. LoopBound /\ Wire /\ Cap
  BY DEF LoopBound, Wire, Cap, Limit, ReadRPCMaxAttempts, WriteRPCMaxAttempts
<1> QED
  BY <1>1, <1>2 DEF IInv
-----------------------------------------------------------------------------
(* One step: each action keeps the four parts.                             *)

\* Every step of the specification keeps the inductive invariant.
LEMMA StepIInv == IInv /\ [Next]_vars => IInv'
<1> SUFFICES ASSUME IInv, [Next]_vars PROVE IInv'
  OBVIOUS
<1> USE DEF IInv, ReadRPCMaxAttempts, WriteRPCMaxAttempts, LastAttempt
<1>0. HasWrite' = HasWrite /\ Limit' = Limit
  <2>1. call' = call
    BY DEF Next, Client, vars, Refuse, Begin, Send, DoFails, Breaks, Headers, ReadBody,
           Tick, Wake, SleepCancelled, Execute, EndContext
  <2> QED
    BY <2>1 DEF HasWrite, Limit
<1>1. CASE Refuse
  <2>1. TypeOK'
    BY <1>1 DEF TypeOK, Refuse, Return, Returned, Errors, response, traffic
  <2>2. LoopBound' /\ Wire' /\ Cap'
    BY <1>0, <1>1 DEF TypeOK, LoopBound, Wire, Cap, Refuse, Return, response, traffic
  <2> QED
    BY <2>1, <2>2
<1>2. CASE Begin
  <2>1. TypeOK'
    BY <1>2 DEF TypeOK, Begin, Limit, response, traffic
  <2>2. LoopBound' /\ Wire' /\ Cap'
    BY <1>0, <1>2 DEF TypeOK, LoopBound, Wire, Cap, Limit, Larger, Begin, response, traffic
  <2> QED
    BY <2>1, <2>2
<1>3. CASE Send
  <2>1. TypeOK'
    BY <1>3 DEF TypeOK, Send, response
  <2>2. LoopBound' /\ Wire' /\ Cap'
    BY <1>0, <1>3 DEF TypeOK, LoopBound, Wire, Cap, Send, response
  <2> QED
    BY <2>1, <2>2
<1>4. CASE DoFails
  <2>1. TypeOK'
    BY <1>4 DEF TypeOK, DoFails, Breaks, Return, Returned, Errors, response, traffic
  <2>2. LoopBound' /\ Wire' /\ Cap'
    BY <1>0, <1>4 DEF TypeOK, LoopBound, Wire, Cap, DoFails, Breaks, Return, response, traffic
  <2> QED
    BY <2>1, <2>2
<1>5. CASE Headers
  <2>1. attempt \in 1 .. 3
    BY <1>5 DEF Headers, LoopBound, Limit, TypeOK
  <2>2. PICK s \in Statuses, h \in RetryAfters, n \in BatchIdCounts :
          /\ status' = s /\ retryAfter' = h
          /\ events' = events \o [i \in 1 .. Diagnostics(n) |-> attempt]
    BY <1>5 DEF Headers
  <2>3. Diagnostics(n) \in Nat
    BY RpcAssumption DEF Diagnostics, Larger
  <2>4. [i \in 1 .. Diagnostics(n) |-> attempt] \in Seq(1 .. 3)
    BY <2>1, <2>3
  <2>5. events' \in Seq(1 .. 3)
    BY <2>2, <2>4, ConcatProperties DEF TypeOK
  <2>6. TypeOK'
    BY <1>5, <2>2, <2>5 DEF TypeOK, Headers
  <2>7. LoopBound' /\ Wire' /\ Cap'
    BY <1>0, <1>5 DEF TypeOK, LoopBound, Wire, Cap, Headers
  <2> QED
    BY <2>6, <2>7
<1>6. CASE ReadBody
  <2>1. PICK body \in Bodies :
          /\ reply' = body
          /\ exhausted' = IF exhausted = 0 /\ ReportsExhaustion(body)
                            THEN attempt ELSE exhausted
          /\ RejectBody(body) \/ RetryStatus(body) \/ AcceptBody(body)
    BY <1>6 DEF ReadBody
  <2>2. /\ pc = "body"
        /\ UNCHANGED <<call, ctxDone, attempt, status, retryAfter, events, sent, executed>>
    BY <1>6 DEF ReadBody
  <2>3. attempt \in 1 .. maxAttempts /\ maxAttempts \in 1 .. Limit /\ Limit \in 1 .. 3
    BY <2>2 DEF LoopBound, Limit
  <2>4. exhausted' \in 0 .. 3
    BY <2>1, <2>3 DEF Cap
  <2>5. retryAfter \in RetryAfterHeader
    BY RpcAssumption DEF TypeOK, RetryAfterHeader, NoRetryAfter
  <2>6. CASE RejectBody(body)
    <3>1. Judgement(body) \in Errors
      BY <2>6, JudgementKinds DEF RejectBody
    <3>2. TypeOK'
      BY <2>1, <2>2, <2>3, <2>4, <2>6, <3>1 DEF TypeOK, RejectBody, Return, Returned
    <3>3. LoopBound' /\ Wire' /\ Cap'
      BY <1>0, <2>1, <2>2, <2>3, <2>4, <2>6
      DEF LoopBound, Wire, Cap, Larger, RejectBody, Return
    <3> QED
      BY <3>2, <3>3
  <2>7. CASE RetryStatus(body)
    <3>1. exhausted' = exhausted
      BY <2>1, <2>7, TransientIsNotEvidence DEF RetryStatus
    <3>2. wait' \in Int
      BY <2>5, <2>7, DelaysAreIntegers DEF RetryStatus, Sleep, TypeOK
    <3>3. TypeOK'
      BY <2>1, <2>2, <2>3, <2>4, <2>7, <3>2
      DEF TypeOK, RetryStatus, Sleep, Return, Returned, Errors
    <3>4. LoopBound' /\ Wire' /\ Cap'
      BY <1>0, <2>1, <2>2, <2>3, <2>7, <3>1
      DEF LoopBound, Wire, Cap, RetryStatus, Sleep, Return
    <3> QED
      BY <3>3, <3>4
  <2>8. CASE AcceptBody(body)
    <3> DEFINE codes  == IF HasError(body) THEN RetryCodes(body) ELSE {}
               delays == RetryDelays(RetryCodes(body), retryAfter, attempt)
    <3>1. /\ maxAttempts' = NextBound(codes)
          /\ \/ Return("none", attempt) /\ UNCHANGED wait
             \/ /\ ~(attempt >= maxAttempts')
                /\ HasError(body) /\ delays # {}
                /\ Sleep(delays)
      BY <2>8, Zenon DEF AcceptBody
    <3>2. maxAttempts' \in 1 .. maxAttempts
      BY <2>3, <3>1 DEF NextBound
    <3>3. wait' \in Int
      BY <2>5, <3>1, DelaysAreIntegers DEF Sleep, TypeOK
    <3>4. TypeOK'
      <4>1. pc' \in {"sleep", "done"} /\ outcome' \in [error : Errors, attempts : 0 .. 3]
        BY <2>3, <3>1 DEF Sleep, Return, Returned, Errors, TypeOK
      <4> QED
        BY <2>1, <2>2, <2>3, <2>4, <3>2, <3>3, <4>1 DEF TypeOK
    <3>5. LoopBound' /\ Wire'
      BY <1>0, <2>2, <2>3, <3>1, <3>2 DEF LoopBound, Wire, Sleep, Return
    <3>6. CASE pc' = "done"
      BY <2>1, <2>2, <2>3, <2>4, <3>4, <3>5, <3>6 DEF Cap, Larger, LoopBound
    <3>7. CASE pc' = "sleep"
      <4>1. HasError(body) /\ delays # {} /\ attempt < maxAttempts'
        BY <2>3, <3>1, <3>2, <3>7 DEF Return
      <4>2. ASSUME ReportsExhaustion(body) PROVE maxAttempts' <= 2
        <5>1. CASE HasWrite
          BY <2>3, <3>2, <5>1 DEF Limit
        <5>2. CASE ~HasWrite
          BY <2>3, <3>1, <4>1, <4>2, <5>2, ExhaustionReachesTheBound
        <5> QED
          BY <5>1, <5>2
      <4> QED
        BY <2>1, <2>2, <2>3, <2>4, <3>2, <3>4, <3>5, <3>7, <4>1, <4>2 DEF Cap, Larger
    <3> QED
      BY <3>1, <3>4, <3>5, <3>6, <3>7 DEF Sleep, Return
  <2> QED
    BY <2>1, <2>6, <2>7, <2>8
<1>7. CASE Tick
  <2>1. TypeOK'
    BY <1>7 DEF TypeOK, Tick, response, traffic
  <2>2. LoopBound' /\ Wire' /\ Cap'
    BY <1>0, <1>7 DEF LoopBound, Wire, Cap, Tick, response, traffic
  <2> QED
    BY <2>1, <2>2
<1>8. CASE Wake
  <2>1. attempt \in 1 .. 2 /\ maxAttempts \in 1 .. 3 /\ attempt < maxAttempts
    BY <1>8 DEF Wake, LoopBound, Limit
  <2>2. TypeOK'
    BY <1>8, <2>1 DEF TypeOK, Wake, response, traffic
  <2>3. LoopBound' /\ Wire' /\ Cap'
    BY <1>0, <1>8, <2>1 DEF LoopBound, Wire, Cap, Limit, Larger, Wake, response, traffic
  <2> QED
    BY <2>2, <2>3
<1>9. CASE SleepCancelled
  <2>1. TypeOK'
    BY <1>9 DEF TypeOK, SleepCancelled, Return, Returned, Errors, response, traffic
  <2>2. LoopBound' /\ Wire' /\ Cap'
    BY <1>0, <1>9 DEF TypeOK, LoopBound, Wire, Cap, SleepCancelled, Return, response, traffic
  <2> QED
    BY <2>1, <2>2
<1>10. CASE Execute
  BY <1>0, <1>10 DEF TypeOK, LoopBound, Wire, Cap, Execute, response, traffic
<1>11. CASE EndContext
  BY <1>0, <1>11 DEF TypeOK, LoopBound, Wire, Cap, EndContext, response, traffic
<1>12. CASE UNCHANGED vars
  BY <1>0, <1>12 DEF TypeOK, LoopBound, Wire, Cap, vars
<1> QED
  BY <1>1, <1>2, <1>3, <1>4, <1>5, <1>6, <1>7, <1>8, <1>9, <1>10, <1>11, <1>12
  DEF Next, Client

-----------------------------------------------------------------------------
\* The inductive invariant holds in every behaviour of DoRPC.
THEOREM Invariance == Spec => []IInv
BY InitIInv, StepIInv, PTL DEF Spec

\* The state of a call is well typed in every behaviour.
THEOREM TypeCorrect == Spec => []TypeOK
<1>1. IInv => TypeOK
  BY DEF IInv
<1> QED
  BY <1>1, Invariance, PTL

\* A call with a write in its envelope is executed at most once, for every
\* envelope, every answer of the provider and every delay.
THEOREM WriteIsExecutedAtMostOnce == Spec => []WriteAtMostOnce
<1>1. IInv => WriteAtMostOnce
  BY DEF IInv, TypeOK, LoopBound, Wire, Limit, WriteAtMostOnce, WriteRPCMaxAttempts
<1> QED
  BY <1>1, Invariance, PTL

\* A report of exhaustion caps the attempts for every set of bodies.
THEOREM ExhaustionCapsTheAttempts == Spec => []ExhaustedCap
<1>1. IInv => ExhaustedCap
  BY DEF IInv, TypeOK, Wire, Cap, ExhaustedCap
<1> QED
  BY <1>1, Invariance, PTL

-----------------------------------------------------------------------------
(* What a call tells its caller: the evidence, the errors it may fail with    *)
(* at each place, and the diagnostics.                                      *)

\* rpcAttempt fails for the provider, never for the arguments of the call.
LEMMA ProviderErrors ==
  ASSUME NEW body
  PROVE  Judgement(body) \in {"transport_error", "response_too_large", "invalid_rpc_response",
           "credential_rejected", "transient", "http_error", "contradictory_response", "none"}
BY DEF Judgement, InvalidRPCResponse

\* Evidence is a valid response under a status it can be believed with.
LEMMA EvidenceIsValid ==
  ASSUME NEW body, Judgement(body) = "none"
  PROVE  ValidResponse(body) /\ (Success(status) \/ HasError(body))
BY DEF Judgement, InvalidRPCResponse

Answered == /\ Judgement(reply) = "none"
            /\ outcome.attempts = attempt

Told ==
  /\ outcome.error = "none" => pc = "done" /\ Answered
  /\ pc = "done" /\ sent = 0 => outcome.error \in {"invalid_chain_id", "credential_missing",
                                                   "transport_error"}
  /\ pc = "done" /\ sent > 0 => outcome.error \notin {"invalid_chain_id", "credential_missing"}
  /\ pc \in {"start", "send", "await"} => status = 0
  /\ pc \in {"body", "sleep"} => status # 0
  /\ pc = "sleep" /\ Judgement(reply) = "none" => Retryable(RetryCodes(reply))
  /\ DiagnosticsComplete

\* No call begins with an answer or a diagnostic.
LEMMA InitTold == Init => Told
BY DEF Init, Told, Pending, DiagnosticsComplete, InRange

\* Appending the attempt of a response to the diagnostics of the attempts
\* before it keeps them complete (rpcAttempt's loop over the batch ids).
LEMMA DiagnosticsGrow ==
  ASSUME NEW s \in Seq(Nat), NEW a \in Nat \ {0}, NEW r \in Seq(Nat),
         InRange(s) = 1 .. (a - 1),
         \A i, j \in DOMAIN s : i < j => s[i] <= s[j],
         Len(r) # 0, \A i \in 1 .. Len(r) : r[i] = a,
         NEW t, t = s \o r
  PROVE  /\ InRange(t) = 1 .. a
         /\ \A i, j \in DOMAIN t : i < j => t[i] <= t[j]
<1> DEFINE n == Len(r)
<1>1. n \in Nat \ {0}
  OBVIOUS
<1>2. /\ Len(t) = Len(s) + n
      /\ DOMAIN t = 1 .. (Len(s) + n)
      /\ \A i \in 1 .. Len(s) : t[i] = s[i]
      /\ \A i \in (Len(s) + 1) .. (Len(s) + n) : t[i] = a
  BY <1>1
<1> HIDE DEF n
<1>3. DOMAIN s = 1 .. Len(s) /\ Len(s) \in Nat
  OBVIOUS
<1>4. \A i \in 1 .. Len(s) : s[i] \in 1 .. (a - 1)
  BY <1>3 DEF InRange
<1>5. ASSUME NEW i \in DOMAIN t PROVE t[i] \in 1 .. a
  <2>1. i \in 1 .. Len(s) \/ i \in (Len(s) + 1) .. (Len(s) + n)
    BY <1>2, <1>3
  <2>2. CASE i \in 1 .. Len(s)
    <3>1. t[i] = s[i]
      BY <1>2, <2>2
    <3> QED
      BY <1>4, <2>2, <3>1
  <2>3. CASE i \in (Len(s) + 1) .. (Len(s) + n)
    BY <1>2, <2>3
  <2> QED
    BY <2>1, <2>2, <2>3
<1>6. ASSUME NEW i \in DOMAIN t, NEW j \in DOMAIN t, i < j PROVE t[i] <= t[j]
  <2>1. CASE j <= Len(s)
    <3>1. i \in DOMAIN s /\ j \in DOMAIN s /\ t[i] = s[i] /\ t[j] = s[j]
      BY <1>2, <1>3, <1>6, <2>1
    <3> QED
      BY <1>6, <3>1
  <2>2. CASE j > Len(s)
    <3>1. t[j] = a
      BY <1>2, <1>3, <2>2
    <3> QED
      BY <1>5, <3>1
  <2> QED
    BY <1>2, <1>3, <2>1, <2>2
<1>7. ASSUME NEW k \in 1 .. a PROVE \E i \in DOMAIN t : t[i] = k
  <2>1. CASE k = a
    <3>1. Len(s) + 1 \in (Len(s) + 1) .. (Len(s) + n)
      BY <1>1, <1>3
    <3>2. Len(s) + 1 \in DOMAIN t /\ t[Len(s) + 1] = a
      BY <1>2, <1>3, <3>1
    <3> QED
      BY <2>1, <3>2
  <2>2. CASE k # a
    <3>1. k \in InRange(s)
      BY <2>2
    <3>2. PICK i \in DOMAIN s : s[i] = k
      BY <3>1 DEF InRange
    <3> QED
      BY <1>2, <1>3, <3>2
  <2> QED
    BY <2>1, <2>2
<1>8. InRange(t) = 1 .. a
  <2>1. InRange(t) \subseteq 1 .. a
    BY <1>5, Zenon DEF InRange
  <2>2. 1 .. a \subseteq InRange(t)
    BY <1>7, Zenon DEF InRange
  <2> QED
    BY <2>1, <2>2, Zenon
<1> QED
  BY <1>6, <1>8

\* Every step keeps what the caller is told true.
LEMMA StepTold == IInv /\ Told /\ [Next]_vars => Told'
<1> SUFFICES ASSUME IInv, Told, [Next]_vars PROVE Told'
  OBVIOUS
<1> USE DEF IInv
<1>0. call' = call /\ HasWrite' = HasWrite
  BY DEF Next, Client, vars, Refuse, Begin, Send, DoFails, Breaks, Headers, ReadBody,
         Tick, Wake, SleepCancelled, Execute, EndContext, HasWrite
<1>a. ASSUME status' = status, reply' = reply
      PROVE  Judgement(reply)' = Judgement(reply) /\ RetryCodes(reply)' = RetryCodes(reply)
  BY <1>0, <1>a DEF Judgement, InvalidRPCResponse, ValidResponse, Shape, HasError, IsError,
                    Success, IsRetryableStatus, RetryCodes, InRange
<1>b. attempt \in 0 .. 3 /\ sent \in Nat /\ events \in Seq(1 .. 3)
  BY DEF TypeOK, ReadRPCMaxAttempts
<1>1. CASE Refuse
  <2>1. sent = 0 /\ attempt = 0 /\ status = 0
    BY <1>1 DEF Refuse, LoopBound, Wire, Told
  <2> QED
    BY <1>1, <2>1 DEF Told, DiagnosticsComplete, Refuse, Return, Returned, response, traffic
<1>2. CASE Begin
  <2>1. attempt = 0 /\ status = 0 /\ outcome.error # "none"
    BY <1>2 DEF Begin, LoopBound, Told
  <2> QED
    BY <1>2, <2>1 DEF Told, DiagnosticsComplete, Begin, response, traffic
<1>3. CASE Send
  BY <1>3 DEF Told, DiagnosticsComplete, Send, response
<1>4. CASE DoFails
  <2>1. status = 0
    BY <1>4 DEF DoFails, Breaks, Told
  <2> QED
    BY <1>4, <2>1 DEF Told, DiagnosticsComplete, DoFails, Breaks, Return, Returned, response, traffic
<1>5. CASE Headers
  <2>1. PICK s \in Statuses, n \in BatchIdCounts :
          status' = s /\ events' = events \o [i \in 1 .. Diagnostics(n) |-> attempt]
    BY <1>5 DEF Headers
  <2>2. s # 0 /\ Diagnostics(n) \in Nat \ {0}
    BY RpcAssumption DEF Diagnostics, Larger
  <2>3. pc = "await" /\ status = 0 /\ attempt \in Nat \ {0}
    BY <1>5, <1>b DEF Headers, Told, LoopBound
  <2>4. InRange(events) = 1 .. (attempt - 1) /\ events \in Seq(Nat)
    BY <1>b, <2>3 DEF Told, DiagnosticsComplete
  <2>5. \A i, j \in DOMAIN events : i < j => events[i] <= events[j]
    BY DEF Told, DiagnosticsComplete
  <2>6. /\ InRange(events') = 1 .. attempt
        /\ \A i, j \in DOMAIN events' : i < j => events'[i] <= events'[j]
    <3> HIDE DEF IInv
    <3> DEFINE r == [i \in 1 .. Diagnostics(n) |-> attempt]
    <3>1. r \in Seq(Nat) /\ Len(r) # 0 /\ \A i \in 1 .. Len(r) : r[i] = attempt
      BY <2>2, <2>3
    <3>2. events' = events \o r
      BY <2>1
    <3> HIDE DEF r
    <3> QED
      BY <2>3, <2>4, <2>5, <3>1, <3>2, DiagnosticsGrow
  <2>7. DiagnosticsComplete'
    <3>1. status' # 0 /\ attempt' = attempt
      BY <1>5, <2>1, <2>2 DEF Headers
    <3>2. InRange(events)' = InRange(events')
      BY DEF InRange
    <3> QED
      BY <2>6, <3>1, <3>2 DEF DiagnosticsComplete
  <2> QED
    BY <1>5, <2>1, <2>2, <2>7 DEF Told, Headers
<1>6. CASE ReadBody
  <2>1. PICK body \in Bodies :
          reply' = body /\ (RejectBody(body) \/ RetryStatus(body) \/ AcceptBody(body))
    BY <1>6 DEF ReadBody
  <2>2. /\ pc = "body" /\ status # 0
        /\ UNCHANGED <<attempt, status, events, sent>>
    BY <1>6 DEF ReadBody, Told
  <2>3. sent > 0 /\ outcome.error # "none"
    BY <1>b, <2>2 DEF Wire, LoopBound, Told
  <2>4. DiagnosticsComplete'
    BY <2>2 DEF Told, DiagnosticsComplete, InRange
  <2>5. Judgement(reply)' = Judgement(body) /\ RetryCodes(reply)' = RetryCodes(body)
    BY <1>0, <2>1, <2>2 DEF Judgement, InvalidRPCResponse, ValidResponse, Shape, HasError,
         IsError, Success, IsRetryableStatus, RetryCodes, InRange
  <2>6. CASE RejectBody(body)
    <3>1. /\ Judgement(body) \notin {"none", "transient"}
          /\ pc' = "done" /\ outcome' = Returned(Judgement(body), attempt)
      BY <2>6 DEF RejectBody, Return
    <3>2. outcome'.error \notin {"none", "invalid_chain_id", "credential_missing"}
      BY <3>1, ProviderErrors DEF Returned
    <3> QED
      BY <2>2, <2>3, <2>4, <3>1, <3>2 DEF Told
  <2>7. CASE RetryStatus(body)
    <3>1. Judgement(body) = "transient" /\ pc' \in {"sleep", "done"}
      BY <2>7 DEF RetryStatus, Return, Sleep
    <3>2. outcome'.error # "none"
      BY <2>3, <2>7 DEF RetryStatus, Return, Returned, Sleep
    <3>3. pc' = "done" => outcome'.error = "http_error"
      BY <2>7 DEF RetryStatus, Return, Returned, Sleep
    <3> QED
      BY <2>2, <2>3, <2>4, <2>5, <3>1, <3>2, <3>3 DEF Told
  <2>8. CASE AcceptBody(body)
    <3> DEFINE delays == RetryDelays(RetryCodes(body), retryAfter, attempt)
    <3>1. /\ Judgement(body) = "none"
          /\ \/ Return("none", attempt)
             \/ delays # {} /\ Sleep(delays)
      BY <2>8, Zenon DEF AcceptBody
    <3>2. CASE Return("none", attempt)
      BY <2>2, <2>3, <2>4, <2>5, <3>1, <3>2 DEF Told, Answered, Return, Returned
    <3>3. CASE delays # {} /\ Sleep(delays)
      <4>1. Retryable(RetryCodes(body))
        BY <3>3 DEF RetryDelays
      <4>2. pc' = "sleep" /\ outcome' = outcome
        BY <3>3 DEF Sleep
      <4> QED
        BY <2>2, <2>3, <2>4, <2>5, <4>1, <4>2, <1>b DEF Told, Retryable
    <3> QED
      BY <3>1, <3>2, <3>3
  <2> QED
    BY <2>1, <2>6, <2>7, <2>8
<1>7. CASE Tick
  BY <1>7, <1>a DEF Told, DiagnosticsComplete, InRange, Tick, response, traffic, Retryable
<1>8. CASE Wake
  BY <1>8, <1>b DEF Told, DiagnosticsComplete, InRange, Wake, traffic
<1>9. CASE SleepCancelled
  <2>1. sent > 0
    BY <1>9, <1>b DEF SleepCancelled, Wire, LoopBound
  <2> QED
    BY <1>9, <2>1 DEF Told, DiagnosticsComplete, InRange, SleepCancelled, Return, Returned,
                      response, traffic
<1>10. CASE Execute
  BY <1>10, <1>a DEF Told, Answered, DiagnosticsComplete, InRange, Execute, response, traffic,
                     Retryable
<1>11. CASE EndContext
  BY <1>11, <1>a DEF Told, Answered, DiagnosticsComplete, InRange, EndContext, response, traffic,
                     Retryable
<1>12. CASE UNCHANGED vars
  BY <1>12, <1>a DEF Told, Answered, DiagnosticsComplete, InRange, vars, Retryable
<1> QED
  BY <1>1, <1>2, <1>3, <1>4, <1>5, <1>6, <1>7, <1>8, <1>9, <1>10, <1>11, <1>12
  DEF Next, Client

\* The two invariants hold together in every behaviour.
LEMMA ToldHolds == Spec => [](IInv /\ Told)
<1>1. Init => IInv /\ Told
  BY InitIInv, InitTold
<1>2. IInv /\ Told /\ [Next]_vars => (IInv /\ Told)'
  BY StepIInv, StepTold
<1> QED
  BY <1>1, <1>2, PTL DEF Spec

\* What a provider did answer is never asked for again: only a reply that is
\* retryable in every item is (AcceptBody, batchRetryCodes and retryDelay).
THEOREM NoAnswerIsDiscarded == Spec => []AnswersAreKept
<1>1. Told => AnswersAreKept
  <2> SUFFICES ASSUME Told, pc = "sleep", Judgement(reply) = "none",
                      NEW item \in InRange(reply.items)
               PROVE  item.code \in {RateLimited} \cup ServerCodes
    BY DEF AnswersAreKept
  <2>1. Retryable(RetryCodes(reply))
    BY DEF Told
  <2>2. item.code \in RetryCodes(reply)
    BY <2>1 DEF Retryable, RetryCodes
  <2> QED
    BY <2>1, <2>2 DEF Retryable
<1> QED
  BY <1>1, ToldHolds, PTL

\* Evidence answers the requests of the call in their order, and is never an
\* unsuccessful status without an error (validateResponse, rpcAttempt).
THEOREM EvidenceIsTheAnswer == Spec => []EvidenceMatchesCall
<1>1. IInv /\ Told => EvidenceMatchesCall
  <2> SUFFICES ASSUME IInv, Told, outcome.error = "none" PROVE EvidenceMatchesCall
    BY DEF EvidenceMatchesCall
  <2>1. Judgement(reply) = "none" /\ outcome.attempts = attempt
    BY DEF Told, Answered
  <2>2. ValidResponse(reply) /\ (Success(status) \/ HasError(reply))
    BY <2>1, EvidenceIsValid
  <2>3. reply.items \in Seq(Item) /\ call.envelope.requests \in Seq({"read", "write"})
    <3>1. reply \in Bodies \cup {NoBody} /\ call.envelope \in Envelopes
      BY DEF IInv, TypeOK
    <3>2. <<>> \in Seq(Item)
      OBVIOUS
    <3>3. ASSUME NEW body \in Body PROVE body.items \in Seq(Item)
      BY DEF Body
    <3>4. reply.items \in Seq(Item)
      <4>1. CASE reply \in Bodies
        BY <3>3, <4>1, RpcAssumption
      <4>2. CASE reply = NoBody
        <5>1. reply.items = <<>>
          BY <4>2 DEF NoBody
        <5> QED
          BY <3>2, <5>1
      <4> QED
        BY <3>1, <4>1, <4>2
    <3> QED
      BY <3>1, <3>4, RpcAssumption
  <2>4. DOMAIN reply.items = 1 .. Len(reply.items)
        /\ DOMAIN call.envelope.requests = 1 .. Len(call.envelope.requests)
    BY <2>3
  <2> QED
    BY <2>1, <2>2, <2>4 DEF EvidenceMatchesCall, ValidResponse
<1> QED
  BY <1>1, ToldHolds, PTL

\* Every response is on record before it is judged, and nothing else is.
THEOREM DiagnosticsTellAll == Spec => []DiagnosticsComplete
<1>1. Told => DiagnosticsComplete
  BY DEF Told
<1> QED
  BY <1>1, ToldHolds, PTL

-----------------------------------------------------------------------------
(* What the client waits for.                                              *)

\* A word keeps what it can hold (time.Duration).
LEMMA SignedKeeps ==
  ASSUME NEW x \in Int, 0 <= x, x <= MaxDuration
  PROVE  Signed(x) = x
<1>1. PICK m \in Nat : Durations = 2 * m
  <2>1. Durations \div 2 \in Nat /\ Durations = 2 * (Durations \div 2)
    BY DurationAssumption
  <2> QED
    BY <2>1
<1>2. MaxDuration = m - 1
  BY <1>1 DEF MaxDuration
<1>3. x + m \in 0 .. (Durations - 1)
  BY <1>1, <1>2
<1>4. (x + m) % Durations = x + m
  BY <1>1, <1>3, DurationAssumption
<1> QED
  BY <1>2, <1>4 DEF Signed

\* A header that time.Duration can hold is parsed to the delay it asks for.
LEMMA ParsedIsAsked ==
  ASSUME NEW h \in RetryAfterHeader, ValidRetryAfter(h), Representable(h)
  PROVE  ParsedDelay(h) = AskedDelay(h) /\ AskedDelay(h) >= 0
<1>1. CASE h.kind = "seconds"
  <2>1. h.n \in Int /\ h.n >= 0 /\ Second \in Nat
    BY <1>1, DurationAssumption DEF ValidRetryAfter, ReadableSeconds, RetryAfterHeader
  <2>2. h.n * Second \in Int /\ h.n * Second >= 0
    BY <2>1
  <2>3. h.n * Second <= MaxDuration
    BY <1>1 DEF Representable, AskedDelay
  <2> QED
    BY <1>1, <2>2, <2>3, SignedKeeps DEF ParsedDelay, AskedDelay
<1>2. CASE h.kind # "seconds"
  BY <1>2 DEF ValidRetryAfter, ReadableSeconds, ParsedDelay, AskedDelay
<1> QED
  BY <1>1, <1>2

\* jitteredBackoff draws at most the doubled base before the third attempt.
LEMMA BackoffIsBounded ==
  ASSUME NEW base \in Nat, NEW n \in 1 .. 2, NEW d \in Backoff(base, n)
  PROVE  d \in Nat /\ d <= 2 * base
<1>1. 2 ^ 0 = 1 /\ 2 ^ 1 = 2
  OBVIOUS
<1>2. CASE n = 1
  <2>1. 2 ^ (n - 1) = 1
    BY <1>1, <1>2
  <2> QED
    BY <2>1 DEF Backoff
<1>3. CASE n = 2
  <2>1. 2 ^ (n - 1) = 2
    BY <1>1, <1>3
  <2> QED
    BY <2>1 DEF Backoff
<1> QED
  BY <1>2, <1>3

\* httpRetryDelay: within the bounds, and not below what the header asks for.
LEMMA HttpDelaysAreBounded ==
  ASSUME NEW h \in RetryAfterHeader, NEW n \in 1 .. 2, NEW d \in HttpDelays(h, n)
  PROVE  /\ d \in Int /\ d <= Larger(MaxRetryAfter, LongestBackoff)
         /\ Representable(h) => d >= 0
         /\ ValidRetryAfter(h) /\ AskedDelay(h) <= MaxRetryAfter /\ Representable(h)
              => d >= AskedDelay(h)
<1> USE DurationAssumption
<1>0. d \in Int
  BY DelaysAreIntegers
<1>1. CASE Bounded(h)
  <2>1. d = ParsedDelay(h) /\ d <= MaxRetryAfter
    BY <1>1 DEF HttpDelays, Bounded
  <2>2. Representable(h) => ParsedDelay(h) = AskedDelay(h) /\ AskedDelay(h) >= 0
    BY <1>1, ParsedIsAsked DEF Bounded
  <2> QED
    BY <1>0, <2>1, <2>2 DEF Larger, LongestBackoff, AskedDelay, RetryAfterHeader
<1>2. CASE ~Bounded(h)
  <2>1. d \in Nat /\ d <= 2 * HttpBase
    BY <1>2, BackoffIsBounded DEF HttpDelays
  <2>2. ~(ValidRetryAfter(h) /\ AskedDelay(h) <= MaxRetryAfter /\ Representable(h))
    BY <1>2, ParsedIsAsked DEF Bounded
  <2> QED
    BY <2>1, <2>2 DEF Larger, LongestBackoff
<1> QED
  BY <1>1, <1>2

\* retryDelay: likewise, when the codes name the rate limit.
LEMMA RetryDelaysAreBounded ==
  ASSUME NEW h \in RetryAfterHeader, NEW n \in 1 .. 2, NEW codes,
         NEW d \in RetryDelays(codes, h, n)
  PROVE  /\ d \in Int /\ d <= Larger(MaxRetryAfter, LongestBackoff)
         /\ Representable(h) => d >= 0
         /\ (/\ ValidRetryAfter(h) /\ AskedDelay(h) <= MaxRetryAfter /\ Representable(h)
             /\ RateLimited \in codes) => d >= AskedDelay(h)
<1> USE DurationAssumption
<1>0. d \in Int
  BY DelaysAreIntegers
<1>1. CASE RateLimited \in codes /\ Bounded(h)
  <2> DEFINE server == IF codes \cap ServerCodes = {} THEN 0 ELSE ServerBase
  <2>1. d = Larger(ParsedDelay(h), server) /\ ParsedDelay(h) <= MaxRetryAfter
    BY <1>1 DEF RetryDelays, BaseDelay, Bounded
  <2>2. Representable(h) => ParsedDelay(h) = AskedDelay(h) /\ AskedDelay(h) >= 0
    BY <1>1, ParsedIsAsked DEF Bounded
  <2>3. server \in {0, ServerBase} /\ ParsedDelay(h) \in Int
    <3>1. HttpDelays(h, n) = {ParsedDelay(h)}
      BY <1>1 DEF HttpDelays
    <3> QED
      BY <3>1, DelaysAreIntegers
  <2> QED
    BY <1>0, <2>1, <2>2, <2>3 DEF Larger, LongestBackoff
<1>2. CASE ~(RateLimited \in codes /\ Bounded(h))
  <2> DEFINE base == BaseDelay(codes, h)
  <2>1. d \in Backoff(base, n)
    BY <1>2 DEF RetryDelays
  <2>2. base \in {0, RateLimitBase, ServerBase}
    BY <1>2 DEF BaseDelay, Larger
  <2>3. base \in Nat
    BY <2>2
  <2>4. d \in Nat /\ d <= 2 * base
    BY <2>1, <2>3, BackoffIsBounded
  <2>5. ~(/\ ValidRetryAfter(h) /\ AskedDelay(h) <= MaxRetryAfter /\ Representable(h)
          /\ RateLimited \in codes)
    BY <1>2, ParsedIsAsked DEF Bounded
  <2> QED
    BY <2>2, <2>4, <2>5 DEF Larger, LongestBackoff
<1> QED
  BY <1>1, <1>2

\* The step into a sleep, under the invariant: what it sleeps for.
LEMMA IntoTheSleep ==
  ASSUME IInv, IInv', [Next]_vars, pc = "body", pc' = "sleep"
  PROVE  /\ ~HasWrite /\ attempt \in 1 .. 2 /\ retryAfter \in RetryAfterHeader
         /\ \/ wait' \in HttpDelays(retryAfter, attempt)
            \/ wait' \in RetryDelays(RetryCodes(reply'), retryAfter, attempt)
               /\ Judgement(reply') # "transient"
<1>1. ReadBody
  BY DEF Next, Client, vars, Refuse, Begin, Send, DoFails, Breaks, Headers,
         Tick, Wake, SleepCancelled, Execute, EndContext, Return
<1>2. PICK body \in Bodies :
        reply' = body /\ (RejectBody(body) \/ RetryStatus(body) \/ AcceptBody(body))
  BY <1>1 DEF ReadBody
<1>3. attempt' = attempt /\ call' = call
  BY <1>1 DEF ReadBody
<1>4. attempt' \in 1 .. maxAttempts' /\ maxAttempts' \in 1 .. Limit' /\ attempt' < maxAttempts'
  BY DEF IInv, LoopBound
<1>5. ~HasWrite /\ attempt \in 1 .. 2
  <2>1. Limit' = Limit
    BY <1>3 DEF Limit, HasWrite
  <2> QED
    BY <1>3, <1>4, <2>1 DEF Limit, ReadRPCMaxAttempts, WriteRPCMaxAttempts
<1>6. retryAfter \in RetryAfterHeader
  <2>1. retryAfter \in RetryAfters \cup {NoRetryAfter}
    BY DEF IInv, TypeOK
  <2>2. NoRetryAfter \in RetryAfterHeader
    BY DEF RetryAfterHeader, NoRetryAfter
  <2>3. RetryAfters \subseteq RetryAfterHeader
    BY RpcAssumption
  <2> QED
    BY <2>1, <2>2, <2>3
<1>7. CASE RejectBody(body)
  BY <1>7 DEF RejectBody, Return
<1>8. CASE RetryStatus(body)
  <2>1. wait' \in HttpDelays(retryAfter, attempt)
    BY <1>8 DEF RetryStatus, Return, Sleep
  <2> QED
    BY <1>5, <1>6, <2>1
<1>9. CASE AcceptBody(body)
  <2> DEFINE delays == RetryDelays(RetryCodes(body), retryAfter, attempt)
  <2>1. /\ Judgement(body) = "none"
        /\ Return("none", attempt) \/ Sleep(delays)
    BY <1>9, Zenon DEF AcceptBody
  <2>2. Sleep(delays)
    BY <2>1 DEF Return
  <2>3. wait' \in delays
    BY <2>2 DEF Sleep
  <2> QED
    BY <1>2, <1>5, <1>6, <2>1, <2>3
<1> QED
  BY <1>2, <1>7, <1>8, <1>9

\* No write waits, and every wait is bounded, for every header, every set of
\* error codes and every width of time.Duration (retryDelay, httpRetryDelay).
THEOREM SleepsAreBounded == Spec => SleepBounded
<1> DEFINE A == pc = "body" /\ pc' = "sleep" =>
                  /\ ~HasWrite
                  /\ wait' <= Larger(MaxRetryAfter, LongestBackoff)
                  /\ Representable(retryAfter) => wait' >= 0
<1>1. IInv /\ [Next]_vars => [A]_vars
  <2> SUFFICES ASSUME IInv, [Next]_vars, pc = "body", pc' = "sleep" PROVE A
    OBVIOUS
  <2>1. IInv'
    BY StepIInv
  <2>2. /\ ~HasWrite /\ attempt \in 1 .. 2 /\ retryAfter \in RetryAfterHeader
        /\ \/ wait' \in HttpDelays(retryAfter, attempt)
           \/ wait' \in RetryDelays(RetryCodes(reply'), retryAfter, attempt)
    BY <2>1, IntoTheSleep
  <2>3. /\ wait' <= Larger(MaxRetryAfter, LongestBackoff)
        /\ Representable(retryAfter) => wait' >= 0
    BY <2>2, HttpDelaysAreBounded, RetryDelaysAreBounded
  <2> QED
    BY <2>2, <2>3
<1> QED
  BY <1>1, Invariance, PTL DEF Spec, SleepBounded

\* The client never comes back before the delay a provider asked for, when
\* that delay is within the bound and time.Duration holds it.
THEOREM RetryAfterIsHonoured == Spec => HonoursRetryAfter
<1> DEFINE A == (/\ pc = "body" /\ pc' = "sleep"
                 /\ ValidRetryAfter(retryAfter) /\ AskedDelay(retryAfter) <= MaxRetryAfter
                 /\ Representable(retryAfter)
                 /\ Judgement(reply') = "transient" \/ RateLimited \in RetryCodes(reply'))
                => wait' >= AskedDelay(retryAfter)
<1>1. IInv /\ [Next]_vars => [A]_vars
  <2> SUFFICES ASSUME IInv, [Next]_vars, pc = "body", pc' = "sleep",
                      ValidRetryAfter(retryAfter), AskedDelay(retryAfter) <= MaxRetryAfter,
                      Representable(retryAfter),
                      Judgement(reply') = "transient" \/ RateLimited \in RetryCodes(reply')
               PROVE  wait' >= AskedDelay(retryAfter)
    OBVIOUS
  <2>1. IInv'
    BY StepIInv
  <2>2. /\ attempt \in 1 .. 2 /\ retryAfter \in RetryAfterHeader
        /\ \/ wait' \in HttpDelays(retryAfter, attempt)
           \/ wait' \in RetryDelays(RetryCodes(reply'), retryAfter, attempt)
              /\ Judgement(reply') # "transient"
    BY <2>1, IntoTheSleep
  <2> QED
    BY <2>2, HttpDelaysAreBounded, RetryDelaysAreBounded
<1> QED
  BY <1>1, Invariance, PTL DEF Spec, HonoursRetryAfter

-----------------------------------------------------------------------------
(* DoRPC implements the safety of its contract.  Told is what the mapping     *)
(* needs: a refusal has sent nothing, any other end is no refusal.            *)

\* Where the contract is, place by place.
PhaseByPlace ==
  /\ pc \in {"start", "send", "sleep"} => Phase = IF sent = 0 THEN "idle" ELSE "pause"
  /\ pc \in {"await", "body"} => Phase = "exchange"
  /\ pc = "done" => Phase = IF outcome.error = "none" THEN "answered"
                            ELSE IF outcome.error \in {"invalid_chain_id", "credential_missing"}
                              THEN "refused" ELSE "failed"

\* A call that is about to begin is an idle call of the contract.
LEMMA InitContract == Init => Contract!Init
BY DEF Init, Contract!Init, Phase, ReadRPCMaxAttempts, WriteRPCMaxAttempts

\* Every step of DoRPC is a step of its contract or leaves it alone.
LEMMA StepContract ==
  IInv /\ IInv' /\ Told /\ Told' /\ [Next]_vars => [Contract!Next]_(Contract!vars)
<1> SUFFICES ASSUME IInv, IInv', Told, Told', [Next]_vars
             PROVE  Contract!Next \/ UNCHANGED Contract!vars
  OBVIOUS
<1> DEFINE limit == IF HasWrite THEN WriteRPCMaxAttempts ELSE ReadRPCMaxAttempts
<1>0. limit' = limit /\ limit = Limit /\ limit \in Nat /\ sent \in Nat /\ executed \in Nat
  <2>1. call' = call
    BY DEF Next, Client, vars, Refuse, Begin, Send, DoFails, Breaks, Headers, ReadBody,
           Tick, Wake, SleepCancelled, Execute, EndContext
  <2> QED
    BY <2>1 DEF HasWrite, Limit, IInv, TypeOK, ReadRPCMaxAttempts, WriteRPCMaxAttempts
<1>a. PhaseByPlace /\ PhaseByPlace'
  BY DEF PhaseByPlace, Phase
<1>b. ASSUME UNCHANGED <<sent, executed>>, Phase' = Phase PROVE UNCHANGED Contract!vars
  BY <1>0, <1>b DEF Contract!vars
<1>c. ASSUME UNCHANGED <<sent, executed>>,
             \/ Phase = "idle" /\ Phase' \in {"refused", "failed"}
             \/ Phase = "pause" /\ Phase' = "failed"
             \/ Phase = "exchange" /\ Phase' \in {"answered", "failed"}
      PROVE  Contract!Next
  BY <1>0, <1>c DEF Contract!Next, Contract!Conclude
<1>1. CASE Refuse
  <2>1. pc = "start" /\ sent = 0 /\ sent' = 0 /\ pc' = "done"
        /\ outcome'.error \in {"invalid_chain_id", "credential_missing"}
    BY <1>1 DEF Refuse, Return, Returned, IInv, Wire, traffic
  <2>2. Phase = "idle" /\ Phase' = "refused"
    BY <1>a, <2>1 DEF PhaseByPlace
  <2> QED
    BY <1>1, <1>c, <2>1, <2>2 DEF Refuse, traffic
<1>2. CASE Begin
  <2>1. Phase' = Phase
    BY <1>2, <1>a DEF Begin, PhaseByPlace, traffic
  <2> QED
    BY <1>2, <1>b, <2>1 DEF Begin, traffic
<1>3. CASE Send
  <2>1. Phase \in {"idle", "pause"} /\ Phase' = "exchange"
    BY <1>3, <1>a DEF Send, PhaseByPlace
  <2>2. sent < limit
    BY <1>3, <1>0 DEF Send, IInv, TypeOK, Wire, LoopBound, ReadRPCMaxAttempts
  <2> QED
    BY <1>3, <1>0, <2>1, <2>2 DEF Send, Contract!Next, Contract!Exchange
<1>4. CASE DoFails
  <2>1. /\ pc \in {"send", "await"} /\ pc' = "done" /\ sent' = sent
        /\ outcome'.error = "transport_error"
    BY <1>4 DEF DoFails, Breaks, Return, Returned, traffic
  <2>2. Phase \in {"idle", "pause", "exchange"} /\ Phase' = "failed"
    BY <1>a, <2>1 DEF PhaseByPlace
  <2> QED
    BY <1>4, <1>c, <2>1, <2>2 DEF DoFails, Breaks, traffic
<1>5. CASE Headers
  <2>1. Phase' = Phase
    BY <1>5, <1>a DEF Headers, PhaseByPlace
  <2> QED
    BY <1>5, <1>b, <2>1 DEF Headers
<1>6. CASE ReadBody
  <2>1. /\ pc = "body" /\ UNCHANGED <<attempt, sent, executed>>
        /\ sent = attempt /\ sent > 0 /\ Phase = "exchange"
    BY <1>6, <1>a DEF ReadBody, IInv, TypeOK, Wire, LoopBound, PhaseByPlace, ReadRPCMaxAttempts
  <2>2. pc' \in {"done", "sleep"}
    BY <1>6 DEF ReadBody, RejectBody, RetryStatus, AcceptBody, Return, Sleep
  <2>3. CASE pc' = "done"
    <3>1. outcome'.error \notin {"invalid_chain_id", "credential_missing"}
      BY <2>1, <2>3 DEF Told
    <3>2. Phase' \in {"answered", "failed"}
      BY <1>a, <2>3, <3>1 DEF PhaseByPlace
    <3> QED
      BY <1>c, <2>1, <3>2
  <2>4. CASE pc' = "sleep"
    <3>1. Phase' = "pause"
      BY <1>a, <2>1, <2>4 DEF PhaseByPlace
    <3>2. sent < limit
      BY <1>0, <2>1, <2>4 DEF IInv, TypeOK, LoopBound, Limit, ReadRPCMaxAttempts,
                              WriteRPCMaxAttempts, HasWrite
    <3> QED
      BY <1>0, <2>1, <3>1, <3>2 DEF Contract!Next, Contract!Pause
  <2> QED
    BY <2>2, <2>3, <2>4
<1>7. CASE Tick
  <2>1. Phase' = Phase
    BY <1>7, <1>a DEF Tick, PhaseByPlace, traffic
  <2> QED
    BY <1>7, <1>b, <2>1 DEF Tick, traffic
<1>8. CASE Wake
  <2>1. Phase' = Phase
    BY <1>8, <1>a DEF Wake, PhaseByPlace, traffic
  <2> QED
    BY <1>8, <1>b, <2>1 DEF Wake, traffic
<1>9. CASE SleepCancelled
  <2>1. pc = "sleep" /\ pc' = "done" /\ sent > 0 /\ outcome'.error = "transport_error"
    BY <1>9 DEF SleepCancelled, Return, Returned, IInv, TypeOK, Wire, LoopBound,
                ReadRPCMaxAttempts
  <2>2. Phase = "pause" /\ Phase' = "failed"
    BY <1>a, <2>1 DEF PhaseByPlace
  <2> QED
    BY <1>9, <1>c, <2>2 DEF SleepCancelled, traffic
<1>10. CASE Execute
  <2>1. Phase' = Phase
    BY <1>10, <1>a DEF Execute, PhaseByPlace, Phase, traffic
  <2> QED
    BY <1>10, <1>0, <2>1 DEF Execute, traffic, Contract!Next, Contract!Effect
<1>11. CASE EndContext
  <2>1. Phase' = Phase
    BY <1>11 DEF EndContext, Phase, traffic
  <2> QED
    BY <1>11, <1>b, <2>1 DEF EndContext, traffic
<1>12. CASE UNCHANGED vars
  <2>1. Phase' = Phase
    BY <1>12 DEF vars, Phase
  <2> QED
    BY <1>12, <1>b, <2>1 DEF vars
<1> QED
  BY <1>1, <1>2, <1>3, <1>4, <1>5, <1>6, <1>7, <1>8, <1>9, <1>10, <1>11, <1>12
  DEF Next, Client

\* DoRPC implements the safety of its contract for every provider: what the
\* commands assume of a call, that it was tried as often as its envelope
\* allows, executed no more often, and answered only after an exchange.
THEOREM ImplementsTheContract == Spec => Contract!Safe
<1>1. Init => Contract!Init
  BY InitContract
<1>2. IInv /\ IInv' /\ Told /\ Told' /\ [Next]_vars => [Contract!Next]_(Contract!vars)
  BY StepContract
<1> QED
  BY <1>1, <1>2, ToldHolds, PTL DEF Spec, Contract!Safe

=============================================================================
