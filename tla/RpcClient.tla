----------------------------- MODULE RpcClient -----------------------------
(***************************************************************************)
(* One call of Client.DoRPC (src/internal/transport/transport.go) against a *)
(* provider that may refuse, lose, delay, execute without answering, answer *)
(* without executing, or answer anything at all, while the command's        *)
(* context may end at any moment.                                           *)
(***************************************************************************)
EXTENDS RetryPolicy, Sequences, FiniteSets

CONSTANTS
  Envelopes,         \* JSON-RPC envelopes a call may carry
  Statuses,          \* HTTP statuses of a response
  RetryAfters,       \* Retry-After headers of a response
  Bodies,            \* bodies of a response
  BatchIdCounts      \* numbers of X-Batch-Id values of a response

ReadRPCMaxAttempts  == 3
WriteRPCMaxAttempts == 1
NoRetryAfter        == [kind |-> "none", n |-> 0]
ResultItem          == 0   \* the "error code" of an item that holds a result

(***************************************************************************)
(* A request is a "read" or a "write" (IsWriteMethod); the id of a request  *)
(* is its position.  A body cannot be read, is over the size limit, is not  *)
(* JSON, or is an object or an array of items.  An item answers the request *)
(* whose position is its id, with a result or an error code; id 0 stands    *)
(* for an item validateResponseItem refuses whatever the request is.        *)
(***************************************************************************)
Item == [id : Nat, code : Int]
Body == [kind : {"broken", "oversized", "garbage", "object", "array"},
         items : Seq(Item)]
NoBody == [kind |-> "none", items |-> <<>>]

ASSUME RpcAssumption ==
  /\ Envelopes \subseteq [batch : BOOLEAN, requests : Seq({"read", "write"})]
  /\ Statuses \subseteq 100 .. 599
  /\ RetryAfters \subseteq RetryAfterHeader
  /\ Bodies \subseteq Body
  /\ BatchIdCounts \subseteq Nat

VARIABLES
  call,         \* the arguments: envelope, whether chain ID and key are usable
  ctxDone,      \* the context is cancelled or past its deadline
  pc,           \* where DoRPC is
  attempt, maxAttempts,
  status, retryAfter, reply,   \* the response of the current attempt
  wait,         \* ticks left of the retry sleep
  events,       \* attempt numbers of the request_attempt diagnostics
  exhausted,    \* history: the first attempt answered "no provider", or 0
  sent,         \* requests put on the wire
  executed,     \* requests the provider has executed
  outcome       \* what DoRPC returned

response == <<status, retryAfter, reply>>
traffic  == <<events, exhausted, sent>>
vars == <<call, ctxDone, pc, attempt, maxAttempts, status, retryAfter, reply,
          wait, events, exhausted, sent, executed, outcome>>

InRange(s) == {s[i] : i \in DOMAIN s}
HasWrite   == "write" \in InRange(call.envelope.requests)

Pending  == [error |-> "pending", attempts |-> 0]
Returned(error, n) == [error |-> error, attempts |-> n]
Errors == {"pending", "none", "invalid_chain_id", "credential_missing",
           "credential_rejected", "transport_error", "http_error",
           "response_too_large", "invalid_rpc_response", "contradictory_response"}

-----------------------------------------------------------------------------
(* What a response is worth.                                               *)

Success(s)             == s >= 200 /\ s < 300
IsRetryableStatus(s)   == s \in {429, 502, 503, 504}
IsError(item)          == item.code # ResultItem

Shape == IF call.envelope.batch THEN "array" ELSE "object"

\* Mutant: the ids of a batch are compared as a set.
UnorderedResponse(body) ==
  body.kind = Shape /\ {item.id : item \in InRange(body.items)}
                         = DOMAIN call.envelope.requests

\* validateResponse: the shape the envelope calls for, every id in its place.
ValidResponse(body) ==
  /\ body.kind = Shape
  /\ Len(body.items) = Len(call.envelope.requests)
  /\ \A i \in 1 .. Len(body.items) : body.items[i].id = i

HasError(body) == \E item \in InRange(body.items) : IsError(item)

\* Mutant: the items that succeeded are overlooked.
FailedCodes(body) == {item.code : item \in {i \in InRange(body.items) : IsError(i)}}

\* batchRetryCodes: no code counts unless every item failed.
RetryCodes(body) ==
  IF \A item \in InRange(body.items) : IsError(item)
    THEN {item.code : item \in InRange(body.items)}
    ELSE {}

(***************************************************************************)
(* rpcAttempt's judgement of a body under the current status: the error it  *)
(* returns, "transient" for an HTTP status worth repeating, or "none" for   *)
(* JSON-RPC evidence.                                                       *)
(***************************************************************************)
InvalidRPCResponse ==
  CASE status = 401                            -> "credential_rejected"
    [] ~HasWrite /\ IsRetryableStatus(status)  -> "transient"
    [] OTHER                                   -> "http_error"

Judgement(body) ==
  CASE body.kind = "broken"    -> "transport_error"
    [] body.kind = "oversized" -> "response_too_large"
    [] body.kind \notin {"broken", "oversized"} /\ ~ValidResponse(body) ->
         IF Success(status) THEN "invalid_rpc_response" ELSE InvalidRPCResponse
    [] OTHER ->
         IF Success(status) THEN "none"
         ELSE IF status = 401 THEN "credential_rejected"
         ELSE IF HasError(body) THEN "none"
         ELSE "contradictory_response"

-----------------------------------------------------------------------------
Init ==
  /\ call \in [envelope : Envelopes, chainOk : BOOLEAN, keyOk : BOOLEAN]
  /\ ctxDone = FALSE
  /\ pc = "start"
  /\ attempt = 0 /\ maxAttempts = 0
  /\ status = 0 /\ retryAfter = NoRetryAfter /\ reply = NoBody
  /\ wait = 0
  /\ events = <<>>
  /\ exhausted = 0
  /\ sent = 0 /\ executed = 0
  /\ outcome = Pending

Return(error, n) ==
  /\ pc' = "done"
  /\ outcome' = Returned(error, n)

\* Mutant: the envelope's writes are not looked for.
LimitOfReads == ReadRPCMaxAttempts

Limit == IF HasWrite THEN WriteRPCMaxAttempts ELSE ReadRPCMaxAttempts

\* DoRPC up to its loop: refuse the call or fix the number of attempts.
Refuse ==
  /\ pc = "start"
  /\ ~(call.chainOk /\ call.keyOk)
  /\ Return(IF call.chainOk THEN "credential_missing" ELSE "invalid_chain_id", 0)
  /\ UNCHANGED <<call, ctxDone, attempt, maxAttempts, response, wait, traffic,
                 executed>>

Begin ==
  /\ pc = "start"
  /\ call.chainOk /\ call.keyOk
  /\ maxAttempts' = Limit
  /\ attempt' = 1
  /\ pc' = "send"
  /\ UNCHANGED <<call, ctxDone, response, wait, traffic, executed, outcome>>

\* httpClient.Do puts the request on the wire; it does not under a dead context.
Send ==
  /\ pc = "send"
  /\ ~ctxDone
  /\ sent' = sent + 1
  /\ pc' = "await"
  /\ UNCHANGED <<call, ctxDone, attempt, maxAttempts, response, wait, events,
                 exhausted, executed, outcome>>

Breaks(places) ==
  /\ pc \in places
  /\ Return("transport_error", attempt)
  /\ UNCHANGED <<call, ctxDone, attempt, maxAttempts, response, wait, traffic,
                 executed>>

\* Mutant: the request does not carry the context.
BreaksOnDialOnly == Breaks({"send"})

\* httpClient.Do fails: before the request left, or with its answer lost.
DoFails == Breaks({"send", "await"})

\* Mutant: no diagnostic without a batch id.
NamedBatches(n) == n

\* One diagnostic for each batch id, or one with a null id.
Diagnostics(n) == Larger(n, 1)

\* The response's headers: the diagnostics are emitted before the body is read.
Headers ==
  /\ pc = "await"
  /\ \E s \in Statuses, h \in RetryAfters, n \in BatchIdCounts :
       /\ status' = s
       /\ retryAfter' = h
       /\ events' = events \o [i \in 1 .. Diagnostics(n) |-> attempt]
  /\ pc' = "body"
  /\ UNCHANGED <<call, ctxDone, attempt, maxAttempts, reply, wait, exhausted,
                 sent, executed, outcome>>

\* Mutant: the loop runs once more.
PastLastAttempt(bound) == attempt > bound

LastAttempt(bound) == attempt >= bound

\* Mutant: a report of exhaustion leaves the bound alone.
SameBound(codes) == maxAttempts

\* The bound of the loop after a reply with the given codes.
NextBound(codes) ==
  IF ~HasWrite /\ ProviderExhausted \in codes /\ maxAttempts > 2
    THEN 2 ELSE maxAttempts

Sleep(delays) ==
  /\ wait' \in delays
  /\ pc' = "sleep"
  /\ outcome' = outcome

\* rpcAttempt fails: DoRPC returns its error.
RejectBody(body) ==
  /\ Judgement(body) \notin {"none", "transient"}
  /\ Return(Judgement(body), attempt)
  /\ UNCHANGED <<maxAttempts, wait>>

\* A transient HTTP status: sleep, or give up at the last attempt.
RetryStatus(body) ==
  /\ Judgement(body) = "transient"
  /\ IF LastAttempt(maxAttempts)
       THEN Return("http_error", attempt) /\ UNCHANGED wait
       ELSE Sleep(HttpDelays(retryAfter, attempt))
  /\ UNCHANGED maxAttempts

\* JSON-RPC evidence: return it, or sleep when all of it is retryable.
AcceptBody(body) ==
  LET codes  == RetryCodes(body)
      delays == IF HasError(body) THEN RetryDelays(codes, retryAfter, attempt) ELSE {}
  IN  /\ Judgement(body) = "none"
      /\ maxAttempts' = NextBound(IF HasError(body) THEN codes ELSE {})
      /\ IF LastAttempt(maxAttempts') \/ delays = {}
           THEN Return("none", attempt) /\ UNCHANGED wait
           ELSE Sleep(delays)

ReportsExhaustion(body) ==
  /\ body.kind \in {"object", "array"} /\ ValidResponse(body)
  /\ ProviderExhausted \in {item.code : item \in InRange(body.items)}

ReadBody ==
  /\ pc = "body"
  /\ \E body \in Bodies :
       /\ reply' = body
       /\ exhausted' = IF exhausted = 0 /\ ReportsExhaustion(body)
                         THEN attempt ELSE exhausted
       /\ RejectBody(body) \/ RetryStatus(body) \/ AcceptBody(body)
  /\ UNCHANGED <<call, ctxDone, attempt, status, retryAfter, events, sent,
                 executed>>

-----------------------------------------------------------------------------
(* sleepContext: the timer and the context race; when both are ready the    *)
(* select takes either.                                                     *)

Tick ==
  /\ pc = "sleep"
  /\ wait > 0
  /\ wait' = wait - 1
  /\ UNCHANGED <<call, ctxDone, pc, attempt, maxAttempts, response, traffic,
                 executed, outcome>>

Wake ==
  /\ pc = "sleep"
  /\ wait <= 0
  /\ attempt' = attempt + 1
  /\ pc' = "send"
  /\ status' = 0 /\ retryAfter' = NoRetryAfter /\ reply' = NoBody
  /\ UNCHANGED <<call, ctxDone, maxAttempts, wait, traffic, executed, outcome>>

SleepCancelled ==
  /\ pc = "sleep"
  /\ ctxDone
  /\ Return("transport_error", 0)
  /\ UNCHANGED <<call, ctxDone, attempt, maxAttempts, response, wait, traffic,
                 executed>>

-----------------------------------------------------------------------------
(* The environment: the provider executes a request that was sent, however  *)
(* late; the deadline passes or a signal arrives.                           *)

Execute ==
  /\ executed < sent
  /\ executed' = executed + 1
  /\ UNCHANGED <<call, ctxDone, pc, attempt, maxAttempts, response, wait,
                 traffic, outcome>>

EndContext ==
  /\ ~ctxDone
  /\ ctxDone' = TRUE
  /\ UNCHANGED <<call, pc, attempt, maxAttempts, response, wait, traffic,
                 executed, outcome>>

Client == \/ Refuse \/ Begin \/ Send \/ DoFails \/ Headers \/ ReadBody
          \/ Tick \/ Wake \/ SleepCancelled

Next == Client \/ Execute \/ EndContext

(***************************************************************************)
(* The deadline passes, time goes on, and under a dead context net/http     *)
(* lets no exchange hang: that is all the fairness.  Nothing is assumed of  *)
(* the provider.                                                            *)
(***************************************************************************)
Fairness ==
  /\ WF_vars(Refuse \/ Begin \/ Tick \/ Wake \/ SleepCancelled)
  /\ WF_vars(ctxDone /\ (DoFails \/ ReadBody))
  /\ WF_vars(EndContext)

Spec == Init /\ [][Next]_vars /\ Fairness

-----------------------------------------------------------------------------
(* Properties.                                                             *)

TypeOK ==
  /\ call \in [envelope : Envelopes, chainOk : BOOLEAN, keyOk : BOOLEAN]
  /\ ctxDone \in BOOLEAN
  /\ pc \in {"start", "send", "await", "body", "sleep", "done"}
  /\ attempt \in 0 .. ReadRPCMaxAttempts
  /\ maxAttempts \in 0 .. ReadRPCMaxAttempts
  /\ status \in Statuses \cup {0}
  /\ retryAfter \in RetryAfters \cup {NoRetryAfter}
  /\ reply \in Bodies \cup {NoBody}
  /\ wait \in Int
  /\ events \in Seq(1 .. ReadRPCMaxAttempts)
  /\ exhausted \in 0 .. ReadRPCMaxAttempts
  /\ sent \in Nat /\ executed \in Nat
  /\ outcome \in [error : Errors, attempts : 0 .. ReadRPCMaxAttempts]

\* A call whose envelope holds a write anywhere is executed at most once,
\* whatever the provider answers and however late it executes (HasWrite and
\* WriteRPCMaxAttempts).
WriteAtMostOnce == HasWrite => executed <= 1

\* Once a read is refused for want of providers (-32009) no third request is
\* made; when the third attempt is the first so refused, it is the last
\* (the cap on maxAttempts, which outlives the reply that caused it).
ExhaustedCap ==
  exhausted # 0 => attempt <= Larger(2, exhausted) /\ sent <= attempt

\* A reply that holds one result, or one error that is not retryable, is never
\* asked for again: what the provider did answer is returned, not discarded.
AnswersAreKept ==
  (pc = "sleep" /\ Judgement(reply) = "none") =>
     \A item \in InRange(reply.items) : item.code \in {RateLimited} \cup ServerCodes

\* Evidence DoRPC returns without error answers the requests in their order,
\* and holds an error item whenever the HTTP status is not a success.
EvidenceMatchesCall ==
  outcome.error = "none" => /\ DOMAIN reply.items = DOMAIN call.envelope.requests
                            /\ \A i \in DOMAIN reply.items : reply.items[i].id = i
                            /\ Success(status) \/ HasError(reply)
                            /\ outcome.attempts = attempt

\* The diagnostics tell the whole story: every attempt whose headers arrived
\* is on record, in order, before its body is judged, and no other attempt is.
DiagnosticsComplete ==
  /\ \A i, j \in DOMAIN events : i < j => events[i] <= events[j]
  /\ InRange(events) = 1 .. (IF status = 0 THEN attempt - 1 ELSE attempt)

\* A write never sleeps for a retry, and no sleep is longer than the bound on
\* Retry-After or the last doubled backoff; it begins negative only for a
\* Retry-After that time.Duration cannot hold.
AskedDelay(h)    == IF h.kind = "seconds" THEN h.n * Second ELSE h.n
Representable(h) == AskedDelay(h) <= MaxDuration
LongestBackoff   == 2 * Larger(HttpBase, Larger(RateLimitBase, ServerBase))
SleepBounded ==
  [][pc = "body" /\ pc' = "sleep" =>
       /\ ~HasWrite
       /\ wait' <= Larger(MaxRetryAfter, LongestBackoff)
       /\ Representable(retryAfter) => wait' >= 0]_vars

\* A Retry-After within the bound is honoured, when the reply is a transient
\* HTTP status or names the rate limit: the client does not come back sooner.
HonoursRetryAfter ==
  [][(/\ pc = "body" /\ pc' = "sleep"
      /\ ValidRetryAfter(retryAfter) /\ AskedDelay(retryAfter) <= MaxRetryAfter
      /\ Representable(retryAfter)
      /\ Judgement(reply') = "transient" \/ RateLimited \in RetryCodes(reply'))
     => wait' >= AskedDelay(retryAfter)]_vars

\* The call returns, whatever the provider does, once the deadline passes.
Terminates == <>(pc = "done")

(***************************************************************************)
(* DoRPC implements the contract of a call.  A pause is everything between  *)
(* two exchanges: the sleep and the loop's next turn.                       *)
(***************************************************************************)
Phase ==
  CASE pc \in {"start", "send", "sleep"} -> IF sent = 0 THEN "idle" ELSE "pause"
    [] pc \in {"await", "body"}           -> "exchange"
    [] OTHER -> CASE outcome.error = "none" -> "answered"
                  [] outcome.error \in {"invalid_chain_id", "credential_missing"} -> "refused"
                  [] OTHER -> "failed"

Contract == INSTANCE RpcContract WITH
  ReadLimit  <- ReadRPCMaxAttempts,
  WriteLimit <- WriteRPCMaxAttempts,
  limit      <- IF HasWrite THEN WriteRPCMaxAttempts ELSE ReadRPCMaxAttempts,
  rounds     <- sent,
  effects    <- executed,
  phase      <- Phase

\* DoRPC, with its retries and its HTTP, keeps the contract of RpcContract.
KeepsContract == Contract!Spec

=============================================================================
