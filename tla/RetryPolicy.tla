---------------------------- MODULE RetryPolicy ----------------------------
(***************************************************************************)
(* The waiting policy of src/internal/transport/transport.go: how a reply's *)
(* error codes, its Retry-After header and the attempt number decide whether *)
(* a JSON-RPC read is repeated, and after what delay.                        *)
(*                                                                         *)
(* A duration is an integer number of ticks.  time.Duration is a signed     *)
(* machine word of Durations values, so that the multiplication in           *)
(* parseRetryAfter wraps here as it does there.                              *)
(***************************************************************************)
EXTENDS Integers

CONSTANTS
  Durations,      \* how many values time.Duration has (2^64 in the build)
  Second,         \* ticks in a second
  MaxRetryAfter,  \* maxRetryAfter
  HttpBase,       \* httpRetryBaseDelay
  RateLimitBase,  \* rateLimitRetryBaseDelay
  ServerBase      \* serverRetryBaseDelay

ASSUME DurationAssumption ==
  /\ Durations \in Nat \ {0} /\ Durations % 2 = 0
  /\ {Second, MaxRetryAfter, HttpBase, RateLimitBase, ServerBase} \subseteq Nat \ {0}

\* The JSON-RPC error codes retryDelay names; every other code is final.
RateLimited       == -32003
ProviderExhausted == -32009
InternalError     == -32603
ServerError       == -32000
ServerCodes       == {InternalError, ServerError, ProviderExhausted}

(***************************************************************************)
(* A Retry-After header: absent or unreadable, a number of seconds, or a    *)
(* date, given by its distance from now.                                    *)
(***************************************************************************)
RetryAfterHeader == [kind : {"none", "seconds", "date"}, n : Int]

MaxDuration == (Durations \div 2) - 1

\* The value a signed word keeps of x.
Signed(x) == ((x + MaxDuration + 1) % Durations) - (MaxDuration + 1)

\* strconv.Atoi accepts the seconds and they are not negative.
ReadableSeconds(h) == h.kind = "seconds" /\ h.n >= 0 /\ h.n <= MaxDuration

ValidRetryAfter(h) == ReadableSeconds(h) \/ (h.kind = "date" /\ h.n >= 0)

\* What parseRetryAfter makes of a valid header: seconds * time.Second wraps.
ParsedDelay(h) == IF h.kind = "seconds" THEN Signed(h.n * Second) ELSE h.n

\* boundedRetryAfter: a valid delay of at most maxRetryAfter.
Bounded(h) == ValidRetryAfter(h) /\ ParsedDelay(h) <= MaxRetryAfter

\* jitteredBackoff draws between one tick and the doubled base.
Backoff(base, attempt) == 1 .. (base * 2^(attempt - 1))

\* Mutant: the header of a transient HTTP status is not read.
BackoffOnly(h, attempt) == Backoff(HttpBase, attempt)

\* httpRetryDelay: the delays it may return.
HttpDelays(h, attempt) ==
  IF Bounded(h) THEN {ParsedDelay(h)} ELSE Backoff(HttpBase, attempt)

Larger(a, b) == IF a > b THEN a ELSE b

Retryable(codes) == codes # {} /\ codes \subseteq {RateLimited} \cup ServerCodes

\* The longest delay the codes of a reply ask for, before any jitter.
BaseDelay(codes, h) ==
  LET limit  == IF RateLimited \notin codes THEN 0
                ELSE IF Bounded(h) THEN ParsedDelay(h) ELSE RateLimitBase
      server == IF codes \cap ServerCodes = {} THEN 0 ELSE ServerBase
  IN  Larger(limit, server)

(***************************************************************************)
(* retryDelay: the delays it may return for a set of error codes; none when *)
(* the reply is final.  Only a rate-limit code looks at Retry-After.         *)
(***************************************************************************)
RetryDelays(codes, h, attempt) ==
  IF ~Retryable(codes) THEN {}
  ELSE IF RateLimited \in codes /\ Bounded(h) THEN {BaseDelay(codes, h)}
  ELSE Backoff(BaseDelay(codes, h), attempt)

=============================================================================
