---------------------------- MODULE MCRpcClient ----------------------------
(* Instances of RpcClient for TLC.                                         *)
EXTENDS RpcClient

Single(r)    == [batch |-> FALSE, requests |-> <<r>>]
Pair(r1, r2) == [batch |-> TRUE, requests |-> <<r1, r2>>]

MCSingles   == {Single("read"), Single("write")}
MCEnvelopes == MCSingles \cup {Pair("read", "read"), Pair("read", "write")}

MCStatuses == {200, 401, 404, 429, 503}

Header(kind, n) == [kind |-> kind, n |-> n]
\* Absent; within the bound; over it; past; and, with 64 durations, wrapping below 0
\* (13 * 4 = 52) and exactly to 0 (16 * 4 = 64).
MCRetryAfters == {NoRetryAfter, Header("seconds", 1), Header("seconds", 3),
                  Header("date", 5), Header("date", -1), Header("seconds", 13)}
MCOverflowing == MCRetryAfters \cup {Header("seconds", 16)}

UnknownCode == -32601
MCCodes == {ResultItem, RateLimited, ProviderExhausted, InternalError, UnknownCode}

Items(id)  == {[id |-> id, code |-> c] : c \in MCCodes}
BadItem    == [id |-> 0, code |-> ResultItem]
Unusable   == {[kind |-> k, items |-> <<>>] : k \in {"broken", "oversized", "garbage"}}
Objects    == {[kind |-> "object", items |-> <<i>>] : i \in Items(1) \cup {BadItem}}
Arrays     == {[kind |-> "array", items |-> <<i, j>>] :
                 i \in Items(1) \cup {BadItem}, j \in Items(2)}
Odd        == {[kind |-> "array", items |-> <<>>],
               [kind |-> "array", items |-> <<[id |-> 2, code |-> 0], [id |-> 1, code |-> 0]>>]}

SingleBodies == Unusable \cup Objects
MCBodies     == SingleBodies \cup Arrays \cup Odd

-----------------------------------------------------------------------------
(* What the documents say and the code does not.                           *)

\* internal/schema/catalog.json:22: "attempt" of a request_attempt event is 1
\* or 2.  The loop of DoRPC emits a third.
AttemptEventSchema == InRange(events) \subseteq 1 .. 2

\* README.md:197: valid Retry-After delays are honored up to 30 seconds.
\* retryDelay looks at the header for a rate-limit code only.
HonoursEveryRetryAfter ==
  [][(/\ pc = "body" /\ pc' = "sleep"
      /\ ValidRetryAfter(retryAfter) /\ AskedDelay(retryAfter) <= MaxRetryAfter)
     => wait' >= AskedDelay(retryAfter)]_vars

\* README.md:197-198: a Retry-After over 30 seconds leaves the retry to the
\* backoff with jitter.  parseRetryAfter's product wraps, and may fall in range.
OverlongBacksOff ==
  [][(/\ pc = "body" /\ pc' = "sleep"
      /\ ValidRetryAfter(retryAfter) /\ AskedDelay(retryAfter) > MaxRetryAfter
      /\ Judgement(reply') = "transient")
     => wait' \in Backoff(HttpBase, attempt)]_vars

=============================================================================
