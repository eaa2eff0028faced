---------------------------- MODULE Subscription ----------------------------
(***************************************************************************)
(* The subscribe command (src/internal/app/commands_subscribe.go) with      *)
(* Client.Subscribe (src/internal/transport/websocket.go): one WebSocket    *)
(* connection, one eth_subscribe, its acknowledgement, and a fixed number    *)
(* of notifications, against a server that may send anything at any time and *)
(* a command context that may end at any time.                               *)
(***************************************************************************)
EXTENDS LogFilter, Prefixes

CONSTANTS
  MaxSubscriptionCount,
  MaxResponseBytes,
  Calls,        \* arguments of the command
  Messages,     \* WebSocket messages a server may send
  NoSub,        \* an absent or empty subscription id
  MaxWire       \* bound on the messages of a connection

(***************************************************************************)
(* The kinds of subscription; only logs has a filter, the fields of the JSON   *)
(* text of --json, which is piped when its value is "-".  No text at all is    *)
(* what an empty standard input gives, too.                                   *)
(* A payload is well formed as a value of the kind subscribed to.             *)
(* A message is a frame of some size, or a close frame with the status for a *)
(* message too big; its text is not JSON ("garbage"), a JSON-RPC response,   *)
(* an eth_subscription notification, or other JSON.                          *)
(***************************************************************************)
Subscriptions == {"newHeads", "logs", "newPendingTransactions"}
Payload == [wellFormed : BOOLEAN, address : STRING, topics : Seq(STRING)]
Message == [frame : {"text", "binary", "tooBigClose"}, size : Nat,
            type : {"garbage", "response", "notification", "other"},
            answers : BOOLEAN,    \* a response: it is a valid answer to the request
            failed : BOOLEAN,     \* a response: it holds an error
            sub : STRING \cup {NoSub}, payload : Payload]

ASSUME SubscriptionAssumption ==
  /\ MaxSubscriptionCount \in Nat /\ MaxResponseBytes \in Nat /\ MaxWire \in Nat
  /\ \A c \in Calls :
       /\ c.count \in Int /\ c.subscription \in STRING
       /\ {c.chainOk, c.baseOk, c.dryRun, c.keyOk, c.piped} \subseteq BOOLEAN
       /\ c.text \in {"none", "oversized", "garbage", "object"}
       /\ c.text = "none" => DOMAIN c.fields = {}
  /\ Messages \subseteq Message
  /\ \A m \in Messages : m.payload.wellFormed =>
       m.payload.address \in Addresses /\ m.payload.topics \in Seq(Topics)

VARIABLES
  call, ctxDone, pc,
  stdin,       \* "open", "full" (past the limit) or "closed"
  conn,        \* "none", "open" or "closed"
  session,     \* HTTP status of the websocket_session diagnostic, or 0
  wire,        \* everything the server has sent
  taken,       \* how much of it the client has read
  remaining,   \* bytes the client may still read
  sub,         \* the subscription id acknowledged
  kept,        \* notifications collected
  stdout, outcome

vars == <<call, ctxDone, pc, stdin, conn, session, wire, taken, remaining, sub, kept,
          stdout, outcome>>
link  == <<conn, session>>
reads == <<taken, remaining, sub, kept>>

Refusals == {"invalid_chain_id", "invalid_count", "invalid_json_input",
             "invalid_subscription", "invalid_transport_configuration",
             "credential_missing"}
Faults   == {"invalid_notification", "response_too_large",
             "invalid_subscription_response", "provider_error",
             "invalid_payload", "contradictory_log"}
Outcomes == Refusals \cup Faults \cup
  {"pending", "plan", "evidence", "output_error", "transport_error",
   "credential_rejected", "insufficient_credits"}

Init ==
  /\ call \in Calls
  /\ ctxDone = FALSE
  /\ pc = "start" /\ stdin = "open"
  /\ conn = "none" /\ session = 0
  /\ wire = <<>> /\ taken = 0
  /\ remaining = MaxResponseBytes
  /\ sub = NoSub /\ kept = <<>>
  /\ stdout = <<>> /\ outcome = "pending"

\* Mutant: only an accepted subscription is closed.
EndOpen(result) == pc' = "done" /\ outcome' = result /\ UNCHANGED conn

\* The command returns; the deferred Close ends an open connection.
End(result) ==
  /\ pc' = "done"
  /\ outcome' = result
  /\ conn' = IF conn = "open" THEN "closed" ELSE conn

-----------------------------------------------------------------------------
(* Before the network.                                                     *)

\* Mutant: the count has no upper limit.
AnyCount(n) == n >= 1

CountOk(n) == n >= 1 /\ n <= MaxSubscriptionCount

OptionsOk == call.chainOk /\ CountOk(call.count)

\* Without JSON a logs subscription has the filter of an empty object.
ParsesAsSubscription ==
  /\ call.subscription \in Subscriptions
  /\ IF call.subscription # "logs" THEN call.text = "none"
     ELSE /\ call.text # "garbage"
          /\ DOMAIN call.fields \subseteq {"address", "topics"}
          /\ ValidateConditions(call.fields)

\* What ends the command before the network, its text being known.
Refusal ==
  IF ~call.chainOk THEN "invalid_chain_id"
  ELSE IF ~CountOk(call.count) THEN "invalid_count"
  ELSE IF call.text = "oversized" THEN "invalid_json_input"
  ELSE IF ~ParsesAsSubscription THEN "invalid_subscription"
  ELSE IF ~call.baseOk THEN "invalid_transport_configuration"
  ELSE IF call.dryRun THEN "plan"
  ELSE IF ~call.keyOk THEN "credential_missing"
  ELSE "none"

\* From the text to the network, or to an end: of the plan, the output may fail.
Proceed ==
  \/ Refusal = "none" /\ pc' = "dial" /\ UNCHANGED <<conn, outcome>>
  \/ Refusal # "none" /\ End(Refusal)
  \/ Refusal = "plan" /\ End("output_error")

Start ==
  /\ pc = "start"
  /\ IF OptionsOk /\ call.piped THEN pc' = "stdin" /\ UNCHANGED <<conn, outcome>>
                                ELSE Proceed
  /\ UNCHANGED <<call, ctxDone, stdin, session, wire, reads, stdout>>

\* strictjson.Read stops one byte past its limit, and may fail; the context is
\* not consulted.
ReadInput ==
  /\ pc = "stdin" /\ stdin # "open"
  /\ \/ Proceed
     \/ End("invalid_json_input")
  /\ UNCHANGED <<call, ctxDone, stdin, session, wire, reads, stdout>>

DialError(status) ==
  CASE status \in {401, 403} -> "credential_rejected"
    [] status = 402          -> "insufficient_credits"
    [] OTHER                 -> "transport_error"

\* The handshake: accepted, refused with a status, or no answer at all.
Dial ==
  /\ pc = "dial"
  /\ \/ ~ctxDone /\ session' = 101 /\ conn' = "open" /\ pc' = "write"
        /\ UNCHANGED outcome
     \/ \E status \in {401, 402, 403, 429} : session' = status /\ End(DialError(status))
     \/ UNCHANGED session /\ End("transport_error")
  /\ UNCHANGED <<call, ctxDone, stdin, wire, reads, stdout>>

Write ==
  /\ pc = "write"
  /\ \/ pc' = "ack" /\ UNCHANGED <<conn, outcome>>
     \/ End("transport_error")
  /\ UNCHANGED <<call, ctxDone, stdin, session, wire, reads, stdout>>

-----------------------------------------------------------------------------
(* Reading.  A message larger than the limit is refused by the WebSocket     *)
(* library, whose error need not carry the status the client looks for.      *)

\* Mutant: a message that ends exactly at the limit is refused.
FitsBelow(m) == m.size < remaining

Fits(m) == m.size <= remaining

ReadFaults(m) ==
  IF m.frame = "tooBigClose" THEN {"response_too_large"}
  ELSE IF m.size > MaxResponseBytes THEN {"response_too_large", "transport_error"}
  ELSE IF m.frame # "text" THEN {"invalid_notification"}
  ELSE IF ~Fits(m) THEN {"response_too_large"}
  ELSE IF m.type = "garbage" THEN {"invalid_notification"}
  ELSE {}

\* Mutant: the bytes of the acknowledgement are not counted.
NotesOnly(m) == IF pc = "ack" THEN remaining ELSE remaining - m.size

Left(m) == remaining - m.size

AckFault(m) ==
  IF m.type # "response" \/ ~m.answers THEN "invalid_subscription_response"
  ELSE IF m.failed THEN "provider_error"
  ELSE IF m.sub = NoSub THEN "invalid_subscription_response"
  ELSE "none"

\* ValidateResult holds a log against the filter it was asked for.
MatchesFilter(payload) ==
  call.subscription = "logs" => Matches(call.fields, payload.address, payload.topics)

NoteFault(m) ==
  IF m.type # "notification" \/ m.sub = NoSub \/ m.sub # sub
    THEN "invalid_notification"
  ELSE IF ~m.payload.wellFormed THEN "invalid_payload"
  ELSE IF ~MatchesFilter(m.payload) THEN "contradictory_log"
  ELSE "none"

\* The next message is read; Accept(m) is what becomes of a sound one.
ReadNext(Fault(_), Accept(_)) ==
  /\ taken < Len(wire)
  /\ taken' = taken + 1
  /\ LET m == wire[taken + 1]
     IN  /\ remaining' = IF m.frame = "text" /\ m.size <= MaxResponseBytes
                           THEN Left(m) ELSE remaining
         /\ \/ \E e \in ReadFaults(m) : End(e) /\ UNCHANGED <<sub, kept>>
            \/ ReadFaults(m) = {} /\ Fault(m) # "none" /\ End(Fault(m))
               /\ UNCHANGED <<sub, kept>>
            \/ ReadFaults(m) = {} /\ Fault(m) = "none" /\ Accept(m)

Subscribed(m) ==
  /\ sub' = m.sub
  /\ pc' = "collect"
  /\ UNCHANGED <<conn, kept, outcome>>

\* Mutant: the loop ends one notification early.
EnoughEarly(n) == n + 1 >= call.count

Enough(n) == n >= call.count

\* The connection closes with the return of Subscribe, before the output.
Keep(m) ==
  /\ kept' = Append(kept, m)
  /\ IF Enough(Len(kept')) THEN pc' = "emit" /\ conn' = "closed"
                           ELSE UNCHANGED <<pc, conn>>
  /\ UNCHANGED <<sub, outcome>>

ReadAck ==
  /\ pc = "ack"
  /\ ReadNext(AckFault, Subscribed)
  /\ UNCHANGED <<call, ctxDone, stdin, session, wire, stdout>>

Collect ==
  /\ pc = "collect"
  /\ ReadNext(NoteFault, Keep)
  /\ UNCHANGED <<call, ctxDone, stdin, session, wire, stdout>>

\* The connection is lost, closed by the server, or ended by the context.
ReadFails ==
  /\ pc \in {"ack", "collect"}
  /\ End("transport_error")
  /\ UNCHANGED <<call, ctxDone, stdin, session, wire, reads, stdout>>

\* output.Write: everything in one write, or nothing when it passes the limit.
Emit ==
  /\ pc = "emit"
  /\ \/ stdout' = kept /\ End("evidence")
     \/ UNCHANGED stdout /\ End("output_error")
  /\ UNCHANGED <<call, ctxDone, stdin, session, wire, reads>>

-----------------------------------------------------------------------------
(* The environment.                                                        *)

\* The server sends what it likes, before or after the acknowledgement is due.
Push ==
  /\ conn = "open" /\ Len(wire) < MaxWire
  /\ \E m \in Messages : wire' = Append(wire, m)
  /\ UNCHANGED <<call, ctxDone, pc, stdin, link, reads, stdout, outcome>>

\* Standard input passes the limit, if its text does, or ends, in an error perhaps.
FeedInput ==
  /\ call.piped /\ stdin = "open"
  /\ stdin' = IF call.text = "oversized" THEN "full" ELSE "closed"
  /\ UNCHANGED <<call, ctxDone, pc, link, wire, reads, stdout, outcome>>

EndContext ==
  /\ ~ctxDone
  /\ ctxDone' = TRUE
  /\ UNCHANGED <<call, pc, stdin, link, wire, reads, stdout, outcome>>

Command == \/ Start \/ ReadInput \/ Dial \/ Write \/ ReadAck \/ Collect
           \/ ReadFails \/ Emit

Next == Command \/ Push \/ FeedInput \/ EndContext

(***************************************************************************)
(* The command runs, and what it prints is taken from it; the deadline passes, *)
(* and under a dead context no call of the library blocks.  Nothing is assumed *)
(* of the server, nor of standard input: ReadInput waits for FeedInput, which   *)
(* may never come.                                                           *)
(***************************************************************************)
Fairness ==
  /\ WF_vars(Start \/ ReadInput \/ Emit)
  /\ WF_vars(ctxDone /\ (Dial \/ Write \/ ReadAck \/ Collect \/ ReadFails))
  /\ WF_vars(EndContext)

Spec == Init /\ [][Next]_vars /\ Fairness

-----------------------------------------------------------------------------
(* Properties.                                                             *)

TypeOK ==
  /\ call \in Calls /\ ctxDone \in BOOLEAN
  /\ pc \in {"start", "stdin", "dial", "write", "ack", "collect", "emit", "done"}
  /\ stdin \in {"open", "full", "closed"}
  /\ conn \in {"none", "open", "closed"}
  /\ session \in {0, 101, 401, 402, 403, 429}
  /\ wire \in Seq(Messages) /\ taken \in 0 .. Len(wire)
  /\ remaining \in Int /\ remaining <= MaxResponseBytes
  /\ sub \in STRING \cup {NoSub}
  /\ kept \in Seq(Messages) /\ stdout \in Seq(Messages)
  /\ Len(kept) <= MaxSubscriptionCount
  /\ outcome \in Outcomes

\* An event of the subscription the first message acknowledged.
Acknowledged == Len(wire) > 0 /\ AckFault(wire[1]) = "none"
IsEvent(m)   == /\ m.type = "notification" /\ m.sub = wire[1].sub
                /\ m.payload.wellFormed
                /\ call.subscription = "logs" =>
                     IsWithin(call.fields, m.payload.address, m.payload.topics)

\* The notifications kept are what followed the acknowledgement on the wire,
\* none skipped and none of another subscription or outside the filter, and
\* never more of them than asked for.
KeptIsTheStream ==
  /\ kept # <<>> => Acknowledged
  /\ \A i \in 1 .. Len(kept) : kept[i] = wire[i + 1] /\ IsEvent(kept[i])
  /\ pc \in {"collect", "emit"} => taken = Len(kept) + 1
  /\ pc = "emit" => Len(kept) = call.count

\* Of everything read on the connection, the acknowledgement included, the
\* bytes accepted stay within the limit of one response.
Sizes    == [i \in DOMAIN wire |-> wire[i].size]
Bytes(n) == Sums(Sizes)[n]
BudgetIsTotal ==
  pc \in {"collect", "emit"} \/ outcome = "evidence" =>
    Bytes(Len(kept) + 1) <= MaxResponseBytes

\* A server that acknowledges first, then sends events only, all within the
\* limit to the byte, is never accused of anything.
Honest ==
  /\ Acknowledged
  /\ \A i \in 1 .. Len(wire) :
       wire[i].frame = "text" /\ (i > 1 => IsEvent(wire[i]))
  /\ Bytes(Len(wire)) <= MaxResponseBytes
NoFalseAccusation == Honest => outcome \notin Faults

\* The connection is closed before anything is printed, and by every return
\* after the handshake, so that no return leaves the subscription running.
NothingLeftOpen == pc \in {"emit", "done"} => conn # "open"

(***************************************************************************)
(* The command implements Delivery: the feed is what the acknowledged       *)
(* subscription has published on the wire; the question is asked when what     *)
(* --json names has been given, to its end or past its limit.                *)
(***************************************************************************)
Events == {m \in Messages : IsEvent(m)}
Feed   == IF Acknowledged THEN Picked(wire, Events)[Len(wire)] ELSE <<>>

Promise == INSTANCE Delivery WITH
  Events <- Messages, count <- call.count, asked <- (~call.piped \/ stdin # "open"),
  feed <- Feed, printed <- stdout, ended <- (pc = "done")

\* The command keeps the promise of Delivery, whatever the server sends: the
\* first `count` events or none, never before its input is known; and, if
\* standard input that it reads ends or passes its limit, an end.
KeepsPromise == Promise!Spec

=============================================================================
