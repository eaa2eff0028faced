------------------------------ MODULE Command ------------------------------
(***************************************************************************)
(* One invocation of the program, from the command line to the exit code     *)
(* (Execute in src/internal/app/cli.go), for the commands of                 *)
(* src/internal/app/commands_network.go and for schema api: standard input,  *)
(* the request, the credential, the call, the output and the verdict.  The    *)
(* call is a composition with RpcContract, which RpcClient implements; a GET  *)
(* of the public API is such a call without retries.  What is printed is       *)
(* composed of Documents and Output, what an answer is held against is in      *)
(* PublicAnswers.                                                            *)
(***************************************************************************)
EXTENDS Documents, PublicAnswers

CONSTANTS
  Invocations,        \* command lines, with what standard input will hold
  Answers,            \* values of results and OpenAPI paths, as trees
  Bodies(_),          \* what a command of the public API, or ping, is answered
  MaxBatchRequests,
  ReadLimit, WriteLimit   \* exchanges of a read and of a write

(***************************************************************************)
(* "help" is --help, "openapi" is schema api, "schema" is any other schema    *)
(* command, with the words of its path.  "key" is the source that holds a      *)
(* credential.                                                              *)
(*                                                                         *)
(* A request has an id, is a read or a write (IsWriteMethod), and may be     *)
(* malformed in itself.  The id of a request is a string or a number; a      *)
(* number may be spelled with a minus sign, zero included.  A text over the   *)
(* input limit is "oversized"; "garbage" is no JSON that can be a request.    *)
(***************************************************************************)
Id      == [kind : {"string", "number"}, value : Nat, minus : BOOLEAN]
Request == [id : Id, method : {"read", "write"}, wellFormed : BOOLEAN]
Text    == [kind : {"oversized", "garbage", "object", "array"},
            requests : Seq(Request)]
Public  == {"health", "chains", "openapi"}
Offline == {"help", "schema"}
Invocation == [command : Public \cup Offline \cup {"ping", "rpc"}, usageOk : BOOLEAN,
               chain : Json, allowWrite : BOOLEAN,
               key : {"none", "environment", "keychain"},
               dryRun : BOOLEAN, input : {"none", "argument", "stdin", "conflict"},
               text : Text, path : Seq(Seq(STRING)), output : Config]

ASSUME CommandAssumption ==
  /\ Invocations \subseteq Invocation
  /\ \A v \in Invocations :
       /\ v.text.kind = "object" => Len(v.text.requests) = 1
       /\ v.command # "rpc" => ~v.dryRun
  /\ \A a \in Answers : IsTree(a)
  /\ \A b \in Bodies("chains") : b.items \in Seq({b.items[i] : i \in DOMAIN b.items})
  /\ MaxBatchRequests \in Nat /\ MaxBatchRequests >= 2 /\ Words \in Nat
  /\ ReadLimit \in Nat /\ WriteLimit \in Nat

VARIABLES
  argv, ctxDone, pc,
  stdin,       \* "open", "full" when it holds more than the limit, "closed"
  envelope,    \* the requests of the call
  limit, rounds, effects, phase,   \* the call, see RpcContract
  reply, body, \* the verdict on the answer, once it is there, and what it holds
  document,    \* what the command wants to print
  encoded,     \* what it can: record by record, the nodes selected
  stdout, exit

vars == <<argv, ctxDone, pc, stdin, envelope, limit, rounds, effects, phase,
          reply, body, document, encoded, stdout, exit>>
callVars  == <<limit, rounds, effects, phase>>
printVars == <<document, encoded>>

Call == INSTANCE RpcContract

Running == -1
Exits   == {0, 2, 3, 4, 5, 6}

NoDocument == Whole(<<>>)
Refused    == [ok |-> FALSE, records |-> <<>>]

Init ==
  /\ argv \in Invocations /\ ctxDone = FALSE
  /\ pc = "parse"
  /\ stdin = "open"
  /\ envelope = <<>>
  /\ limit = 0 /\ rounds = 0 /\ effects = 0 /\ phase = "idle"
  /\ reply = "none" /\ body = NoBody /\ document = NoDocument /\ encoded = Refused
  /\ stdout = "empty" /\ exit = Running

End(code) == pc' = "done" /\ exit' = code
Goto(place) == pc' = place /\ UNCHANGED exit

-----------------------------------------------------------------------------
(* The request.                                                            *)

\* Mutant: ids are compared as they are spelled.
SpelledKey(id) == id

\* idKey: a number is compared by its value, so that 0 and -0 are one id.
IdKey(id) == <<id.kind, IF id.minus THEN -id.value ELSE id.value>>

\* Mutant: a batch has no upper limit.
AnyLength(n) == n >= 1

LengthOk(n) == n >= 1 /\ n <= MaxBatchRequests

\* jsonrpc.ParseRaw, and Generated for a text given as METHOD and --params.
ParsesAsRequest(text) ==
  /\ \A i \in DOMAIN text.requests : text.requests[i].wellFormed
  /\ \/ text.kind = "object"
     \/ /\ text.kind = "array" /\ LengthOk(Len(text.requests))
        /\ \A i, j \in DOMAIN text.requests :
             IdKey(text.requests[i].id) = IdKey(text.requests[j].id) => i = j

\* Mutant: only the first request of a batch is looked at.
FirstIsWrite(requests) == requests # <<>> /\ requests[1].method = "write"

HasWrite(requests) == \E i \in DOMAIN requests : requests[i].method = "write"

\* eth_chainId and eth_blockNumber, the batch of ping.
Reading(n)  == [id |-> [kind |-> "number", value |-> n, minus |-> FALSE],
                method |-> "read", wellFormed |-> TRUE]
PingRequests == <<Reading(1), Reading(2)>>

(***************************************************************************)
(* The call starts with its envelope: a GET and a write have one exchange.  *)
(***************************************************************************)
StartCall(requests) ==
  /\ envelope' = requests
  /\ limit' = IF argv.command \in Public \/ HasWrite(requests) THEN WriteLimit
                                                               ELSE ReadLimit
  /\ Goto("call")
  /\ UNCHANGED <<rounds, effects, phase>>

Stop(code) == End(code) /\ UNCHANGED <<envelope, callVars>>

\* The Keychain is a subprocess under the command's context, and may fail.
Authenticated(requests) ==
  \/ /\ argv.key = "environment" \/ (argv.key = "keychain" /\ ~ctxDone)
     /\ StartCall(requests)
  \/ argv.key # "environment" /\ Stop(3)

\* RPCCmd.Run from the text of its request: parse, consent, plan, credential.
Take(text) ==
  IF ~ParsesAsRequest(text) THEN Stop(2)
  ELSE IF HasWrite(text.requests) /\ ~argv.allowWrite THEN Stop(2)
  ELSE IF argv.dryRun THEN Goto("emit") /\ UNCHANGED <<envelope, callVars>>
  ELSE Authenticated(text.requests)

-----------------------------------------------------------------------------
(* Before the call.                                                        *)

\* kong, which prints help itself, the timeout, the output options.
Parse ==
  /\ pc = "parse"
  /\ IF argv.usageOk /\ argv.command = "help"
     THEN \/ End(0) /\ stdout' = "document"
          \/ End(2) /\ stdout' \in {"empty", "partial"}
     ELSE /\ IF argv.usageOk /\ Validate(argv.output) THEN Goto("run") ELSE End(2)
          /\ UNCHANGED stdout
  /\ UNCHANGED <<argv, ctxDone, stdin, envelope, callVars, reply, body, printVars>>

Run ==
  /\ pc = "run"
  /\ \/ argv.command \in Public /\ StartCall(<<>>)
     \/ /\ argv.command = "schema"
        /\ IF argv.path = <<>> \/ Described(argv.path) THEN Goto("emit") ELSE End(2)
        /\ UNCHANGED <<envelope, callVars>>
     \/ /\ argv.command = "ping"
        /\ IF ~ParsesAsChainID(argv.chain) THEN Stop(2)
           ELSE Authenticated(PingRequests)
     \/ /\ argv.command = "rpc"
        /\ IF ~ParsesAsChainID(argv.chain) \/ argv.input \in {"none", "conflict"} THEN Stop(2)
           ELSE IF argv.input = "stdin"
             THEN Goto("stdin") /\ UNCHANGED <<envelope, callVars>>
           ELSE Take(argv.text)
  /\ UNCHANGED <<argv, ctxDone, stdin, reply, body, printVars, stdout>>

\* Mutant: the whole of standard input is read before its size is looked at.
InputEnded == stdin = "closed"

\* strictjson.Read stops one byte past its limit; the context is not consulted.
InputRead == stdin # "open"

ReadInput ==
  /\ pc = "stdin"
  /\ InputRead
  /\ \/ Take(argv.text)
     \/ Stop(2)               \* the read itself fails
  /\ UNCHANGED <<argv, ctxDone, stdin, reply, body, printVars, stdout>>

-----------------------------------------------------------------------------
(* The call: the steps of RpcContract under the command's context.           *)

Exchange ==
  /\ pc = "call" /\ ~ctxDone
  /\ Call!Exchange
  /\ UNCHANGED <<argv, ctxDone, pc, stdin, envelope, reply, body, printVars, stdout, exit>>

Pause ==
  /\ pc = "call"
  /\ Call!Pause
  /\ UNCHANGED <<argv, ctxDone, pc, stdin, envelope, reply, body, printVars, stdout, exit>>

\* A call without an answer: a rejected key, a lost exchange, useless evidence.
FailureCodes == IF argv.command \in Public THEN {4, 6} ELSE {3, 4, 6}

CallFails ==
  /\ pc = "call"
  /\ Call!Conclude /\ phase' = "failed"
  /\ \E code \in FailureCodes : End(code)
  /\ UNCHANGED <<argv, ctxDone, stdin, envelope, reply, body, printVars, stdout>>

Accepts(b) ==
  IF argv.command = "health" THEN AcceptsHealth(b)
  ELSE IF argv.command = "chains" THEN AcceptsChains(b)
  ELSE IF argv.command = "openapi" THEN AcceptsOpenAPI(b)
  ELSE AcceptsPing(argv.chain, b)

\* "odd": an answer the command does not accept; "unready": health says no.
Verdict(b) ==
  IF ~Accepts(b) THEN "odd"
  ELSE IF argv.command = "health" /\ b.fields["success"].kind = "false" THEN "unready"
  ELSE "good"

\* "final": a JSON-RPC error.
Replies ==
  IF argv.command = "rpc" THEN {<<"good", NoBody>>, <<"final", NoBody>>}
  ELSE {<<Verdict(b), b>> : b \in Bodies(argv.command)}
         \cup (IF argv.command = "ping" THEN {<<"final", NoBody>>} ELSE {})

\* Mutant: ping prints a JSON-RPC error, as rpc does.
BeforeOutputLax(r) == IF r = "odd" THEN 6 ELSE 0

\* What the command holds against an answer before it prints it.
BeforeOutput(r) ==
  IF r = "odd" THEN 6
  ELSE IF r = "final" /\ argv.command = "ping" THEN 5 ELSE 0

CallAnswers ==
  /\ pc = "call"
  /\ Call!Conclude /\ phase' = "answered"
  /\ \E r \in Replies :
       /\ reply' = r[1] /\ body' = r[2]
       /\ IF BeforeOutput(r[1]) = 0 THEN Goto("emit") ELSE End(BeforeOutput(r[1]))
  /\ UNCHANGED <<argv, ctxDone, stdin, envelope, printVars, stdout>>

-----------------------------------------------------------------------------
(* The output and the verdict.                                             *)

\* What the command holds against an answer it has printed.
AfterOutput(r) == IF r = "final" THEN 5 ELSE IF r = "unready" THEN 6 ELSE 0

\* The items of an answer, of which a JSON-RPC error makes it final.
Items == {items \in [DOMAIN envelope -> {Failed} \cup {Result(answer) : answer \in Answers}] :
            reply = "final" <=> \E i \in DOMAIN items : items[i] = Failed}

ToPrint ==
  IF argv.dryRun THEN {Whole(Plan(argv.text.requests, argv.text.kind = "array"))}
  ELSE IF argv.command = "schema"
    THEN {Whole(IF argv.path = <<>> THEN Index ELSE Detail(argv.path))}
  ELSE IF argv.command = "health" THEN {Whole(Health)}
  ELSE IF argv.command = "chains" THEN {Rows([i \in DOMAIN Catalog(body) |-> Chain])}
  ELSE IF argv.command = "openapi"
    THEN {Whole(OpenAPI(paths)) : paths \in {a \in Answers : a[<<>>] = "object"}}
  ELSE IF argv.command = "ping" THEN {Whole(Ping)}
  ELSE {IF argv.text.kind = "array" THEN Rows(items) ELSE Whole(items[1]) : items \in Items}

(***************************************************************************)
(* emitContract: the document is validated, selected from and measured before *)
(* a byte of it is written; the write itself may fail anywhere.               *)
(***************************************************************************)
Emit ==
  /\ pc = "emit"
  /\ \E d \in ToPrint :
       /\ document' = d
       /\ IF Conforms(d) /\ CanEncode(argv.output, d)
          THEN /\ encoded' = [ok |-> TRUE, records |-> Selected(argv.output, d)]
               /\ \/ stdout' = "document" /\ End(AfterOutput(reply))
                  \/ stdout' \in {"empty", "partial"} /\ End(2)
          ELSE encoded' = Refused /\ UNCHANGED stdout /\ End(2)
  /\ UNCHANGED <<argv, ctxDone, stdin, envelope, callVars, reply, body>>

-----------------------------------------------------------------------------
(* The world.                                                              *)

\* Standard input passes the limit, if its text does, or ends.
Feed ==
  /\ stdin = "open"
  /\ stdin' = IF argv.text.kind = "oversized" THEN "full" ELSE "closed"
  /\ UNCHANGED <<argv, ctxDone, pc, envelope, callVars, reply, body, printVars, stdout, exit>>

\* The provider executes late, also when the process is gone.
Execute ==
  /\ Call!Effect
  /\ UNCHANGED <<argv, ctxDone, pc, stdin, envelope, reply, body, printVars, stdout, exit>>

\* The deadline, an interrupt or a termination signal.
EndContext ==
  /\ ~ctxDone
  /\ ctxDone' = TRUE
  /\ UNCHANGED <<argv, pc, stdin, envelope, callVars, reply, body, printVars, stdout, exit>>

Process == \/ Parse \/ Run \/ ReadInput \/ Exchange \/ Pause \/ CallFails
           \/ CallAnswers \/ Emit

Next == Process \/ Feed \/ Execute \/ EndContext

(***************************************************************************)
(* The process runs and its output is drained; the deadline passes; under a  *)
(* dead context the call ends (Terminates of RpcClient).  Nothing is assumed  *)
(* of standard input.                                                        *)
(***************************************************************************)
Fairness ==
  /\ WF_vars(Parse \/ Run \/ ReadInput \/ Emit)
  /\ WF_vars(ctxDone /\ CallFails)
  /\ WF_vars(EndContext)

Spec == Init /\ [][Next]_vars /\ Fairness

-----------------------------------------------------------------------------
(* Properties.                                                             *)

PrintedOK ==
  /\ document = NoDocument \/ document \in ToPrint
  /\ encoded # Refused => encoded = [ok |-> TRUE, records |-> Selected(argv.output, document)]

TypeOK ==
  /\ argv \in Invocations /\ ctxDone \in BOOLEAN
  /\ pc \in {"parse", "run", "stdin", "call", "emit", "done"}
  /\ stdin \in {"open", "full", "closed"}
  /\ envelope \in Seq(Request) /\ Len(envelope) <= MaxBatchRequests
  /\ limit \in {0, ReadLimit, WriteLimit}
  /\ rounds \in 0 .. limit /\ effects \in 0 .. rounds
  /\ phase \in {"idle", "exchange", "pause"} \cup Call!Final
  /\ reply \in {"none", "good", "final", "unready", "odd"}
  /\ body = NoBody \/ body \in Bodies(argv.command)
  /\ PrintedOK
  /\ stdout \in {"empty", "partial", "document"}
  /\ exit \in Exits \cup {Running}

\* A command whose request holds a write, wherever in a batch, has no exchange
\* without --allow-write and at most one with it, however late the provider
\* executes; a dry run has none.
ConsentFirst ==
  /\ rounds > 0 => ~argv.dryRun
  /\ argv.command = "rpc" /\ (\E i \in DOMAIN argv.text.requests :
                                argv.text.requests[i].method = "write")
       => effects <= IF argv.allowWrite THEN WriteLimit ELSE 0

\* No two requests that were sent together have ids a provider holds for equal.
IdsDiffer ==
  \A i, j \in DOMAIN envelope :
    (i # j /\ envelope[i].id.kind = envelope[j].id.kind
           /\ envelope[i].id.value = envelope[j].id.value)
      => envelope[i].id.minus # envelope[j].id.minus /\ envelope[i].id.value # 0

\* The exit code and stdout tell one story: success has printed its document;
\* an error of the provider is exit 5 with the reply on stdout for rpc alone;
\* a document under another exit code is health's "not ready"; and a document
\* that could not be printed is never a success.  (Of the other commands, only
\* init has a case of its own: see Begin of Credentials.)
ExitMatchesOutput ==
  pc = "done" =>
    /\ exit = 0 => /\ stdout = "document"
                   /\ reply = "good" \/ argv.dryRun \/ argv.command \in Offline
    /\ exit = 5 => reply = "final" /\ (stdout = "document" <=> argv.command = "rpc")
    /\ stdout = "document" /\ exit # 0 =>
         \/ exit = 5 /\ argv.command = "rpc"
         \/ exit = 6 /\ argv.command = "health" /\ reply = "unready"
    /\ stdout = "partial" => exit = 2

\* What is printed of an answer is true of it: chains lists every chain it was
\* told of once, by rising number, each under an ID that any command accepts;
\* ping names the chain that the node itself named, not one that only looks
\* like it in a machine word.
AnswersAreVouchedFor ==
  stdout = "document" =>
    /\ argv.command = "chains" =>
         LET listed == Catalog(body) IN
         /\ {listed[i] : i \in DOMAIN listed} = {body.items[i] : i \in DOMAIN body.items}
         /\ \A i \in DOMAIN listed :
              /\ ParsesAsChainID(listed[i]["chain_id"])
              /\ i > 1 => listed[i - 1]["chain_id"].number < listed[i]["chain_id"].number
    /\ argv.command = "ping" =>
         body.items[1]["result"].number = argv.chain.number

(***************************************************************************)
(* --select is RFC 6901 but for two things: an array index may have a sign,   *)
(* and nothing inside a value the program made itself (a list of its own      *)
(* strings or structs) can be named.  So a node that is printed is the one    *)
(* its pointer spells, sign apart; and a document is refused only because of  *)
(* a number the catalog cannot read, the limit, or a pointer that spells no   *)
(* node of some record, or one inside of such a value.                        *)
(***************************************************************************)
SelectionIsByName ==
  document # NoDocument =>
    LET records  == Records(argv.output, document)
        pointers == Wanted(argv.output)
    IN IF encoded.ok
       THEN /\ DOMAIN encoded.records = DOMAIN records
            /\ \A i \in DOMAIN records, j \in DOMAIN pointers :
                 /\ encoded.records[i][j] \in DOMAIN records[i]
                 /\ Open(records[i], encoded.records[i][j])
                 /\ SpeltUpToSign(records[i], encoded.records[i][j], pointers[j])
       ELSE \/ \E p \in DOMAIN document.tree : document.tree[p] = "huge"
            \/ \E i \in DOMAIN records, j \in DOMAIN pointers :
                 ~\E p \in DOMAIN records[i] :
                    Rfc6901(p) = pointers[j] /\ Open(records[i], p)
            \/ ~(EncodedLen(argv.output, document) <= argv.output.maxBytes)

\* With standard input at its end or past its limit, the command ends, whatever
\* the provider does, once its deadline passes.
EndsWithInput == <>(stdin # "open") => <>(pc = "done")

=============================================================================
