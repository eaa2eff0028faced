# routemesh-cli in TLA+

Specifications of [routemesh-cli](../src), a Go command line client for JSON-RPC over the RouteMesh
load balancer: what the modules model, what TLC checks on small instances, what TLAPS proves for
every value of the constants, and what is left out.

## 1. Inventory

One invocation of the program runs one command, prints one document (or NDJSON records) on stdout,
diagnostics on stderr, and exits with a documented code. It is sequential; the hard behaviours come
from the world around it: a load balancer whose nodes fail, hang, answer late or contradict one
another, a blockchain that reorganises between two calls, a WebSocket server that sends what it
likes, a context that ends at any moment, and other invocations that share one Keychain item.

| Component | Source (`src/internal`) | State it keeps | Operations | What makes it correct |
| --- | --- | --- | --- | --- |
| RPC call and retries | `transport/transport.go`, `response.go` | attempt, bound on attempts, retry delay, diagnostics | `DoRPC`, `rpcAttempt`, `validateResponse`, `retryDelay`, `parseRetryAfter`, `sleepContext` | writes never repeated; reads at most three times, two after `-32009`; answers matched to requests; delays bounded; the call ends |
| Log evidence | `evidence/logs.go`, `filter.go`, `app/commands_evidence.go` | filter, upper block, loop position, first checkpoint, logs | `ParseLogFilter`, `ForChunk`, `CollectLogs`, `Chunks`, `ChunkCount`, `validateLog`, `Records`, dry run | every block asked for once, with the whole filter; logs ordered; one chain |
| Receipt evidence | `evidence/receipt.go`, `app/commands_evidence.go` | transaction, receipt, header | `CollectReceipt`, `matchingReceipt`, validators | three answers tell one story; fallback finds the one receipt |
| Subscriptions | `transport/websocket.go`, `jsonrpc/subscription.go`, `evidence/subscription.go`, `app/commands_subscribe.go` | connection, byte budget, subscription id, notifications | `ParseSubscription`, `Subscribe`, `readSocketJSON`, `ValidateResult` | the first `count` events or nothing; byte budget total; connection closed |
| Envelopes | `jsonrpc/request.go` | none | `ParseRaw`, `Batch`, `HasWrite`, `EqualID` | unique ids; writes recognised |
| EVM values, strict JSON | `evm/value.go`, `strictjson/strictjson.go` | none | parsers | bounded and unambiguous |
| Command execution | `app/cli.go`, `commands_network.go`, `failure/failure.go`, `cmd/routemesh/main.go` | context, exit code | `Execute`, `emit`, `rpc`, `health`, `chains`, `ping` | stdout is all or nothing; exit code tells what happened; `--timeout` ends the command |
| Credentials | `auth/keychain.go`, `prompt.go`, `app/commands_schema_auth.go` | the Keychain item (shared by processes) | `Resolve`, `init`, `auth status`, `auth clear` | environment first; only confirmed keys stored; a stored key is probed |
| Output | `output/output.go` | none | `Encode`, `Resolve`, `Write` | RFC 6901 pointers; limit; nothing partial |
| Schema catalog, help | `schema/`, `app/banner.go` | static data | `Index`, `Detail`, `ValidateDefinition` | agrees with the program; a document that was accepted is not refused after the call |

Interactions: a command resolves the credential, builds an envelope, and calls `DoRPC` (`rpc`,
`ping`, `init`: once; `logs` and `receipt`: a sequence of calls, each with its own retries) or
`Subscribe`. `DoRPC` reports each response through the diagnostic callback before it judges the
body. All of it runs under one context, cancelled by the deadline or a signal.

## 2. Modules

| Module | Models | Correspondence |
| --- | --- | --- |
| `RetryPolicy` | the waiting rules of `transport.go` | pure operators; `RetryDelays`, `HttpDelays` give the *set* of delays the jitter can draw; `Signed` is the wrap of `time.Duration` |
| `RpcClient` | one `DoRPC` | `pc` is the position in the loop: `Begin`/`Refuse` (checks), `Send` (`httpClient.Do`), `DoFails`, `Headers` (diagnostics), `ReadBody` (body, judgement, decision), `Tick`/`Wake`/`SleepCancelled` (`sleepContext`); `Execute` and `EndContext` are the world |
| `RpcContract` | what a call promises, with no HTTP | refined by `RpcClient` (`Contract`, `KeepsContract`) |
| `LogFilter` | the addresses and topics of a filter | pure operators on JSON values: what `ParseLogFilter` and `ParseSubscription` accept (`ValidateConditions`), and which values match (`Matches`); `IsWithin` is what a filter means, for comparison |
| `LogSweep` | `logs` and its dry run, from the command line to the output | `Start` (options, `ParseLogFilter`, credential), `Plan`, `Begin`, `Resolve` (`eth_blockNumber`), `Before`, `Chunk` (one turn of the loop), `After`, `CallFails`, `Emit`; `Reorg` is the chain, whose head moves on (`Continues`) or which changes its fork; answers are those of the node's fork or an odd one. `steady` and `honest` are history |
| `ReceiptEvidence` | `receipt` | `Start`, `GetTransaction`, `GetReceipt`, `GetBlockReceipts`, `GetBlock`, `CallFails`; `Reorg` |
| `Subscription` | `subscribe` with `Client.Subscribe`, from the command line to the output | `Start` (options), `ReadInput` (`rawInput`, when `--json` is `-`), `Proceed` (the end of either: kind and filter, plan, credential), `Dial`, `Write`, `ReadAck`, `Collect` (with `MatchesFilter`), `ReadFails`, `Emit`; `Push`, `FeedInput` and `EndContext` are the world |
| `Delivery` | what `subscribe` promises | refined by `Subscription` (`Promise`, `KeepsPromise`); `Safety` is the promise without its last part, that the command ends once it has been told what to subscribe to |
| `Prefixes` | sums and selections along the prefixes of a sequence | recursive functions; `Subscription` counts its bytes (`Sums`) and its events (`Picked`) with them |
| `Output` | `output.go` | pure operators on trees: `Resolve` (`decodeToken`, `arrayIndex`), `Validate`, `Records`, `Selected`, `CanEncode`; `Reached` says where the tokens of a pointer lead, one after another; `ElementName` is the numeral of an index, of any length; `IsTree` says what decoded JSON is; `Rfc6901` spells the pointer of a node, and `SpeltUpToSign` allows the sign of an index, for comparison. Sizes are counted in nodes |
| `Documents` | what the commands print, as trees of `Output`; the names of the catalog | one operator per document; the kind of a node is what Go's type switch sees of it |
| `PublicAnswers` | what `health`, `chains`, `schema api` and `ping` hold against their answers; chain IDs | pure operators on JSON values, which are known by their kind and, for strings that spell a number, by that number at any width: `ParseChainID`, the checks of each `Run`, the order of the chains (`Order`, what `sort.Slice` does) |
| `Command` | one invocation of `help`, `schema`, `health`, `chains`, `ping`, `rpc`, from argv to exit code | `Parse` (`Execute` up to `parsed.Run`), `Run`, `ReadInput` (`rawInput`), `Take` (`ParseRaw`, consent, dry run), `Authenticated` (`auth.Resolve`), then the steps of `RpcContract` as its call, `CallFails`, `CallAnswers` (with `Verdict`, from `PublicAnswers`), `Emit` (`emitContract`: the schema check, `Output`, the write); `Feed`, `Execute`, `EndContext` are the world |
| `Credentials` | `init`, `auth status`, `auth clear` and the resolution of a credential (`use`), by several processes over one Keychain item | `Begin` (checks, dry runs, `Resolve`), `Prompt` (`ReadAPIKeyInteractive`), `Add`, `Get`, `Delete` (the subprocesses of `keychain.go`, each of which may have its effect and be reported as failed), `Probe` (`DoRPC` and the verdict); `EndContext`. `original`, `held`, `disturbed` are history |
| `*Proofs` | theorems of the module they extend; `PrefixProofs` and `OutputProofs` are about operators alone | section 5 |
| `MC*` | instances for TLC, and the claims of documents that the code does not keep | section 3 |

Each log or receipt call is one step: between `DoRPC` and its caller only the final answer or an
error passes, and that `DoRPC` gives one of these is what `RpcContract` states and `RpcClient` is
checked for. History variables (`exhausted`, `executed`, `listed`, `asked`, `honest`, `steady`) decide nothing
in any action.

A data abstraction is the same everywhere: a hash, an address or a key is a name; a malformed value
is one name for all malformed values; a message has a size and the features the validators test.

## 3. What is checked

| Run | Asks | Shows |
| --- | --- | --- |
| `rpc_call` | `TypeOK`, `WriteAtMostOnce`, `ExhaustedCap`, `AnswersAreKept`, `EvidenceMatchesCall`, `DiagnosticsComplete`, `SleepBounded`, `HonoursRetryAfter`, `Terminates`, `KeepsContract` | one call with every combination of status, header, body and failure at each attempt |
| `logs_sweep` | `TypeOK`, `RangeIsCovered`, `CountIsExact`, `LogsAreOrdered`, `StableChainIsExact`, `OneReorgIsSeen`, `StartRises` | the command with filters of every kind: sweeps and plans up to the largest block number, over a chain whose head moves on and a fork of it |
| `subscribe` | `TypeOK`, `KeptIsTheStream`, `BudgetIsTotal`, `NoFalseAccusation`, `NothingLeftOpen`, `KeepsPromise` | every kind of subscription, with and without filter, on the command line and on standard input; any four messages in any order, before and after the acknowledgement |
| `receipt` | `TypeOK`, `EvidenceAgrees`, `ReceiptIsTrue`, `RecoveryIsUnique`, `MinedIsFound` | a transaction that moves between three blocks and the pool |
| `command` | `TypeOK`, `ConsentFirst`, `IdsDiffer`, `ExitMatchesOutput`, `SelectionIsByName`, `AnswersAreVouchedFor`, `EndsWithInput` | every kind of request text, command line, selection and answer of the public API against every course of a call, of the input and of the context |
| `credentials` | `TypeOK`, `KeychainIsAsAsked`, `InitProvesItsKey`, `ReportsWereTrue`, `PrecedenceHolds` | two invocations of any kind interleaved on one Keychain and killed at any point |
| `rpc_attempt_event` | `AttemptEventSchema` | violated: a third `request_attempt` event, the catalog allows two |
| `rpc_server_retry_after` | `HonoursEveryRetryAfter` | violated: server errors ignore `Retry-After` |
| `rpc_retry_after_overflow` | `OverlongBacksOff` | violated: the product with a second wraps |
| `logs_canonical` | `CanonicalEvidence` | violated: a fork that comes and goes between the checkpoints |
| `logs_plan_fits` | `PlanFits` | violated: the count of the whole range, one block a chunk, wraps to 0 |
| `command_timeout` | `TimeoutIsOverall` | violated: standard input that never ends outlasts the deadline |

### Bounds, and why they are enough

- `rpc_call`: single requests and batches of two (the smallest batch with a mixed reply); the codes
  stand for the classes `retryDelay` tells apart; a `Duration` of 64 values and a second of 4 ticks
  let the product wrap below zero and into the allowed range; the base delays keep the order of the
  code's. No bound on the attempts: the code's own three.
- `logs_sweep`: `Blocks = 8`: a three-bit word, so that ranges end at the largest number, wrap if the
  code lets them, and have partial last chunks; three states of the chain, `early`, `main`, which is
  `early` two blocks later, and `side`, which parts from both at block 2; `MaxReorgs = 2`, the
  smallest number that hides a fork from both checkpoints. Two addresses and two topics, in
  filters with null positions, alternatives, null among alternatives, and positions past a log's last
  topic; every kind of filter that is refused; logs that differ in address, topics and position.
- `subscribe`: `MaxWire = 4` messages allow an acknowledgement, two events and one too many;
  `MaxResponseBytes = 4` lets streams end below, at and above the budget; the counts -1, 0, the
  maximum and one more; a filter, no text, garbage and too much of it, each as an argument and on
  standard input; logs that match a filter, miss it by address, by a topic or by too few topics.
- `receipt`: four forks (same number and different block, different number, pending) and
  `MaxReorgs = 3`, one between every two calls.
- `command`: `MaxBatchRequests = 2` with batches of none, one, two and three requests; request texts
  that hold zero twice in two spellings, one number twice, a number and a string of the same digits,
  and a write behind a read; `ReadLimit = 3` and `WriteLimit = 1` are the code's. Documents with the
  names `~`, `/`, `~1`, `0`, `+1` and the empty one; pointers of one or two tokens out of all
  spellings of these and of signed, padded and half-escaped ones; one, two and no pointers, both
  formats, output limits of 0, 7, 14 and 100 nodes, on either side of the sizes of the
  documents. `Words = 4`: chain IDs of 0, 1, the largest of a word, and one and two past it, on the
  command line, in catalogs of up to three chains with repetitions, and in the answer to `ping`, where
  the last agrees with 1 in its low bits; every field of an answer right, wrong and missing.
- `credentials`: two processes, as a property fails between a process and one rival (the theorems hold
  for any number); keys that work, work once trimmed, do not work or are blank; prompts confirmed,
  mistyped, empty and cut short; every item at the start, and a machine without a Keychain.

`CHECK_DEADLOCK FALSE`: each command ends.

### Fairness

- `RpcClient`: the deadline passes (`WF(EndContext)`: `context.WithTimeout` in `cli.go`), the
  process runs and its timer advances, and under a dead context `net/http` returns. Nothing is
  assumed of the provider, and no fairness lets an answer arrive.
- `Subscription`: the same, with the WebSocket library's reads and writes under the context. Nothing
  is assumed of the server, and nothing of standard input: `rawInput` does not look at the context, so
  that `subscribe logs --json -` waits in `ReadInput` until its input ends or passes the limit, also
  past the deadline (finding 6). The promise of `Delivery` is restricted accordingly: it ends *if* it is
  told in full what to subscribe to (`<>asked => <>ended`). Without that condition it is false of the
  code and of the model.
- `Command`: the process runs and its output is drained (`WF` of its own steps), the deadline passes,
  and under a dead context the call ends (`Terminates` of `RpcClient`). Nothing is assumed of
  standard input.
- `Credentials` states safety only: the prompt of `init` waits for its user without regard to the
  context.
- `LogSweep` and `ReceiptEvidence` state safety only; that each of their calls ends is `Terminates`
  of `RpcClient`, and that the sweep takes finitely many calls follows from `StartRises`. Before its
  first call `logs --json -` may wait for its input like `subscribe`; `Start` of `LogSweep` is the step
  in which it has it.

## 4. Findings

1. `schema/catalog.json:22` bounds the attempt of a `request_attempt` event by 2; reads make 3.
2. `README.md:197` says that valid `Retry-After` delays are honoured; for `-32603`, `-32000` and
   `-32009` the header is not read.
3. A `Retry-After` of about 1.8e10 seconds and more overflows `time.Duration` and is then slept as a
   short, zero or negative delay.
4. `evidence/logs.go:272` marks evidence `canonical`; logs of a fork that came and went between the
   checkpoints pass, also at the upper block, as no log's `blockHash` is compared with it.
5. `evidence/filter.go:132` wraps to 0 for the range of all blocks in chunks of one, so that the
   guard against oversized dry-run plans passes and the plan is built.
6. `app/cli.go:30` calls `--timeout` the "Overall command timeout."; `rawInput`
   (`app/commands_network.go:234`) reads standard input without the context, so that with `--json -`
   an input that never ends outlasts the deadline and, as `main.go` turns signals into the end of
   that context, also an interrupt. The run shows it of `rpc`; `logs` and `subscribe` read their input
   with the same function.

Noted without a run: `README.md:36` says that Keychain itself prompts for the secret; the program
prompts (`auth/prompt.go`) and hands the line to the tool. `init` reports `active_source: keychain`
also when the environment holds a key that ordinary commands would prefer, and `init --dry-run` without
a Keychain prints its plan and then exits 3 (the report `dry_failed` of `Credentials`). `README.md:68` and
`app/cli.go:28` call a selection an RFC 6901 pointer: indexes such as `+1` and `-0`, which the RFC does
not have, are read as well (the RFC's own pointers all work, `SelectionIsByName`), but the parts of a
value that is printed from a Go type rather than from decoded JSON (`routes` of `ping`, the entries of
the schema index, `checkpoints` of `logs`) cannot be entered. A number that `float64` cannot hold, such
as `1e999`, passes the JSON parser and is refused by the schema check, after the call is over. The
`logs` command, unlike `subscribe`, never holds a log it was sent against the filter's addresses and
topics: `StableChainIsExact` therefore speaks of honest nodes.

## 5. What is proved

For every value of the constants that satisfies the module's named assumption:

| Module | Theorem | Argument |
| --- | --- | --- |
| `RpcClientProofs` | `TypeCorrect`, `WriteIsExecutedAtMostOnce`, `ExhaustionCapsTheAttempts` | `IInv` ties `sent`, `attempt` and `maxAttempts` to `pc`, fixes `maxAttempts` for a write, and says that an exhausted call is at or past its lowered bound. Without it `executed <= 1` is not inductive: nothing would keep a second `Send` out |
| | `NoAnswerIsDiscarded`, `EvidenceIsTheAnswer`, `DiagnosticsTellAll` | `Told` says what is known of the last reply where the call sleeps or is done, and of the record of diagnostics everywhere; the lemmas under it say what `Judgement` and `validateResponse` guarantee of the items |
| | `SleepsAreBounded`, `RetryAfterIsHonoured` | a step into the sleep draws from `HttpDelays` or `RetryDelays`; lemmas bound both sets, and `SignedKeeps` says that a delay within the range of `time.Duration` is kept as it is, the others are not |
| | `ImplementsTheContract` | the safety of `KeepsContract`: each step of the call is, under its mapping, a step of `RpcContract` or a stutter, `IInv` supplying the bound on attempts |
| `LogSweepProofs` | `TypeCorrect`, `ChunksCoverTheRange`, `AcceptedLogsAreOrdered`, `TheLoopAdvances` | `IInv` holds `start <= upper` while a chunk is due, and adjacency up to the last chunk: then `ChunkEnd` and the successor of a chunk cannot wrap although they are computed modulo `Blocks` |
| | `TheCountIsExact` | `Paced`: every planned chunk but the last has the full size, so that the plan's length is the quotient of the range |
| | `ChunksAddUp`, `OneReorgDoesNotMix` | `Gathered`: after honest answers and mild changes (at most one, or any number that only add blocks at the head), the logs are those of the present fork up to the last chunk asked for, if that fork shows the first checkpoint's hash, which a chain that only grew does. A change keeps this, as a fork that shows the hash agrees with its predecessor on everything asked so far, and a longer chain shows every hash of the shorter one; a range is the concatenation of its chunks. From `ChainAssumption`: each log in its place and order, ranges concatenate, a block's hash fixes the logs up to it |
| `SubscriptionProofs` | `TypeCorrect`, `NotificationsAreTheStream`, `ConnectionIsClosed` | `IInv` relates what was read (`taken`) to what was kept: `Len(kept) + 1` messages, the first the acknowledgement that fixed `sub` |
| | `LedgerInvariance`, `BudgetHolds`, `HonestIsNotAccused` | `Ledger`: until the end, what remains of the budget is the limit less the bytes of the messages read, and not negative; a fault means that the server was not honest. Without the first part neither is inductive: a message that was within `remaining` says nothing about the total. The sum is over the prefix of the wire that was read, and `SumsAlong`, `SumsRise` and `SumsAgree` say that a further message adds its size and leaves the earlier sums alone |
| | `ImplementsDelivery` | the safety of `KeepsPromise`: the feed of `Delivery` is what `Picked` takes from the wire after the acknowledgement. A `Push` publishes an event or stutters, `FeedInput` asks, `Emit` delivers, every other end fails; `Heard` says that nothing is under way before a piped input has been read; `PickedRun` says that what was kept, an unbroken run of events, is the beginning of the feed |
| `ReceiptEvidenceProofs` | `TypeCorrect`, `EvidenceIsOneStory`, `RecoveredReceiptIsUnique` | `IInv` says that past each call the value held has passed its validator against the transaction |
| | `ReceiptIsOfTheChain`, `MinedIsNotRefused` | `Truth` says that after honest answers the transaction and the receipt are each of some fork, and the block hash they agree on makes it one; `Still` says that on a chain that stands still the transaction is the present fork's and nothing is found faulty. Both use `ChainAssumption`: a block's hash fixes its contents |
| `CommandProofs` | `WritesNeedConsent`, `EnvelopeIdsDiffer`, `ExitTellsTheOutput` | `IInv` says that nothing has happened before the call (`Early`), that the envelope of a call is the text consent was given for (`Consented`), and that an answer about to be printed has passed its command's judgement (`Judged`). `ConsentFirst` speaks of the text and of late executions, so it needs all three |
| | `VouchedInvariance`, `PrintedIsVouchedFor` | `Vouched`: the answer `chains` or `ping` is about to print, or has printed, is one its checks accepted. That `chains` prints it whole and in order needs that `Order` denotes something: `SortingExists` builds a sorting permutation by induction on the number of items, `PermutationCovers` says that it leaves none out, and that numbers differ makes the order strict |
| | `ChosenInvariance`, `SelectionSpellsNames` | `Chosen`: at the output the options are valid and the envelope is the text's; the document is made of trees, and what was encoded is what `Output` makes of it. The property then is `PointersAreNames`, record by record and pointer by pointer |
| `OutputProofs` | `PointersAreNames` | for every tree and every pointer, of any depth: a pointer leads only to nodes that it spells, the sign of an index apart, and never through a value of the program's own types; the pointer that spells a node leads there. By induction along the tokens. For names it needs that the escapes are inverse to their decoding, for indexes that an index without leading zeros is the numeral of its number (`ElementNameIsIndex`, `IndexIsElementName`), by induction on the number and along the digits. The other lemmas say that every document the commands print is a tree, and so is each of its records |
| `CredentialsProofs` | `KeychainHoldsWhatWasAsked`, `InitIsAProof`, `ReportsAreTrue`, `EnvironmentComesFirst` | `IInv` says process by process what it has passed to be where it is, that a running process has seen the present item, and that the item an undisturbed `init` goes on to read is the one it stored. The steps of one process touch another only through the item: `Bystander` says that they leave it sane |

Each module of a component also has `Invariance` (`Spec => []IInv`), from which its theorems follow.
`CommandProofs` and `CredentialsProofs` also state `TypeCorrect`.

Induction. The library's induction theorems take an operator as a parameter, which the installed
provers cannot instantiate. `PrefixProofs` therefore proves induction for *sets* of numbers
(`NatSetInduction`: a set that holds 0 and with each number the next holds them all, by the
pigeonhole principle from the library's facts on finite sets) and with it
that a recursive function along `0 .. n` exists and satisfies its equations (`RecursionAlong`). Sums,
selections, numerals and the walk of a pointer are functions of that form, so that what they compute
is proved for sequences of every length. No module that is reached from a proof declares a
`RECURSIVE` operator.

Assumptions. Each theorem rests on the named assumptions of its module and on nothing else; TLC
evaluates all of them in every run. Most give constants their types. Those that say more:

- `CommandAssumption`: an answer is a tree (`IsTree`: a node's parent is an object, an array or a
  value of the program's own types; the parts of an array have indexes), as is everything
  `encoding/json` decodes; the body that `chains` decodes is an array; a text that is one object
  holds one request; only `rpc` has `--dry-run`, among the commands of the module.
- `ChainAssumption` (`LogSweep`, `ReceiptEvidence`): a block's hash fixes its contents and its
  ancestors; honest logs lie in their range, in order, and the logs of a range are those of its parts.
- `SubscriptionAssumption`: what `validateLog` accepts has an address and topics.
- In `Output`, a token holds no slash: `strings.Split` has cut the pointer at each of them.

Model-checked only: liveness, as `ENABLED` and fairness are out of the prover's reach. These are
`Terminates`, `EndsWithInput`, and the liveness in `KeepsContract` and `KeepsPromise`, whose safety is
proved. Every invariant and every action property that a passing run checks is a theorem.

## 6. What is not modelled

- The text of JSON, hex and URLs: parsers without state between calls. The strict JSON parser (its
  depth and duplicate keys) is one verdict, `garbage`; a log's fields other than its position, address
  and topics are one verdict, `wellFormed`.
- Redirects: `net/http` follows them inside one `Do`, so that an exchange of the model is a `Do`.
  `WriteAtMostOnce` is about the requests `DoRPC` makes; it assumes that a server that redirects a
  request has not executed it.
- `transport_error` for an unusable base URL of RPC calls: the base is a constant of the build.
- The JSON Schema of each field in the catalog, which is static data: of the validation of a document
  `Documents` keeps what is left to refuse in one whose command has checked its fields. The help banner.
- The two encodings of log evidence: JSON and NDJSON hold the same records. In `ReceiptEvidence` the
  write of the output, which `Command`, `LogSweep` and `Subscription` have as a step.
- `--version`, which the option parser prints itself; the death of the process by `SIGPIPE` when the
  reader of stdout is gone: there is no exit code then.
- In `Command`, the recognition of a write by its name is a property of the method; `--transport` of
  `chains`, which only chooses between two URLs.
- Changes of the Keychain item by other programs; what the `security` tool itself does with the line
  it is given.

## 7. Plan

Done: `RetryPolicy`, `RpcClient`, `RpcContract`; `LogFilter`, `LogSweep`; `Delivery`, `Subscription`;
`ReceiptEvidence`; `Output`, `Documents`, `PublicAnswers`, `Command`; `Credentials`; their proofs, the
implementation of `RpcContract` and of `Delivery` among them.

Next, in this order:

1. The strict JSON parser as a function of a sequence of tokens: depth, duplicate keys, trailing text.
2. That the plan a dry run of `logs` prints names the calls that the sweep of the same command line
   then makes, and that the call inside of `Command` implements the safety of `RpcContract`, as theorems.
