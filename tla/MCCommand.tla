----------------------------- MODULE MCCommand -----------------------------
(* Instances of Command for TLC.                                           *)
EXTENDS Command

Num(v, m) == [kind |-> "number", value |-> v, minus |-> m]
Str(v)    == [kind |-> "string", value |-> v, minus |-> FALSE]
Req(id, method) == [id |-> id, method |-> method, wellFormed |-> TRUE]

OneRequest(r) == [kind |-> "object", requests |-> <<r>>]
Batch(rs) == [kind |-> "array", requests |-> rs]
NoText    == [kind |-> "garbage", requests |-> <<>>]

\* Zero twice in two spellings, a number and a string of the same digits, a
\* write behind a read, a malformed request, batches that are empty or too long.
MCTexts ==
  {NoText, [NoText EXCEPT !.kind = "oversized"],
   OneRequest(Req(Num(0, FALSE), "read")), OneRequest(Req(Str(0), "write")),
   Batch(<<Req(Num(0, FALSE), "read"), Req(Num(0, TRUE), "read")>>),
   Batch(<<Req(Num(1, FALSE), "read"), Req(Num(1, TRUE), "read")>>),
   Batch(<<Req(Num(1, FALSE), "read"), Req(Str(1), "write")>>),
   Batch(<<[Req(Num(1, FALSE), "read") EXCEPT !.wellFormed = FALSE]>>),
   Batch(<<>>),
   Batch([i \in 1 .. MaxBatchRequests + 1 |-> Req(Num(i, FALSE), "read")])}

-----------------------------------------------------------------------------
(* What is printed: names with tildes, slashes and digits; tokens that spell  *)
(* them and others.                                                        *)

Tricky == Node("object",
  [n \in {<<>>, <<"~">>, <<"/">>, <<"~", "1">>, <<"0">>, <<"+", "1">>, <<"a">>} |->
     IF n = <<"a">> THEN List(<<Scalar, Scalar>>) ELSE Scalar])

MCAnswers == {Tricky, List(<<Tricky, Scalar>>), Leaf("huge")}

Tokens == {<<>>, <<"a">>, <<"~">>, <<"~0">>, <<"~1">>, <<"~0", "1">>, <<"0">>, <<"1">>,
           <<"0", "1">>, <<"1", "0">>, <<"+">>, <<"+", "1">>, <<"-", "0">>, <<"-", "1">>,
           <<"+", "0", "1">>}

Ptr(tokens) == [rooted |-> TRUE, tokens |-> tokens]
Unrooted    == [rooted |-> FALSE, tokens |-> <<<<"a">>>>]

Out(format, pretty, pointers, maxBytes) ==
  [format |-> format, pretty |-> pretty, pointers |-> pointers, maxBytes |-> maxBytes]
Plain == Out("json", FALSE, <<>>, 100)

OneOrTwo == {<<s>> : s \in Tokens} \cup {<<s, t>> : s, t \in Tokens}
Names    == {<<>>, <<"result">>, <<"result", "a">>, <<"0", "id">>, <<"routes">>, <<"routes", "0">>,
             <<"commands", "0">>, <<"defs", "rpc">>, <<"0", "name">>, <<"name">>, <<"chain_id">>,
             <<"error", "code">>, <<"input_modes", "0">>, <<"anyOf", "1", "ref">>}
Plainly(names) == Ptr([i \in DOMAIN names |-> <<names[i]>>])

Deep == {Out("json", FALSE, <<Ptr(<<<<"paths">>>> \o tokens)>>, 100) : tokens \in OneOrTwo}
Wide == {Out(format, FALSE, <<Plainly(names)>>, 100) : format \in {"json", "ndjson"}, names \in Names}
        \cup {Out(format, pretty, pointers, maxBytes) :
                format \in {"json", "ndjson"}, pretty \in BOOLEAN,
                pointers \in {<<>>, <<Unrooted>>, <<Ptr(<<>>), Plainly(<<"chain_id">>)>>},
                maxBytes \in {0, 7, 14, 100}}

Select(commands, texts, paths, outputs) ==
  [command : commands, usageOk : {TRUE}, chain : {Decimal(1)}, key : {"environment"},
   allowWrite : {TRUE}, dryRun : {FALSE}, input : {"argument"}, text : texts,
   path : paths, output : outputs]

Selections ==
  Select({"openapi"}, {NoText}, {<<>>}, Deep)
    \cup Select({"ping", "chains", "health"}, {NoText}, {<<>>}, Wide)
    \cup Select({"schema"}, {NoText},
                {<<>>, <<<<"rpc">>>>, <<<<"auth", "clear">>>>, <<<<"auth">>, <<"clear">>>>,
                 <<<<"auth">>>>}, Wide)
    \cup Select({"rpc"}, {OneRequest(Req(Num(0, FALSE), "write")),
                          Batch(<<Req(Num(1, FALSE), "read"), Req(Str(1), "read")>>)},
                {<<>>}, Wide)

Rpc == [command : {"rpc"}, usageOk : {TRUE}, chain : {Decimal(1)},
        key : {"none", "environment", "keychain"}, allowWrite : BOOLEAN, dryRun : BOOLEAN,
        input : {"argument", "stdin"}, text : MCTexts, path : {<<>>}, output : {Plain}]
Bad == [command : {"rpc"}, usageOk : BOOLEAN, chain : {Decimal(1), Of("string")},
        key : {"environment"}, allowWrite : {TRUE}, dryRun : {FALSE}, input : {"none", "conflict"},
        text : {NoText}, path : {<<>>}, output : {Plain}]
Others == [command : Public \cup Offline \cup {"ping"}, usageOk : {TRUE},
           chain : {Decimal(n) : n \in 0 .. Words} \cup {Of("string")}, key : {"none", "keychain"}, allowWrite : {FALSE}, dryRun : {FALSE}, input : {"none"},
           text : {NoText}, path : {<<>>}, output : {Plain}]
MCInvocations == Rpc \cup Bad \cup Others \cup Selections

-----------------------------------------------------------------------------
(* The answers of the public API and of ping: right, wrong in one place, and   *)
(* numbers at, past and around the largest unsigned integer.                 *)

Numbers == {Decimal(n) : n \in {0, 1, Words - 1, Words, Words + 1}}
Listed(id, name) == [chain_id |-> id, name |-> name]
Rightly(id) == Listed(id, Of("string"))

HealthBodies ==
  {Response([success |-> success, message |-> message]) :
     success \in {Of("true"), Of("false"), Of("string")}, message \in {Of("string"), Of("other")}}
  \cup {Response([success |-> Of("true"), message |-> Of("string"), state |-> Of("other")])}

OpenAPIBodies ==
  {Response([openapi |-> version, paths |-> paths]) :
     version \in {Of("string"), Of("other")}, paths \in {Of("object"), Of("other")}}
  \cup {Response([openapi |-> Of("string")])}

ChainsBodies ==
  {Listing(<<>>), Listing(<<<<>>>>), Listing(<<Listed(Decimal(1), Of("other"))>>),
   Listing(<<Rightly(Of("string"))>>), Listing(<<Rightly(Hex(1))>>),
   Listing(<<[chain_id |-> Decimal(1), name |-> Of("string"), transport |-> Of("string")]>>)}
  \cup {Listing(<<Rightly(a), Rightly(b)>>) : a, b \in Numbers}
  \cup {Listing(<<Rightly(Decimal(3)), Rightly(Decimal(1)), Rightly(Decimal(2))>>),
        Listing(<<Rightly(Decimal(2)), Rightly(Decimal(1)), Rightly(Decimal(2))>>)}

PingBodies ==
  {Listing(<<[result |-> chain], [result |-> block]>>) :
     chain \in {Hex(n) : n \in 0 .. Words + 1} \cup {Decimal(1), Of("other")},
     block \in {Hex(0), Hex(Words), Decimal(1), Of("other")}}

MCBodies(command) ==
  CASE command = "health"  -> HealthBodies \cup {Listing(<<>>)}
    [] command = "chains"  -> ChainsBodies \cup {Response(<<>>)}
    [] command = "openapi" -> OpenAPIBodies \cup {Listing(<<>>)}
    [] command = "ping"    -> PingBodies
    [] OTHER               -> {}

-----------------------------------------------------------------------------
(* What the program says of its deadline and does not hold.                *)

\* internal/app/cli.go:30: --timeout is the "Overall command timeout."  The read
\* of standard input does not look at the context.
TimeoutIsOverall == <>(pc = "done")

=============================================================================
