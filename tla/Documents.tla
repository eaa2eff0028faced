----------------------------- MODULE Documents ------------------------------
(***************************************************************************)
(* What the commands of Command print, as trees of Output, and the catalog    *)
(* the program carries (src/internal/schema/schema.go).  The words of a name  *)
(* are joined by "-" in the catalog and by blanks on the command line.        *)
(***************************************************************************)
EXTENDS Output

Scalar == Leaf("scalar")
Fields(kind, part) == Node(kind, [n \in {<<f>> : f \in DOMAIN part} |-> part[n[1]]])
Object(part) == Fields("object", part)
Array(kind, items) ==
  Node(kind, [n \in {ElementName[i - 1] : i \in DOMAIN items} |-> items[Number(n) + 1]])
List(items)  == Array("array", items)

\* A document with records is encoded one by one in NDJSON.
Whole(tree) == [tree |-> tree, records |-> FALSE]
Rows(items) == [tree |-> List(items), records |-> TRUE]

-----------------------------------------------------------------------------
(* The catalog.                                                            *)

CatalogNames ==
  {<<"schema">>, <<"init">>, <<"auth", "status">>, <<"auth", "clear">>, <<"health">>,
   <<"chains">>, <<"subscribe">>, <<"ping">>, <<"rpc">>, <<"logs">>, <<"receipt">>}

Joined(path) ==
  LET upTo[i \in 0 .. Len(path)] == IF i = 0 THEN <<>> ELSE upTo[i - 1] \o path[i]
  IN upTo[Len(path)]

\* Detail finds a command under its words, however they are joined.
Described(path) == Joined(path) \in CatalogNames

\* Index: the entries are structs, one a command; one stands for all.
Index ==
  Object([schema_draft |-> Scalar,
          commands |-> Array("typed",
            <<Fields("typed", [name |-> Scalar, schema_command |-> Scalar])>>)])

Definition(field) ==
  IF field # "jsonrpc_request" THEN Leaf("object")
  ELSE Object([type |-> Scalar, properties |-> Leaf("object"),
               required |-> Array("typed", <<Scalar, Scalar>>)])

DefinitionNames(path) ==
  {"input", "output", "stderr_event", "dry_run", "exit_codes"}
    \cup (IF Joined(path) = <<"rpc">> THEN {"jsonrpc_request"} ELSE {})

\* Detail, without the keys that are a line of text and the prefixes of the others.
Detail(path) ==
  Object([title |-> Scalar, anyOf |-> List(<<Object([ref |-> Scalar]), Object([ref |-> Scalar])>>),
          defs |-> Object([field \in DefinitionNames(path) |-> Definition(field)]),
          input_modes |-> Array("typed", <<Scalar>>),
          output_formats |-> Array("typed", <<Scalar, Scalar>>)])

\* ValidateDefinition decodes the document again, its numbers as float64.  The
\* commands have held their answers against what the catalog says of them.
Conforms(document) == \A p \in DOMAIN document.tree : document.tree[p] # "huge"

-----------------------------------------------------------------------------
(* The documents of the commands, from the answers they print.               *)

Health == Object([ready |-> Scalar, message |-> Scalar, latency_ms |-> Scalar])
Chain  == Object([chain_id |-> Scalar, name |-> Scalar])
Ping   == Object([chain_id |-> Scalar, block_number |-> Scalar, block_number_hex |-> Scalar,
                  latency_ms |-> Scalar, routes |-> Array("typed", <<Scalar, Scalar>>)])
OpenAPI(paths) == Object([openapi |-> Scalar, paths |-> paths])

\* Envelope.Value, and the plan of a dry run.
Sent == Object([id |-> Scalar, jsonrpc |-> Scalar, method |-> Scalar, params |-> List(<<>>)])
Value(requests, batch) == IF batch THEN List([i \in DOMAIN requests |-> Sent]) ELSE Sent

Plan(requests, batch) ==
  Object([dry_run |-> Scalar, chain_id |-> Scalar, destination |-> Scalar,
          side_effect |-> Scalar, request |-> Value(requests, batch),
          retry |-> Object([eligible |-> Scalar, max_attempts |-> Scalar])])

Result(answer) == Object([jsonrpc |-> Scalar, id |-> Scalar, result |-> answer])
Failed ==
  Object([jsonrpc |-> Scalar, id |-> Scalar,
          error |-> Object([code |-> Scalar, message |-> Scalar])])

=============================================================================
