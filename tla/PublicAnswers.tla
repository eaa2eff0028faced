--------------------------- MODULE PublicAnswers ---------------------------
(***************************************************************************)
(* What the commands hold against the answers of the public API and of ping *)
(* (src/internal/app/commands_network.go, commands_schema_auth.go), and the   *)
(* chain IDs on both sides (src/internal/evm/value.go).                       *)
(*                                                                         *)
(* A JSON value is known by its kind: "decimal" and "quantity" are strings     *)
(* that spell a number canonically, a positive one in decimal or any in hex,   *)
(* of any width; "string" is any other string.  An item that is no object has *)
(* no fields.                                                               *)
(***************************************************************************)
EXTENDS Integers, Sequences

CONSTANT Words   \* how many values an unsigned integer has (2^64 in the build)

Json == [kind : {"decimal", "quantity", "string", "true", "false", "object", "other"},
         number : Nat]

Of(kind)   == [kind |-> kind, number |-> 0]
Decimal(n) == [kind |-> "decimal", number |-> n]
Hex(n)     == [kind |-> "quantity", number |-> n]

Response(fields) == [kind |-> "object", fields |-> fields, items |-> <<>>]
Listing(items)   == [kind |-> "array", fields |-> <<>>, items |-> items]
NoBody           == [kind |-> "none", fields |-> <<>>, items |-> <<>>]

-----------------------------------------------------------------------------
IsString(value) == value.kind \in {"decimal", "quantity", "string"}

ParsesAsChainID(value)     == value.kind = "decimal" /\ value.number \in 1 .. Words - 1
ParsesAsBigQuantity(value) == value.kind = "quantity"

AcceptsHealth(body) ==
  /\ body.kind = "object" /\ DOMAIN body.fields = {"success", "message"}
  /\ body.fields["success"].kind \in {"true", "false"}
  /\ IsString(body.fields["message"])

AcceptsOpenAPI(body) ==
  /\ body.kind = "object" /\ {"openapi", "paths"} \subseteq DOMAIN body.fields
  /\ IsString(body.fields["openapi"]) /\ body.fields["paths"].kind = "object"

AcceptsChain(item) ==
  /\ DOMAIN item = {"chain_id", "name"}
  /\ ParsesAsChainID(item["chain_id"]) /\ IsString(item["name"])

\* Two items with one number contradict each other.
AcceptsChains(body) ==
  /\ body.kind = "array" /\ \A i \in DOMAIN body.items : AcceptsChain(body.items[i])
  /\ \A i, j \in DOMAIN body.items :
       body.items[i]["chain_id"].number = body.items[j]["chain_id"].number => i = j

\* sort.Slice: the positions of the items, in the order of their numbers.
Order(items) ==
  CHOOSE p \in [DOMAIN items -> DOMAIN items] :
    \A i, j \in DOMAIN items : i < j =>
      p[i] # p[j] /\ items[p[i]]["chain_id"].number <= items[p[j]]["chain_id"].number

\* The chains in the order of their numbers.
Catalog(body) ==
  LET order == Order(body.items)
  IN [i \in DOMAIN body.items |-> body.items[order[i]]]

\* What a response to one request of ping holds.
SingleResult(response) == response["result"]

\* Mutant: the chain a node names is cut to the width of the one asked for.
AcceptsPingWord(chain, body) ==
  /\ \A i \in 1 .. 2 : ParsesAsBigQuantity(SingleResult(body.items[i]))
  /\ SingleResult(body.items[1]).number % Words = chain.number

\* The results of eth_chainId, of any width, and of eth_blockNumber; the call
\* has seen to it that there are two.
AcceptsPing(chain, body) ==
  /\ \A i \in 1 .. 2 : ParsesAsBigQuantity(SingleResult(body.items[i]))
  /\ SingleResult(body.items[1]).number = chain.number

=============================================================================
