----------------------------- MODULE LogFilter -----------------------------
(***************************************************************************)
(* The conditions of a log filter, as JSON: what the logs and the subscribe   *)
(* command accept of them (src/internal/evidence/filter.go) and which values  *)
(* they match (src/internal/evidence/subscription.go).                       *)
(*                                                                         *)
(* A text stands for all of its spellings in small and capital letters; a     *)
(* "quantity" is a string that spells a number as evm.Quantity does, of any    *)
(* width, and "other" any value that is no string, null or array.            *)
(***************************************************************************)
EXTENDS Integers, Sequences

CONSTANTS Addresses, Topics   \* texts of 20 and of 32 bytes

ASSUME FilterAssumption == Addresses \subseteq STRING /\ Topics \subseteq STRING

MaxTopics == 4

Json(kind, text, number, items) ==
  [kind |-> kind, text |-> text, number |-> number, items |-> items]
Text(t)     == Json("text", t, 0, <<>>)
Quantity(n) == Json("quantity", "", n, <<>>)
List(items) == Json("array", "", 0, items)
Null        == Json("null", "", 0, <<>>)
Other       == Json("other", "", 0, <<>>)

-----------------------------------------------------------------------------
ValidateAddress(value) == value.kind = "text" /\ value.text \in Addresses
ValidateTopic(value)   == value.kind = "text" /\ value.text \in Topics

\* An array of addresses has at least one, and no null among them.
ValidateAddresses(value) ==
  \/ ValidateAddress(value)
  \/ /\ value.kind = "array" /\ value.items # <<>>
     /\ \A i \in DOMAIN value.items : ValidateAddress(value.items[i])

Alternatives(value) ==
  /\ value.kind = "array" /\ value.items # <<>>
  /\ \A i \in DOMAIN value.items :
       value.items[i].kind = "null" \/ ValidateTopic(value.items[i])

\* A position holds a topic, null, or alternatives, null among them.
ValidateTopics(value) ==
  /\ value.kind = "array" /\ Len(value.items) <= MaxTopics
  /\ \A i \in DOMAIN value.items :
       \/ value.items[i].kind = "null"
       \/ ValidateTopic(value.items[i])
       \/ Alternatives(value.items[i])

\* The conditions among the fields of a JSON object.
ValidateConditions(fields) ==
  /\ "address" \in DOMAIN fields => ValidateAddresses(fields["address"])
  /\ "topics" \in DOMAIN fields => ValidateTopics(fields["topics"])

-----------------------------------------------------------------------------
\* matchesLogValue on a value that was validated: alternatives hold no arrays.
MatchesOne(value, actual) ==
  value.kind = "null" \/ (value.kind = "text" /\ value.text = actual)

MatchesLogValue(value, actual) ==
  \/ MatchesOne(value, actual)
  \/ /\ value.kind = "array"
     /\ \E i \in DOMAIN value.items : MatchesOne(value.items[i], actual)

\* Mutant: positions past the topics of a log are not looked at.
MatchesShared(fields, address, topics) ==
  /\ "address" \in DOMAIN fields => MatchesLogValue(fields["address"], address)
  /\ "topics" \in DOMAIN fields =>
       \A i \in DOMAIN fields["topics"].items \cap DOMAIN topics :
         MatchesLogValue(fields["topics"].items[i], topics[i])

\* A log matches in its address and in every position of the filter.
Matches(fields, address, topics) ==
  /\ "address" \in DOMAIN fields => MatchesLogValue(fields["address"], address)
  /\ "topics" \in DOMAIN fields =>
       \A i \in DOMAIN fields["topics"].items :
         i \in DOMAIN topics /\ MatchesLogValue(fields["topics"].items[i], topics[i])

-----------------------------------------------------------------------------
(* The meaning of a filter, for comparison: at each position the values it    *)
(* admits among all there are.                                              *)

Admits(value, all) ==
  IF value.kind = "text" THEN {value.text}
  ELSE IF value.kind = "array" /\ \A i \in DOMAIN value.items : value.items[i].kind = "text"
    THEN {value.items[i].text : i \in DOMAIN value.items}
  ELSE all

IsWithin(fields, address, topics) ==
  /\ "address" \in DOMAIN fields => address \in Admits(fields["address"], Addresses)
  /\ "topics" \in DOMAIN fields =>
       /\ DOMAIN fields["topics"].items \subseteq DOMAIN topics
       /\ \A i \in DOMAIN fields["topics"].items :
            topics[i] \in Admits(fields["topics"].items[i], Topics)

=============================================================================
