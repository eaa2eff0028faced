------------------------------- MODULE Output -------------------------------
(***************************************************************************)
(* Selecting from a document, encoding it and measuring it, before any byte *)
(* of it is written (src/internal/output/output.go).                         *)
(*                                                                         *)
(* A tree is a function from the paths of its nodes to their kinds, a path  *)
(* is a sequence of names, and the elements of an array have the names "0",  *)
(* "1" and so on.  The kind is what Go's type switch sees: "object" is a      *)
(* map[string]any, "array" a []any, "typed" any other value with parts (a    *)
(* []string, a struct), "huge" a number float64 cannot hold.                 *)
(*                                                                         *)
(* A name is a sequence of letters: "~", "/", "+", "-", a digit, or a string   *)
(* that stands for a run of other characters.  A pointer is its text split   *)
(* at the slashes: "rooted" says whether it is empty or starts with one, and  *)
(* in its tokens "~0" and "~1" are the two escapes and "~" any other tilde.   *)
(***************************************************************************)
EXTENDS Integers, Sequences, FiniteSets

Kinds   == {"object", "array", "typed", "scalar", "huge"}
Token   == Seq(STRING \ {"/"})
Pointer == [rooted : BOOLEAN, tokens : Seq(Token)]
Config  == [format : {"json", "ndjson"}, pretty : BOOLEAN, pointers : Seq(Pointer),
            maxBytes : Int]

Leaf(kind) == [p \in {<<>>} |-> kind]

\* The tree whose root has the given parts.
Node(kind, parts) ==
  [p \in {<<>>} \cup UNION {{<<n>> \o q : q \in DOMAIN parts[n]} : n \in DOMAIN parts}
     |-> IF p = <<>> THEN kind ELSE parts[Head(p)][Tail(p)]]

Below(tree, p) == {q \in DOMAIN tree : Len(q) >= Len(p) /\ SubSeq(q, 1, Len(p)) = p}
Parts(tree, p) == {q \in Below(tree, p) : Len(q) = Len(p) + 1}

SubTree(tree, p) ==
  [q \in {SubSeq(q, Len(p) + 1, Len(q)) : q \in Below(tree, p)} |-> tree[p \o q]]

-----------------------------------------------------------------------------
(* Names that are numbers.                                                  *)

Digits == <<"0", "1", "2", "3", "4", "5", "6", "7", "8", "9">>
Signs  == {"+", "-"}

DigitAt(name, i) == (CHOOSE d \in DOMAIN Digits : Digits[d] = name[i]) - 1

IsNumber(name) ==
  /\ name # <<>>
  /\ \A i \in DOMAIN name : \E d \in DOMAIN Digits : name[i] = Digits[d]

\* Leading(name)[i] is the number that the first i digits of a name spell.
Leading(name) ==
  LET upTo[i \in 0 .. Len(name)] ==
        IF i = 0 THEN 0 ELSE 10 * upTo[i - 1] + DigitAt(name, i)
  IN upTo

Number(name) == Leading(name)[Len(name)]

\* The name of the element with index n.
ElementName[n \in Nat] ==
  IF n < 10 THEN <<Digits[n + 1]>>
  ELSE Append(ElementName[n \div 10], Digits[(n % 10) + 1])

IsIndex(name) == IsNumber(name) /\ (Len(name) > 1 => name[1] # "0")

(***************************************************************************)
(* The escapes are letters of tokens alone.  Every part of a tree is part of  *)
(* an object, an array or a typed value, and the parts of an array have       *)
(* indexes for names.                                                        *)
(***************************************************************************)
IsSequence(s) == s \in Seq({s[i] : i \in DOMAIN s})
IsName(name)  == IsSequence(name) /\ \A i \in DOMAIN name : name[i] \notin {"~0", "~1"}

IsTree(tree) ==
  /\ <<>> \in DOMAIN tree
  /\ \A p \in DOMAIN tree : IsSequence(p)
  /\ \A p \in DOMAIN tree : \A k \in 1 .. Len(p) :
       LET parent == SubSeq(p, 1, k - 1) IN
       /\ parent \in DOMAIN tree /\ tree[parent] \in {"object", "array", "typed"}
       /\ IsName(p[k])
       /\ tree[parent] = "array" => IsIndex(p[k])

-----------------------------------------------------------------------------
(* Pointers.                                                               *)

\* strconv.Atoi reads a sign, also before zero and before more zeros.
Signed(name) == Len(name) > 1 /\ name[1] \in Signs /\ IsNumber(Tail(name))

Atoi(name) == IF ~Signed(name) THEN Number(name)
              ELSE IF name[1] = "-" THEN -Number(Tail(name)) ELSE Number(Tail(name))

\* decodeToken, for a token that has no tilde outside of an escape.
Decodes(token) == \A i \in DOMAIN token : token[i] # "~"

DecodeToken(token) ==
  [i \in DOMAIN token |-> IF token[i] = "~0" THEN "~"
                          ELSE IF token[i] = "~1" THEN "/" ELSE token[i]]

\* Mutant: leading zeros are not looked for.
AnyIndex(name) == IsNumber(name) \/ Signed(name)

ArrayIndex(name) ==
  /\ IsNumber(name) \/ Signed(name)
  /\ Len(name) > 1 => name[1] # "0"

\* The node that a token leads to from p: none, or one.
Enter(tree, p, token) ==
  LET name == DecodeToken(token) IN
  IF ~Decodes(token) THEN {}
  ELSE IF tree[p] = "object" THEN {Append(p, name)} \cap DOMAIN tree
  ELSE IF tree[p] = "array" /\ ArrayIndex(name)
    THEN {q \in Parts(tree, p) : Number(q[Len(q)]) = Atoi(name)}
  ELSE {}

\* Reached(tree, tokens)[i] is where the first i tokens lead.
Reached(tree, tokens) ==
  LET after[i \in 0 .. Len(tokens)] ==
        IF i = 0 THEN {<<>>}
        ELSE UNION {Enter(tree, p, tokens[i]) : p \in after[i - 1]}
  IN after

Resolve(tree, pointer) ==
  IF pointer.rooted THEN Reached(tree, pointer.tokens)[Len(pointer.tokens)] ELSE {}

-----------------------------------------------------------------------------
(* Encoding.                                                               *)

Validate(config) ==
  /\ config.maxBytes > 0
  /\ ~(config.pretty /\ config.format = "ndjson")
  /\ \A i \in DOMAIN config.pointers :
       LET pointer == config.pointers[i] IN
       pointer.rooted /\ \A k \in DOMAIN pointer.tokens : Decodes(pointer.tokens[k])

\* What is encoded one by one: for NDJSON, the elements of a document that
\* has records.
Records(config, document) ==
  IF config.format = "json" \/ ~document.records THEN <<document.tree>>
  ELSE [i \in 1 .. Cardinality(Parts(document.tree, <<>>)) |->
          SubTree(document.tree, <<ElementName[i - 1]>>)]

\* No pointer selects the whole document, as the empty pointer does.
Wanted(config) == IF config.pointers # <<>> THEN config.pointers
                  ELSE <<[rooted |-> TRUE, tokens |-> <<>>]>>

\* applyPointers fails with the first pointer that leads nowhere.
CanSelect(tree, pointers) == \A i \in DOMAIN pointers : Resolve(tree, pointers[i]) # {}

ApplyPointers(tree, pointers) ==
  [i \in DOMAIN pointers |-> CHOOSE p \in Resolve(tree, pointers[i]) : TRUE]

\* Record by record, the nodes that are printed with all that is below them.
Selected(config, document) ==
  LET records == Records(config, document)
  IN [i \in DOMAIN records |-> ApplyPointers(records[i], Wanted(config))]

\* In nodes, which indentation doubles; a list of selections repeats the pointers.
EncodedLen(config, document) ==
  LET records == Records(config, document)
      chosen  == Selected(config, document)
      nodes   == UNION {{<<i, j, q>> : q \in Below(records[i], chosen[i][j])} :
                          i \in DOMAIN records, j \in DOMAIN Wanted(config)}
  IN Cardinality(nodes) * (IF config.pretty THEN 2 ELSE 1)
       + (IF Len(config.pointers) > 1 THEN Len(records) * Len(config.pointers) ELSE 0)

CanEncode(config, document) ==
  /\ Validate(config)
  /\ LET records == Records(config, document) IN
     \A i \in DOMAIN records : CanSelect(records[i], Wanted(config))
  /\ EncodedLen(config, document) <= config.maxBytes

-----------------------------------------------------------------------------
(* RFC 6901, for comparison: a node has one name, the pointer that spells    *)
(* its path with the escapes.                                              *)

Spelled(name) ==
  [i \in DOMAIN name |-> IF name[i] = "~" THEN "~0"
                         ELSE IF name[i] = "/" THEN "~1" ELSE name[i]]

Rfc6901(p) == [rooted |-> TRUE, tokens |-> [k \in DOMAIN p |-> Spelled(p[k])]]

\* Nothing inside of a typed value has a name.
Open(tree, p) == \A k \in DOMAIN p : tree[SubSeq(p, 1, k - 1)] # "typed"

\* A pointer may also spell the index of an element with a sign.
SpeltAt(tree, p, k, token) ==
  \/ Rfc6901(p).tokens[k] = token
  \/ /\ tree[SubSeq(p, 1, k - 1)] = "array"
     /\ token[1] \in Signs /\ Number(p[k]) = Atoi(token)

SpeltUpToSign(tree, p, pointer) ==
  /\ Len(p) = Len(pointer.tokens)
  /\ \A k \in DOMAIN p : SpeltAt(tree, p, k, pointer.tokens[k])

=============================================================================
