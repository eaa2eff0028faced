---------------------------- MODULE Credentials ----------------------------
(***************************************************************************)
(* Invocations of the program that share one Keychain item: init, auth        *)
(* status and auth clear of src/internal/app/commands_schema_auth.go, and     *)
(* "use", the resolution of a credential and the call with it, which every    *)
(* other command makes.  An invocation may be killed, and its subprocess with *)
(* it, at any point; a killed process takes no more steps.                    *)
(***************************************************************************)
EXTENDS FiniteSets

CONSTANTS
  Processes,     \* invocations
  Invocations,   \* what they may be asked to do
  Words, Good,   \* keys without surrounding space, and those RouteMesh accepts
  None           \* no item, no key, the end of input

(***************************************************************************)
(* A key as it is typed, stored or set: a word, perhaps with space around it. *)
(* "" with space is a blank key, without it an empty line or an unset         *)
(* variable.                                                               *)
(***************************************************************************)
Key   == [word : Words \cup {""}, padded : BOOLEAN]
Empty == [word |-> "", padded |-> FALSE]
Trim(k) == [word |-> k.word, padded |-> FALSE]

\* "first" and "second" are the lines of the prompt.
Invocation == [command : {"init", "status", "clear", "use"}, dryRun : BOOLEAN,
               env : Key, first : Key \cup {None}, second : Key \cup {None}]

ASSUME CredentialsAssumption ==
  /\ Invocations \subseteq Invocation
  /\ \A v \in Invocations : v.dryRun => v.command \in {"init", "clear"}
  /\ Good \subseteq Words /\ "" \notin Words
  /\ None \notin Key

VARIABLES
  available,   \* the machine has a Keychain
  argv, pc,
  ended,       \* processes whose context has ended
  item,        \* the Keychain item
  key,         \* the key a process has in hand
  report,      \* what it reported
  original,    \* the item at the beginning (history)
  held,        \* what the item was while the process ran (history)
  disturbed    \* processes that saw another one change the item (history)

vars == <<available, argv, pc, ended, item, key, report, original, held, disturbed>>
itemVars == <<item, held, disturbed>>

Places  == {"start", "prompt", "add", "get", "probe", "delete", "done"}
Reports == {"none", "ok", "failed", "dry", "dry_failed", "configured", "not_configured",
            "error", "unavailable"}

Running(p) == pc[p] \notin {"start", "done"}

Init ==
  /\ available \in BOOLEAN
  /\ argv \in [Processes -> Invocations]
  /\ pc = [p \in Processes |-> "start"]
  /\ ended = {}
  /\ item \in Key \cup {None} /\ item # Empty
  /\ key = [p \in Processes |-> None]
  /\ report = [p \in Processes |-> "none"]
  /\ original = item
  /\ held = [p \in Processes |-> {}]
  /\ disturbed = {}

Goto(p, place) == pc' = [pc EXCEPT ![p] = place] /\ UNCHANGED report

\* The command returns; its document may still fail to be printed.
Return(p, verdict) ==
  /\ pc' = [pc EXCEPT ![p] = "done"]
  /\ report' \in {[report EXCEPT ![p] = r] : r \in {verdict, "failed"}}
Fail(p) == Return(p, "failed")

Take(p, k) == key' = [key EXCEPT ![p] = k]

\* The item becomes k by a step of p, and every running process is there.
Change(p, k) ==
  /\ item' = k
  /\ held' = [q \in Processes |-> IF Running(q) THEN held[q] \cup {k} ELSE held[q]]
  /\ disturbed' = disturbed \cup {q \in Processes \ {p} : Running(q)}

-----------------------------------------------------------------------------
\* Mutant: the environment is a fallback for a Keychain without an item.
Fallback(p) == argv[p].command = "use" /\ argv[p].env # Empty /\ item = None

\* Resolve, which init does not call: the environment comes first.
FromEnvironment(p) == argv[p].command = "use" /\ argv[p].env # Empty

Entry == [init |-> "prompt", status |-> "get", clear |-> "delete", use |-> "get"]

Begin(p) ==
  /\ pc[p] = "start"
  /\ held' = [held EXCEPT ![p] = {item}]
  /\ \/ /\ argv[p].dryRun      \* init prints its plan, then misses the tool
        /\ Return(p, IF argv[p].command = "init" /\ ~available THEN "dry_failed" ELSE "dry")
        /\ UNCHANGED key
     \/ argv[p].command = "init" /\ Fail(p) /\ UNCHANGED key    \* the chain ID
     \/ FromEnvironment(p) /\ Goto(p, "probe") /\ Take(p, argv[p].env)
     \/ /\ ~argv[p].dryRun /\ ~FromEnvironment(p)
        /\ IF available THEN Goto(p, Entry[argv[p].command])
           ELSE IF argv[p].command = "status" THEN Return(p, "unavailable")
           ELSE Fail(p)
        /\ UNCHANGED key
  /\ UNCHANGED <<available, argv, ended, item, original, disturbed>>

\* Mutant: the second line is not compared.
EnteredOnce(v) == v.first # None /\ v.first # Empty

\* Mutant: an empty line is a key.
EvenEmpty(v) == v.first # None /\ v.second = v.first

\* ReadAPIKeyInteractive: two equal lines that are not empty.
Confirmed(v) == v.first # None /\ v.first # Empty /\ v.second = v.first

Prompt(p) ==
  /\ pc[p] = "prompt"
  /\ \/ Confirmed(argv[p]) /\ Goto(p, "add") /\ Take(p, argv[p].first)
     \/ Fail(p) /\ UNCHANGED key       \* as well when a line cannot be read
  /\ UNCHANGED <<available, argv, ended, original, itemVars>>

\* The subprocess may be killed after its effect.
Add(p) ==
  /\ pc[p] = "add"
  /\ \/ p \notin ended /\ Change(p, key[p]) /\ (Goto(p, "get") \/ Fail(p))
     \/ Fail(p) /\ UNCHANGED itemVars
  /\ UNCHANGED <<available, argv, ended, key, original>>

\* Mutant: init validates what an ordinary command would use.
Overridden(p) == IF argv[p].env # Empty THEN argv[p].env ELSE Trim(item)

\* MacStore.Get trims what the tool prints.
Retrieved(p) == Trim(item)

\* Mutant: a blank key counts as no item.
IsMissing(k) == k = None \/ k = [word |-> "", padded |-> TRUE]

\* Exit code 44 of the tool.
IsNotFound(k) == k = None

Readable(k) == k # None /\ k.word # ""

Get(p) ==
  /\ pc[p] = "get"
  /\ \/ /\ p \notin ended /\ Readable(item)
        /\ IF argv[p].command = "status"
             THEN Return(p, "configured") /\ UNCHANGED key
             ELSE Goto(p, "probe") /\ Take(p, Retrieved(p))
     \/ /\ p \notin ended /\ IsNotFound(item)
        /\ IF argv[p].command = "status" THEN Return(p, "not_configured") ELSE Fail(p)
        /\ UNCHANGED key
     \/ /\ IF argv[p].command = "status" THEN Return(p, "error") ELSE Fail(p)
        /\ UNCHANGED key
  /\ UNCHANGED <<available, argv, ended, original, itemVars>>

\* The provider, which knows a key by its exact text.
Accepts(k) == k.word \in Good /\ ~k.padded

\* DoRPC, HasError and chainIDResult: without the provider's consent no success.
Probe(p) ==
  /\ pc[p] = "probe"
  /\ \/ p \notin ended /\ Accepts(key[p]) /\ Return(p, "ok")
     \/ Fail(p)
  /\ UNCHANGED <<available, argv, ended, key, original, itemVars>>

\* Delete finds and removes the item, finds nothing, or fails.
DeleteItem(p) ==
  \/ p \notin ended /\ item # None /\ Change(p, None) /\ (Return(p, "ok") \/ Fail(p))
  \/ p \notin ended /\ IsNotFound(item) /\ Return(p, "ok") /\ UNCHANGED itemVars
  \/ Fail(p) /\ UNCHANGED itemVars

Delete(p) ==
  /\ pc[p] = "delete"
  /\ DeleteItem(p)
  /\ UNCHANGED <<available, argv, ended, key, original>>

EndContext(p) ==
  /\ p \notin ended
  /\ ended' = ended \cup {p}
  /\ UNCHANGED <<available, argv, pc, item, key, report, original, held, disturbed>>

Next == \E p \in Processes :
  \/ Begin(p) \/ Prompt(p) \/ Add(p) \/ Get(p) \/ Probe(p) \/ Delete(p) \/ EndContext(p)

Spec == Init /\ [][Next]_vars

-----------------------------------------------------------------------------
(* Properties.                                                             *)

\* Types, and no empty line is ever stored.
TypeOK ==
  /\ available \in BOOLEAN /\ argv \in [Processes -> Invocations]
  /\ pc \in [Processes -> Places] /\ ended \subseteq Processes
  /\ {item, original} \subseteq (Key \cup {None}) \ {Empty}
  /\ key \in [Processes -> (Key \cup {None}) \ {Empty}]
  /\ report \in [Processes -> Reports]
  /\ held \in [Processes -> SUBSET ((Key \cup {None}) \ {Empty})]
  /\ disturbed \subseteq Processes

\* Whatever is interleaved or killed, the Keychain holds what it held before, or
\* what somebody entered twice at the prompt of a real init, or nothing when
\* there was a real auth clear.
KeychainIsAsAsked ==
  \/ item = original
  \/ \E p \in Processes :
       /\ pc[p] # "start" /\ ~argv[p].dryRun
       /\ \/ argv[p].command = "init" /\ item = argv[p].first
             /\ argv[p].second = argv[p].first
          \/ argv[p].command = "clear" /\ item = None

\* An init that reports success probed, with the provider's consent and whatever
\* the environment says, a key that the Keychain held while it ran: the one
\* entered, unless another process was at the item meanwhile.
InitProvesItsKey ==
  \A p \in Processes : argv[p].command = "init" /\ report[p] = "ok" =>
    /\ key[p].word \in Good
    /\ \E k \in held[p] : k # None /\ key[p] = Trim(k)
    /\ p \in disturbed \/ key[p] = Trim(argv[p].first)

\* What auth status and auth clear report was so at some moment while they ran.
ReportsWereTrue ==
  \A p \in Processes :
    /\ report[p] = "configured" => \E k \in held[p] : k # None /\ k.word # ""
    /\ report[p] = "not_configured" => None \in held[p]
    /\ argv[p].command = "clear" /\ report[p] = "ok" => None \in held[p]

\* A command works with the key of its environment when there is one, and else
\* with one the Keychain held while it ran.
PrecedenceHolds ==
  \A p \in Processes : argv[p].command = "use" /\ key[p] # None =>
    IF argv[p].env # Empty THEN key[p] = argv[p].env
                           ELSE \E k \in held[p] : k # None /\ key[p] = Trim(k)

=============================================================================
