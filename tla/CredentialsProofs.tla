------------------------- MODULE CredentialsProofs -------------------------
(***************************************************************************)
(* Theorems about Credentials for any number of invocations, whatever they    *)
(* are asked to do, and any keys.                                            *)
(***************************************************************************)
EXTENDS Credentials, TLAPS

(***************************************************************************)
(* The strengthening, process by process: what a command must have passed to  *)
(* be where it is, and what its key has to do with the Keychain.             *)
(***************************************************************************)
Placed(p) ==
  /\ pc[p] = "start" => key[p] = None
  /\ pc[p] # "done" => report[p] = "none"
  /\ pc[p] \in {"prompt", "add"} => argv[p].command = "init"
  /\ pc[p] = "delete" => argv[p].command = "clear"
  /\ pc[p] = "get" => argv[p].command \in {"init", "status", "use"}
  /\ pc[p] = "probe" => argv[p].command \in {"init", "use"}
  /\ Running(p) => ~argv[p].dryRun /\ item \in held[p]
  /\ argv[p].command = "use" /\ pc[p] \in {"start", "get"} => key[p] = None
  /\ argv[p].command = "use" /\ pc[p] = "get" => argv[p].env = Empty

Entering(p) ==
  argv[p].command = "init" =>
    /\ pc[p] = "add" => key[p] = argv[p].first /\ argv[p].second = argv[p].first
    /\ pc[p] = "get" => p \in disturbed \/ item = argv[p].first
    /\ pc[p] = "probe" => /\ \E k \in held[p] : k # None /\ key[p] = Trim(k)
                          /\ p \in disturbed \/ key[p] = Trim(argv[p].first)

\* What the three properties say of one process.
Proven(p) ==
  argv[p].command = "init" /\ report[p] = "ok" =>
    /\ key[p].word \in Good
    /\ \E k \in held[p] : k # None /\ key[p] = Trim(k)
    /\ p \in disturbed \/ key[p] = Trim(argv[p].first)

Reported(p) ==
  /\ report[p] = "configured" => \E k \in held[p] : k # None /\ k.word # ""
  /\ report[p] = "not_configured" => None \in held[p]
  /\ argv[p].command = "clear" /\ report[p] = "ok" => None \in held[p]

Preceded(p) ==
  argv[p].command = "use" /\ key[p] # None =>
    IF argv[p].env # Empty THEN key[p] = argv[p].env
                           ELSE \E k \in held[p] : k # None /\ key[p] = Trim(k)

Sane(p) == Placed(p) /\ Entering(p) /\ Proven(p) /\ Reported(p) /\ Preceded(p)

IInv == TypeOK /\ KeychainIsAsAsked /\ \A p \in Processes : Sane(p)

-----------------------------------------------------------------------------
\* An empty line is a key that is typed, and not the absence of one.
LEMMA NoneIsNotEmpty == None # Empty
<1>1. Empty \in Key
  BY DEF Empty, Key
<1>2. None \notin Key
  BY CredentialsAssumption
<1> QED
  BY <1>1, <1>2

\* Nothing runs at the start.
LEMMA InitIInv == Init => IInv
<1> SUFFICES ASSUME Init PROVE IInv
  OBVIOUS
<1>1. TypeOK
  <2>1. None # Empty
    BY NoneIsNotEmpty
  <2>2. {item, original} \subseteq (Key \cup {None}) \ {Empty} /\ available \in BOOLEAN
    BY DEF Init
  <2>3. key \in [Processes -> (Key \cup {None}) \ {Empty}]
    BY <2>1 DEF Init
  <2>4. /\ held \in [Processes -> SUBSET ((Key \cup {None}) \ {Empty})]
        /\ pc \in [Processes -> Places] /\ report \in [Processes -> Reports]
    BY DEF Init, Places, Reports
  <2> QED
    BY <2>2, <2>3, <2>4 DEF Init, TypeOK
<1>2. KeychainIsAsAsked
  BY DEF Init, KeychainIsAsAsked
<1>3. ASSUME NEW p \in Processes PROVE Sane(p)
  BY <1>3 DEF Init, Sane, Placed, Entering, Proven, Reported, Preceded, Running
<1> QED
  BY <1>1, <1>2, <1>3 DEF IInv

(***************************************************************************)
(* A process that does not step stays sane, if the history of the item is     *)
(* kept for it.                                                            *)
(***************************************************************************)
LEMMA Bystander ==
  ASSUME NEW q \in Processes, Sane(q),
         argv' = argv, pc'[q] = pc[q], key'[q] = key[q], report'[q] = report[q],
         held[q] \subseteq held'[q], disturbed \subseteq disturbed',
         Running(q) => item' \in held'[q] /\ (item' = item \/ q \in disturbed')
  PROVE  Sane(q)'
<1>1. Placed(q)'
  BY DEF Sane, Placed, Running
<1>2. Entering(q)'
  BY DEF Sane, Entering, Running
<1>3. Proven(q)' /\ Reported(q)' /\ Preceded(q)'
  BY DEF Sane, Proven, Reported, Preceded
<1> QED
  BY <1>1, <1>2, <1>3 DEF Sane

(***************************************************************************)
(* The steps that leave the item alone: only the acting process matters.      *)
(***************************************************************************)
LEMMA Others ==
  ASSUME IInv, NEW p \in Processes, UNCHANGED <<argv, item, disturbed>>,
         \A q \in Processes \ {p} :
           pc'[q] = pc[q] /\ key'[q] = key[q] /\ report'[q] = report[q] /\ held'[q] = held[q],
         Sane(p)'
  PROVE  \A q \in Processes : Sane(q)'
<1> SUFFICES ASSUME NEW q \in Processes, q # p PROVE Sane(q)'
  OBVIOUS
<1>1. Sane(q) /\ (Running(q) => item \in held[q])
  BY DEF IInv, Sane, Placed
<1> QED
  BY <1>1, Bystander

\* The steps that change the item: every other running process sees them.
LEMMA Changing ==
  ASSUME IInv, NEW p \in Processes, NEW k \in (Key \cup {None}) \ {Empty}, Change(p, k),
         UNCHANGED <<argv, key>>,
         \A q \in Processes \ {p} : pc'[q] = pc[q] /\ report'[q] = report[q],
         Sane(p)'
  PROVE  \A q \in Processes : Sane(q)'
<1> SUFFICES ASSUME NEW q \in Processes, q # p PROVE Sane(q)'
  OBVIOUS
<1>1. Sane(q)
  BY DEF IInv
<1>2. /\ item' = k /\ disturbed \subseteq disturbed'
      /\ held'[q] = IF Running(q) THEN held[q] \cup {k} ELSE held[q]
      /\ Running(q) => q \in disturbed'
  BY DEF Change
<1> QED
  BY <1>1, <1>2, Bystander

-----------------------------------------------------------------------------
\* Every step of every process keeps the invariant.
LEMMA StepIInv == IInv /\ [Next]_vars => IInv'
<1> SUFFICES ASSUME IInv, [Next]_vars PROVE IInv'
  OBVIOUS
<1>0. TypeOK /\ KeychainIsAsAsked /\ \A p \in Processes : Sane(p)
  BY DEF IInv
<1>1. ASSUME NEW p \in Processes, Begin(p) PROVE IInv'
  <2>0. Sane(p) /\ argv[p] \in Invocation /\ (argv[p].dryRun => argv[p].command \in {"init", "clear"})
    BY <1>0, CredentialsAssumption DEF TypeOK
  <2>1. /\ pc[p] = "start" /\ held' = [held EXCEPT ![p] = {item}]
        /\ UNCHANGED <<available, argv, ended, item, original, disturbed>>
    BY <1>1 DEF Begin
  <2>2. \/ /\ pc' = [pc EXCEPT ![p] = "done"] /\ key' = key
           /\ \E r \in {"dry", "dry_failed", "failed", "unavailable"} : report' = [report EXCEPT ![p] = r]
        \/ /\ FromEnvironment(p) /\ pc' = [pc EXCEPT ![p] = "probe"] /\ report' = report
           /\ key' = [key EXCEPT ![p] = argv[p].env]
        \/ /\ ~argv[p].dryRun /\ ~FromEnvironment(p) /\ key' = key /\ report' = report
           /\ pc' = [pc EXCEPT ![p] = Entry[argv[p].command]]
    BY <1>1 DEF Begin, Fail, Return, Goto, Take
  <2>3. /\ argv[p].command = "init" => Entry[argv[p].command] = "prompt"
        /\ argv[p].command = "clear" => Entry[argv[p].command] = "delete"
        /\ argv[p].command \in {"status", "use"} => Entry[argv[p].command] = "get"
        /\ Entry[argv[p].command] \in Places
    BY <2>0 DEF Entry, Invocation, Places
  <2>4. TypeOK'
    <3>1. pc' \in [Processes -> Places]
      BY <1>0, <2>2, <2>3 DEF TypeOK, Places
    <3>2. report' \in [Processes -> Reports]
      BY <1>0, <2>2 DEF TypeOK, Reports
    <3>3. FromEnvironment(p) => argv[p].env \in (Key \cup {None}) \ {Empty}
      BY <2>0 DEF FromEnvironment, Invocation
    <3>4. key' \in [Processes -> (Key \cup {None}) \ {Empty}]
      BY <1>0, <2>2, <3>3 DEF TypeOK
    <3>5. held' \in [Processes -> SUBSET ((Key \cup {None}) \ {Empty})]
      BY <1>0, <2>1 DEF TypeOK
    <3> QED
      BY <1>0, <2>1, <3>1, <3>2, <3>4, <3>5 DEF TypeOK
  <2>5. KeychainIsAsAsked'
    BY <1>0, <2>1, <2>2, <2>3 DEF KeychainIsAsAsked, TypeOK
  <2>6. Sane(p)'
    <3>0. /\ argv'[p] = argv[p] /\ item' = item /\ held'[p] = {item}
          /\ key[p] = None /\ report[p] = "none"
      BY <1>0, <2>0, <2>1 DEF TypeOK, Sane, Placed
    <3>1. CASE /\ pc'[p] = "done" /\ key'[p] = None
               /\ report'[p] \in {"dry", "dry_failed", "failed", "unavailable"}
      BY <3>0, <3>1 DEF Sane, Placed, Entering, Proven, Reported, Preceded, Running
    <3>2. CASE /\ argv[p].command = "use" /\ argv[p].env # Empty /\ ~argv[p].dryRun
               /\ pc'[p] = "probe" /\ key'[p] = argv[p].env /\ report'[p] = "none"
      BY <3>0, <3>2 DEF Sane, Placed, Entering, Proven, Reported, Preceded, Running
    <3>3. CASE /\ ~argv[p].dryRun /\ ~FromEnvironment(p) /\ key'[p] = None
               /\ pc'[p] = Entry[argv[p].command] /\ report'[p] = "none"
      <4>1. argv[p].command \in {"init", "status", "clear", "use"}
        BY <2>0 DEF Invocation
      <4>2. Placed(p)'
        BY <2>3, <3>0, <3>3, <4>1 DEF Placed, Running, FromEnvironment
      <4>3. Entering(p)'
        BY <2>3, <3>0, <3>3 DEF Entering
      <4>4. Proven(p)' /\ Reported(p)' /\ Preceded(p)'
        BY <3>0, <3>3 DEF Proven, Reported, Preceded
      <4> QED
        BY <4>2, <4>3, <4>4 DEF Sane
    <3>4. argv[p].command = "use" => ~argv[p].dryRun
      BY <2>0
    <3>5. /\ \A x : pc' = [pc EXCEPT ![p] = x] => pc'[p] = x
          /\ \A x : report' = [report EXCEPT ![p] = x] => report'[p] = x
          /\ \A x : key' = [key EXCEPT ![p] = x] => key'[p] = x
      BY <1>0 DEF TypeOK
    <3> QED
      BY <2>2, <3>0, <3>1, <3>2, <3>3, <3>4, <3>5 DEF FromEnvironment
  <2> QED
    BY <1>0, <2>1, <2>2, <2>4, <2>5, <2>6, Others DEF IInv, TypeOK
<1>2. ASSUME NEW p \in Processes, Prompt(p) PROVE IInv'
  <2>0. Sane(p) /\ argv[p] \in Invocation
    BY <1>0, CredentialsAssumption DEF TypeOK
  <2>1. /\ pc[p] = "prompt"
        /\ UNCHANGED <<available, argv, ended, item, original, held, disturbed>>
        /\ \/ /\ Confirmed(argv[p]) /\ pc' = [pc EXCEPT ![p] = "add"] /\ report' = report
              /\ key' = [key EXCEPT ![p] = argv[p].first]
           \/ /\ pc' = [pc EXCEPT ![p] = "done"] /\ key' = key
              /\ report' = [report EXCEPT ![p] = "failed"]
    BY <1>2 DEF Prompt, Goto, Take, Fail, Return, itemVars
  <2>2. TypeOK'
    BY <1>0, <2>0, <2>1 DEF TypeOK, Reports, Places, Confirmed, Invocation
  <2>3. KeychainIsAsAsked'
    BY <1>0, <2>1 DEF KeychainIsAsAsked, TypeOK
  <2>4. Sane(p)'
    BY <1>0, <2>0, <2>1
    DEF TypeOK, Sane, Placed, Entering, Proven, Reported, Preceded, Running, Confirmed
  <2> QED
    BY <1>0, <2>1, <2>2, <2>3, <2>4, Others DEF IInv, TypeOK
<1>3. ASSUME NEW p \in Processes, Add(p) PROVE IInv'
  <2>0. /\ Sane(p) /\ pc[p] = "add" /\ argv[p].command = "init" /\ ~argv[p].dryRun
        /\ key[p] = argv[p].first /\ argv[p].second = argv[p].first
        /\ report[p] = "none"
    BY <1>0, <1>3 DEF Add, Sane, Placed, Entering, Running
  <2>1. /\ UNCHANGED <<available, argv, ended, key, original>>
        /\ \/ pc' = [pc EXCEPT ![p] = "get"] /\ report' = report /\ Change(p, key[p])
           \/ /\ pc' = [pc EXCEPT ![p] = "done"] /\ report' = [report EXCEPT ![p] = "failed"]
              /\ Change(p, key[p]) \/ UNCHANGED <<item, held, disturbed>>
    BY <1>3 DEF Add, Goto, Fail, Return, itemVars
  <2>2. CASE Change(p, key[p])
    <3>1. key[p] \in (Key \cup {None}) \ {Empty}
      BY <1>0 DEF TypeOK
    <3>2. /\ item' = key[p] /\ held'[p] = held[p] \cup {key[p]}
          /\ held' \in [Processes -> SUBSET ((Key \cup {None}) \ {Empty})]
          /\ disturbed' \subseteq Processes
      BY <1>0, <2>0, <2>2, <3>1 DEF Change, TypeOK, Running
    <3>3. TypeOK'
      BY <1>0, <2>1, <3>1, <3>2 DEF TypeOK, Reports, Places
    <3>4. KeychainIsAsAsked'
      BY <1>0, <2>0, <2>1, <3>2 DEF KeychainIsAsAsked, TypeOK
    <3>5. Sane(p)'
      BY <1>0, <2>0, <2>1, <3>2
      DEF TypeOK, Sane, Placed, Entering, Proven, Reported, Preceded, Running
    <3> QED
      BY <1>0, <2>1, <2>2, <3>1, <3>3, <3>4, <3>5, Changing DEF IInv, TypeOK
  <2>3. CASE pc' = [pc EXCEPT ![p] = "done"] /\ report' = [report EXCEPT ![p] = "failed"]
             /\ UNCHANGED <<item, held, disturbed>>
    <3>1. TypeOK'
      BY <1>0, <2>1, <2>3 DEF TypeOK, Reports, Places
    <3>2. KeychainIsAsAsked'
      BY <1>0, <2>1, <2>3 DEF KeychainIsAsAsked, TypeOK
    <3>3. Sane(p)'
      BY <1>0, <2>0, <2>1, <2>3
      DEF TypeOK, Sane, Placed, Entering, Proven, Reported, Preceded, Running
    <3> QED
      BY <1>0, <2>1, <2>3, <3>1, <3>2, <3>3, Others DEF IInv, TypeOK
  <2> QED
    BY <2>1, <2>2, <2>3
<1>4. ASSUME NEW p \in Processes, Get(p) PROVE IInv'
  <2>0. /\ Sane(p) /\ pc[p] = "get" /\ item \in held[p]
        /\ argv[p].command \in {"init", "status", "use"} /\ report[p] = "none"
    BY <1>0, <1>4 DEF Get, Sane, Placed, Running
  <2>1. UNCHANGED <<available, argv, ended, item, original, held, disturbed>>
    BY <1>4 DEF Get, itemVars
  <2>2. \/ /\ argv[p].command # "status" /\ item # None /\ item.word # ""
           /\ pc' = [pc EXCEPT ![p] = "probe"] /\ report' = report
           /\ key' = [key EXCEPT ![p] = Trim(item)]
        \/ /\ pc' = [pc EXCEPT ![p] = "done"] /\ key' = key
           /\ \/ /\ item # None /\ item.word # ""
                 /\ report' = [report EXCEPT ![p] = "configured"]
              \/ item = None /\ report' = [report EXCEPT ![p] = "not_configured"]
              \/ \E r \in {"error", "failed"} : report' = [report EXCEPT ![p] = r]
    BY <1>4 DEF Get, Goto, Take, Fail, Return, Readable, IsNotFound, Retrieved
  <2>3. item # None /\ item.word # "" => Trim(item) \in Key \ {Empty}
    BY <1>0 DEF TypeOK, Key, Trim, Empty
  <2>4. TypeOK'
    <3>1. pc' \in [Processes -> Places]
      BY <1>0, <2>2 DEF TypeOK, Places
    <3>2. report' \in [Processes -> Reports]
      BY <1>0, <2>2 DEF TypeOK, Reports
    <3>3. key' \in [Processes -> (Key \cup {None}) \ {Empty}]
      BY <1>0, <2>2, <2>3 DEF TypeOK
    <3> QED
      BY <1>0, <2>1, <3>1, <3>2, <3>3 DEF TypeOK
  <2>5. KeychainIsAsAsked'
    BY <1>0, <2>1, <2>2 DEF KeychainIsAsAsked, TypeOK
  <2>6. Sane(p)'
    <3>0. UNCHANGED <<argv[p], held[p], item>> /\ (p \in disturbed)' = (p \in disturbed)
      BY <2>1
    <3>1. CASE /\ argv[p].command # "status" /\ item # None
               /\ pc'[p] = "probe" /\ report'[p] = "none" /\ key'[p] = Trim(item)
      <4>1. \E k \in held'[p] : k # None /\ key'[p] = Trim(k)
        BY <2>0, <3>0, <3>1
      <4>2. Placed(p)'
        BY <2>0, <3>0, <3>1 DEF Sane, Placed, Running
      <4>3. Entering(p)'
        BY <2>0, <3>0, <3>1, <4>1 DEF Sane, Entering
      <4>4. argv[p].command = "use" => argv[p].env = Empty
        BY <2>0 DEF Sane, Placed
      <4> QED
        BY <3>0, <3>1, <4>1, <4>2, <4>3, <4>4 DEF Sane, Proven, Reported, Preceded
    <3>2. CASE /\ pc'[p] = "done" /\ key'[p] = key[p]
               /\ \/ item # None /\ item.word # "" /\ report'[p] = "configured"
                  \/ item = None /\ report'[p] = "not_configured"
                  \/ report'[p] \in {"error", "failed"}
      <4>1. Placed(p)' /\ Entering(p)' /\ Proven(p)' /\ Preceded(p)'
        BY <2>0, <3>0, <3>2 DEF Sane, Placed, Entering, Proven, Preceded, Running
      <4>2. Reported(p)'
        BY <2>0, <3>0, <3>2 DEF Reported
      <4> QED
        BY <4>1, <4>2 DEF Sane
    <3> QED
      BY <1>0, <2>0, <2>2, <3>1, <3>2 DEF TypeOK
  <2> QED
    BY <1>0, <2>1, <2>2, <2>4, <2>5, <2>6, Others DEF IInv, TypeOK
<1>5. ASSUME NEW p \in Processes, Probe(p) PROVE IInv'
  <2>0. Sane(p) /\ pc[p] = "probe" /\ argv[p].command \in {"init", "use"}
    BY <1>0, <1>5 DEF Probe, Sane, Placed
  <2>1. /\ UNCHANGED <<available, argv, ended, item, original, key, held, disturbed>>
        /\ pc' = [pc EXCEPT ![p] = "done"]
        /\ \/ key[p].word \in Good /\ report' = [report EXCEPT ![p] = "ok"]
           \/ report' = [report EXCEPT ![p] = "failed"]
    BY <1>5 DEF Probe, Fail, Return, Accepts, itemVars
  <2>2. TypeOK'
    BY <1>0, <2>1 DEF TypeOK, Reports, Places
  <2>3. KeychainIsAsAsked'
    BY <1>0, <2>1 DEF KeychainIsAsAsked, TypeOK
  <2>4. Sane(p)'
    BY <1>0, <2>0, <2>1
    DEF TypeOK, Sane, Placed, Entering, Proven, Reported, Preceded, Running
  <2> QED
    BY <1>0, <2>1, <2>2, <2>3, <2>4, Others DEF IInv, TypeOK
<1>6. ASSUME NEW p \in Processes, Delete(p) PROVE IInv'
  <2>0. /\ Sane(p) /\ pc[p] = "delete" /\ argv[p].command = "clear" /\ ~argv[p].dryRun
        /\ item \in held[p] /\ report[p] = "none"
    BY <1>0, <1>6 DEF Delete, Sane, Placed, Running
  <2>1. /\ UNCHANGED <<available, argv, ended, key, original>>
        /\ pc' = [pc EXCEPT ![p] = "done"]
        /\ \E r \in {"ok", "failed"} :
             /\ report' = [report EXCEPT ![p] = r]
             /\ \/ Change(p, None)
                \/ (r = "ok" => item = None) /\ UNCHANGED <<item, held, disturbed>>
    BY <1>6 DEF Delete, DeleteItem, Fail, Return, IsNotFound, itemVars
  <2>2. CASE Change(p, None)
    <3>1. None \in (Key \cup {None}) \ {Empty}
      BY NoneIsNotEmpty
    <3>2. /\ item' = None /\ held'[p] = held[p] \cup {None}
          /\ held' \in [Processes -> SUBSET ((Key \cup {None}) \ {Empty})]
          /\ disturbed' \subseteq Processes
      BY <1>0, <2>0, <2>2, <3>1 DEF Change, TypeOK, Running
    <3>3. TypeOK'
      BY <1>0, <2>1, <3>1, <3>2 DEF TypeOK, Reports, Places
    <3>4. KeychainIsAsAsked'
      BY <1>0, <2>0, <2>1, <3>2 DEF KeychainIsAsAsked, TypeOK
    <3>5. Sane(p)'
      BY <1>0, <2>0, <2>1, <3>2
      DEF TypeOK, Sane, Placed, Entering, Proven, Reported, Preceded, Running
    <3> QED
      BY <1>0, <2>1, <2>2, <3>1, <3>3, <3>4, <3>5, Changing DEF IInv, TypeOK
  <2>3. CASE /\ UNCHANGED <<item, held, disturbed>>
             /\ \E r \in {"ok", "failed"} : report' = [report EXCEPT ![p] = r]
                                           /\ (r = "ok" => item = None)
    <3>1. TypeOK'
      BY <1>0, <2>1, <2>3 DEF TypeOK, Reports, Places
    <3>2. KeychainIsAsAsked'
      BY <1>0, <2>1, <2>3 DEF KeychainIsAsAsked, TypeOK
    <3>3. Sane(p)'
      BY <1>0, <2>0, <2>1, <2>3
      DEF TypeOK, Sane, Placed, Entering, Proven, Reported, Preceded, Running
    <3> QED
      BY <1>0, <2>1, <2>3, <3>1, <3>2, <3>3, Others DEF IInv, TypeOK
  <2> QED
    BY <2>1, <2>2, <2>3
<1>7. CASE (\E p \in Processes : EndContext(p)) \/ UNCHANGED vars
  <2>1. /\ UNCHANGED <<available, argv, pc, item, key, report, original, held, disturbed>>
        /\ ended' \subseteq Processes
    BY <1>0, <1>7 DEF EndContext, vars, TypeOK
  <2>2. TypeOK' /\ KeychainIsAsAsked'
    BY <1>0, <2>1 DEF TypeOK, KeychainIsAsAsked
  <2>3. ASSUME NEW p \in Processes PROVE Sane(p)'
    BY <1>0, <2>1, <2>3
    DEF Sane, Placed, Entering, Proven, Reported, Preceded, Running
  <2> QED
    BY <2>2, <2>3 DEF IInv
<1> QED
  BY <1>1, <1>2, <1>3, <1>4, <1>5, <1>6, <1>7 DEF Next

-----------------------------------------------------------------------------
\* The inductive invariant holds in every behaviour of the invocations.
THEOREM Invariance == Spec => []IInv
BY InitIInv, StepIInv, PTL DEF Spec

\* The invocations keep their types, and no empty line is ever stored.
THEOREM TypeCorrect == Spec => []TypeOK
<1>1. IInv => TypeOK
  BY DEF IInv
<1> QED
  BY <1>1, Invariance, PTL

\* The Keychain holds what it held, what was confirmed, or nothing after a clear.
THEOREM KeychainHoldsWhatWasAsked == Spec => []KeychainIsAsAsked
<1>1. IInv => KeychainIsAsAsked
  BY DEF IInv
<1> QED
  BY <1>1, Invariance, PTL

\* An init that succeeds has probed the key it entered, unless disturbed.
THEOREM InitIsAProof == Spec => []InitProvesItsKey
<1>1. IInv => InitProvesItsKey
  BY DEF IInv, Sane, Proven, InitProvesItsKey
<1> QED
  BY <1>1, Invariance, PTL

\* What status and clear report was the case while they ran.
THEOREM ReportsAreTrue == Spec => []ReportsWereTrue
<1>1. IInv => ReportsWereTrue
  BY DEF IInv, Sane, Reported, ReportsWereTrue
<1> QED
  BY <1>1, Invariance, PTL

\* The environment comes before the Keychain for every ordinary command.
THEOREM EnvironmentComesFirst == Spec => []PrecedenceHolds
<1>1. IInv => PrecedenceHolds
  BY DEF IInv, Sane, Preceded, PrecedenceHolds
<1> QED
  BY <1>1, Invariance, PTL

=============================================================================
