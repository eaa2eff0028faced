---------------------------- MODULE RpcContract ----------------------------
(***************************************************************************)
(* What a JSON-RPC call promises its caller, with no word of HTTP: at most  *)
(* `limit` exchanges one after the other, each executed at most once and    *)
(* perhaps late, then one verdict; a call that is refused never had an      *)
(* exchange; an answer needs one; and the call ends.                        *)
(***************************************************************************)
EXTENDS Naturals

CONSTANTS ReadLimit, WriteLimit

VARIABLES limit,    \* exchanges the call may have
          rounds,   \* exchanges it had
          effects,  \* executions at the provider
          phase     \* where the call is

vars == <<limit, rounds, effects, phase>>

Final == {"refused", "failed", "answered"}

Init ==
  /\ limit \in {ReadLimit, WriteLimit}
  /\ rounds = 0 /\ effects = 0
  /\ phase = "idle"

Exchange ==
  /\ phase \in {"idle", "pause"}
  /\ rounds < limit
  /\ rounds' = rounds + 1
  /\ phase' = "exchange"
  /\ UNCHANGED <<limit, effects>>

Pause ==
  /\ phase = "exchange"
  /\ rounds < limit
  /\ phase' = "pause"
  /\ UNCHANGED <<limit, rounds, effects>>

Conclude ==
  /\ \/ phase = "idle" /\ phase' \in {"refused", "failed"}
     \/ phase = "pause" /\ phase' = "failed"
     \/ phase = "exchange" /\ phase' \in {"answered", "failed"}
  /\ UNCHANGED <<limit, rounds, effects>>

Effect ==
  /\ effects < rounds
  /\ effects' = effects + 1
  /\ UNCHANGED <<limit, rounds, phase>>

Next == Exchange \/ Pause \/ Conclude \/ Effect

Safe == Init /\ [][Next]_vars

Spec == Safe /\ <>(phase \in Final)

=============================================================================
