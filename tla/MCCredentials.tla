--------------------------- MODULE MCCredentials ---------------------------
(* Instances of Credentials for TLC.                                       *)
EXTENDS Credentials

CONSTANTS good, bad

Plain(w)  == [word |-> w, padded |-> FALSE]
Padded(w) == [word |-> w, padded |-> TRUE]

Asked(command, env) ==
  [command |-> command, dryRun |-> FALSE, env |-> env, first |-> None, second |-> None]
Entered(a, b) == [Asked("init", Empty) EXCEPT !.first = a, !.second = b]

\* Keys that work, that work once trimmed, that do not, that are blank; prompts
\* that are confirmed, mistyped, empty and cut short.
MCInvocations ==
  {Entered(Plain(good), Plain(good)), Entered(Padded(good), Padded(good)),
   Entered(Plain(bad), Plain(bad)), Entered(Padded(""), Padded("")),
   Entered(Plain(good), Plain(bad)), Entered(Empty, Empty), Entered(Plain(good), None),
   [Entered(Plain(bad), Plain(bad)) EXCEPT !.env = Plain(good)],
   [Entered(Plain(good), Plain(good)) EXCEPT !.dryRun = TRUE],
   Asked("status", Empty), Asked("status", Plain(bad)),
   Asked("clear", Empty), [Asked("clear", Empty) EXCEPT !.dryRun = TRUE],
   Asked("use", Empty), Asked("use", Plain(good)), Asked("use", Padded(good))}

=============================================================================
