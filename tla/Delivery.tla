------------------------------ MODULE Delivery ------------------------------
(***************************************************************************)
(* What the subscribe command promises, with no word of sockets: a           *)
(* subscription publishes events; the command prints its first `count`       *)
(* events, complete and in order, or none at all; and it ends, unless it is   *)
(* never told in full what to subscribe to.                                  *)
(***************************************************************************)
EXTENDS Integers, Sequences

CONSTANT Events

VARIABLES count,    \* events asked for
          asked,    \* what to subscribe to is known
          feed,     \* events published so far
          printed,  \* events on stdout
          ended

vars == <<count, asked, feed, printed, ended>>

Init == /\ count \in Int /\ asked \in BOOLEAN
        /\ feed = <<>> /\ printed = <<>> /\ ended = FALSE

Ask ==
  /\ ~asked
  /\ asked' = TRUE
  /\ UNCHANGED <<count, feed, printed, ended>>

\* The feed grows by one event.
Publish ==
  /\ UNCHANGED <<count, asked, printed, ended>>
  /\ feed' # feed
  /\ \E e \in Events : feed' = Append(feed, e)

Deliver ==
  /\ ~ended /\ asked /\ 0 < count /\ count <= Len(feed)
  /\ printed' = SubSeq(feed, 1, count)
  /\ ended' = TRUE
  /\ UNCHANGED <<count, asked, feed>>

Fail ==
  /\ ~ended
  /\ ended' = TRUE
  /\ UNCHANGED <<count, asked, feed, printed>>

Next == Ask \/ Publish \/ Deliver \/ Fail

\* Safety, and the promise as a whole.
Safety == Init /\ [][Next]_vars
Spec   == Safety /\ (<>asked => <>ended)

=============================================================================
