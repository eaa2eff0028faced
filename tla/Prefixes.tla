------------------------------ MODULE Prefixes ------------------------------
(***************************************************************************)
(* What is added up, or picked, along the prefixes of a sequence.            *)
(***************************************************************************)
EXTENDS Integers, Sequences

\* Sums(s)[i] is the sum of the first i elements of s.
Sums(s) ==
  LET upTo[i \in 0 .. Len(s)] == IF i = 0 THEN 0 ELSE upTo[i - 1] + s[i]
  IN upTo

\* Picked(s, E)[i] holds, in their order, those of the first i elements in E.
Picked(s, E) ==
  LET upTo[i \in 0 .. Len(s)] ==
        IF i = 0 THEN <<>>
        ELSE IF s[i] \in E THEN Append(upTo[i - 1], s[i]) ELSE upTo[i - 1]
  IN upTo

=============================================================================
