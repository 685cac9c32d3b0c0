--------------------------- MODULE SequenceFolds ---------------------------
(***************************************************************************)
(* Folds over a sequence, as recursive functions: what SelectSeq, FoldSeq  *)
(* and FoldLeft of the libraries compute, in a form that can be reasoned   *)
(* about.                                                                  *)
(***************************************************************************)
EXTENDS Integers, Sequences

\* The elements of s that are in T, in their order.
Only(s, T) ==
  LET kept[i \in 0 .. Len(s)] ==
        IF i = 0 THEN <<>>
        ELSE IF s[i] \in T THEN Append(kept[i - 1], s[i]) ELSE kept[i - 1]
  IN  kept[Len(s)]

Total(s) ==
  LET sum[i \in 0 .. Len(s)] == IF i = 0 THEN 0 ELSE sum[i - 1] + s[i]
  IN  sum[Len(s)]

\* How many elements of r, from its first one on, s has in their order.
Further(m, e, r) == IF m < Len(r) /\ r[m + 1] = e THEN m + 1 ELSE m
Matched(s, r) ==
  LET met[i \in 0 .. Len(s)] == IF i = 0 THEN 0 ELSE Further(met[i - 1], s[i], r)
  IN  met[Len(s)]
=============================================================================
