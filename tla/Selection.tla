------------------------------ MODULE Selection ------------------------------
(***************************************************************************)
(* The elements of a sequence that are in a set, in their order.  As       *)
(* SelectSeq, but for a set instead of a test and by a recursive function, *)
(* so that proofs can expand it (SelectionProofs).                         *)
(***************************************************************************)
EXTENDS Naturals, Sequences

Elements(s) == {s[i] : i \in DOMAIN s}

Only(s, S) ==
  LET kept[i \in 0 .. Len(s)] ==
        IF i = 0 THEN << >>
        ELSE IF s[i] \in S THEN Append(kept[i - 1], s[i]) ELSE kept[i - 1]
  IN  kept[Len(s)]
=============================================================================
