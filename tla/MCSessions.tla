----------------------------- MODULE MCSessions -----------------------------
(***************************************************************************)
(* Instances of Sessions for TLC.                                          *)
(***************************************************************************)
EXTENDS Sessions

CONSTANTS w1, w2, w3, m1, m2, m3, ka, kb

\* One session, or one message and one wait of another.
OneKey  == [x \in Messages \cup Waits |-> ka]
TwoKeys == [x \in Messages \cup Waits |-> IF x \in {m2, w2} THEN kb ELSE ka]

\* Every rule accepts every message, or one refuses one.
Everything == Waits \X Messages
Some       == {<<w, m>> \in Waits \X Messages : <<w, m>> # <<w1, m1>>}

\* One session may keep two messages, or two sessions one each.
Narrow  == [perKey |-> 2, keys |-> 1]
Shallow == [perKey |-> 1, keys |-> 2]

OneLimit  == {Narrow}
TwoLimits == {Narrow, Shallow}
=============================================================================
