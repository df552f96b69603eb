----------------------------- MODULE PluginOrder -----------------------------
(***************************************************************************)
(* The order in which the plugins of a manifest are started:               *)
(* _resolve_plugin_order().  A manifest is the sequence of the descriptors *)
(* that a configuration leads to.                                          *)
(***************************************************************************)
EXTENDS Integers, SequencesExt

CONSTANT Alphabet   \* the names of plugins, in their order as text

\* Descriptors as they are made from Plugin classes.
IsManifest(m) ==
  /\ m \in Seq({m[i] : i \in DOMAIN m})
  /\ \A i \in DOMAIN m :
       m[i].name \in Range(Alphabet) /\ m[i].source \in Nat /\ m[i].priority \in Int

NamesOf(m) == {m[i].name : i \in DOMAIN m}

Descriptor(m, x) == m[CHOOSE i \in DOMAIN m : m[i].name = x]

\* x is started before y.
Edge(m, x, y) ==
  /\ x # y /\ {x, y} \subseteq NamesOf(m)
  /\ \/ x \in Descriptor(m, y).requires
     \/ x \in Descriptor(m, y).after     \* optional_requires and load_after
     \/ y \in Descriptor(m, x).before

\* Those that wait for nothing but what is resolved.
Ready(m, resolved) ==
  {x \in NamesOf(m) : /\ \A i \in DOMAIN resolved : resolved[i] # x
                      /\ \A y \in NamesOf(m) :
                           Edge(m, y, x) => \E i \in DOMAIN resolved : resolved[i] = y}

Position(x) == CHOOSE i \in DOMAIN Alphabet : Alphabet[i] = x

\* The sort key of a descriptor: its source, its priority, its name.
Key(m, x) == <<Descriptor(m, x).source, Descriptor(m, x).priority, Position(x)>>

Precedes(k, l) ==
  \E i \in 1..3 : k[i] < l[i] /\ \A j \in 1..(i - 1) : k[j] = l[j]

LeastOf(m, S) ==
  CHOOSE x \in S : \A y \in S \ {x} : Precedes(Key(m, x), Key(m, y))

\* The queue is sorted whenever something is added: the least is resolved.
Round(m, resolved) ==
  LET S == Ready(m, resolved)
  IN  IF S = {} THEN resolved ELSE Append(resolved, LeastOf(m, S))

Order(m) ==
  LET after[i \in 0 .. Len(m)] == IF i = 0 THEN << >> ELSE Round(m, after[i - 1])
  IN  after[Len(m)]

Duplicates(m) == \E i, j \in DOMAIN m : i # j /\ m[i].name = m[j].name

Missing(m) == \E i \in DOMAIN m : ~(m[i].requires \subseteq NamesOf(m))

\* No ValueError: names are unique, what is required is there, no cycle.
Resolvable(m) == ~Duplicates(m) /\ ~Missing(m) /\ Len(Order(m)) = Len(m)
=============================================================================
