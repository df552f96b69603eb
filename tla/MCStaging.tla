----------------------------- MODULE MCStaging -----------------------------
(***************************************************************************)
(* Configurations of three plugins: m, which is built in, an installed q   *)
(* that wants to be loaded after it, and p, of a module of the             *)
(* configuration, that requires q, which its key puts behind it.  p and q  *)
(* make one manifest with m and one without.  The other configurations are *)
(* refused: for a cycle, a missing plugin, a duplicate, an unknown         *)
(* built-in plugin, a directory outside the root and a module that cannot  *)
(* be imported.                                                            *)
(***************************************************************************)
EXTENDS Staging

CONSTANTS p, q, m, a1,
          builtin, plain, loop, broken, file, near, far

Class(x, requires, after, before, priority) ==
  [name |-> x, requires |-> requires, after |-> after, before |-> before,
   priority |-> priority]

MCAlphabet    == <<m, p, q>>
MCBuiltinRefs == [x \in {m} |-> builtin]
MCDefaults    == <<m>>
MCPublished   == [x \in {q} |-> {"dist"}]

P == Class(p, {q}, {}, {}, 100)
Q == Class(q, {}, {m}, {}, 100)

MCClasses == [r \in {builtin, plain, loop, file, q} |->
  CASE r = builtin -> <<Class(m, {}, {}, {p}, 10)>>
    [] r = plain   -> <<P>>
    [] r = loop    -> <<P, Class(q, {}, {p}, {}, 100)>>
    [] r = file    -> <<P>>
    [] OTHER       -> <<Q>>]

MCContents == [d \in {near, far} |-> <<file>>]

Config(builtins, refs, auto, dirs) ==
  [builtins |-> builtins, disabled |-> {}, plugins |-> refs, autoDiscover |-> auto,
   dirs |-> dirs, allowExternal |-> FALSE]

\* The second version leaves out m, in either of two ways.
MCConfigs == [v \in 0..1 |-> IF v = 0 THEN
  { Config(Unset, <<plain>>, TRUE, << >>),
    Config(Unset, <<loop>>, FALSE, << >>),
    Config(Unset, <<plain>>, FALSE, << >>),
    Config(Unset, <<plain, q, m>>, FALSE, << >>),
    Config(<<q>>, <<plain, q>>, FALSE, << >>) }
ELSE
  { Config(<< >>, <<q>>, FALSE, <<near>>),
    [Config(Unset, <<q, plain>>, FALSE, << >>) EXCEPT !.disabled = {m}],
    Config(Unset, <<q>>, FALSE, <<far>>),
    Config(Unset, <<plain, q, broken>>, FALSE, << >>) }]
=============================================================================
