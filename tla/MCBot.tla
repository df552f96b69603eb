-------------------------------- MODULE MCBot --------------------------------
(* Three handlers: one that blocks, with a rule on a field and on a         *)
(* predicate that may call the API and a permission; one with named cases;  *)
(* and one with a predicate and a permission that nobody has.               *)
EXTENDS Bot

CONSTANTS e, f, task, p, q

Leaf(a)   == <<[op |-> "leaf", of |-> a]>>
Fields(c) == <<[op |-> "fields", conditions |-> c]>>

\* A ruleset, from its cases in the order in which they were added.
Ruleset(first, cases) ==
  LET Rules(from) == FlattenSeq([i \in 1 .. Len(cases) + 1 - from |-> cases[from + i - 1].rule])
  IN  Append(Rules(1), [op |-> "cases", first |-> first,
                        cases |-> [i \in DOMAIN cases |->
                                     [cases[i] EXCEPT !.rule = Len(Rules(i + 1)) + 1]]])
Case(n, prio, r) == [name |-> n, priority |-> prio, rule |-> r]

\* The command /hi of any adapter, and messages of one adapter that say hi.
OnCommand == [kind |-> "command", adapters |-> {}, types |-> {"message"}, details |-> {},
              prefixes |-> {<<"/">>, <<"!">>}, commands |-> {<<"h">>, <<"h", "i">>}]
OnMessage == [kind |-> "message", adapters |-> {"main"}, types |-> {"message"},
              details |-> {}, startswith |-> {}, contains |-> {<<"h", "i">>},
              regex |-> {}]

OnGroup   == [kind |-> "event", adapters |-> {}, types |-> {}, details |-> {"group"}]

\* e is for the first two, f for the last one.
MCDetails ==
  [x \in Events |-> [adapter |-> "main", type |-> "message",
                     detail |-> IF x = e THEN "private" ELSE "group",
                     text |-> IF x = e THEN <<Blank, "/", "h", "i", Blank, "you">>
                              ELSE <<"/", "h", "it">>]]

First == [spec |-> OnCommand, bare |-> FALSE,
          rule |-> BothHold(Fields(<<[op |-> "exists", of |-> "user", want |-> TRUE],
                                     [op |-> "not_equals", of |-> "group"]>>),
                            Ruleset(FALSE, <<Case(1, 1, Leaf("remote"))>>)),
          permission |-> PermissionAllOf(<<PermissionAnyOf(<<Leaf("superuser"), Negated(Leaf("banned"))>>),
                                           Negated(PermissionAnyOf(<< >>))>>),
          block |-> TRUE]

Second == [spec |-> OnMessage, bare |-> FALSE,
           rule |-> Ruleset(TRUE, <<Case(1, 2, Leaf("superuser")),
                                    Case(2, 1, Negated(Leaf("lookup")))>>),
           permission |-> AllowAll, block |-> FALSE]

Third == [spec |-> OnGroup, bare |-> FALSE, rule |-> Leaf("remote"),
          permission |-> PermissionAnyOf(<< >>), block |-> FALSE]

MCHandlers == <<First, Second, Third>>
MCAnswers  == [user |-> {"missing", "yes"}, group |-> {"missing", "yes"},
               remote |-> {"yes", "no", "raises"},
               superuser |-> {"yes", "no"}, banned |-> {"yes", "no"},
               lookup |-> {"yes", "no"}]
\* One payload of two events; or one event, posted twice with one stamp.
MCCarries  == [http |-> [r \in Requests |-> IF r = p THEN <<f, f>> ELSE << >>],
               webhook |-> [r \in Requests |-> <<f>>]]
MCStamp    == [r \in Requests |-> [at |-> 1]]
MCUpdates  == <<f, Ignored, f>>
MCCalls    == {e, <<e, 1>>, task}
=============================================================================
