---------------------------- MODULE HandlerMatch ----------------------------
(***************************************************************************)
(* Which handlers an event is for, before any rule is asked: the adapter,  *)
(* type and detail type that a handler names, and what it says of the text *)
(* of a message or command.  An empty set stands for no condition.         *)
(*                                                                         *)
(* A text is a sequence of symbols, one of which is the blank.  A regular  *)
(* expression is the set of the texts it is found in.                      *)
(***************************************************************************)
EXTENDS Naturals, SequencesExt, FiniteSetsExt

CONSTANT Blank

Satisfies(x, wanted) == wanted = {} \/ x \in wanted

From(text, i) == SubSeq(text, i, Len(text))

\* strip()
Stripped(text) ==
  LET inner == {i \in DOMAIN text : text[i] # Blank}
  IN  IF inner = {} THEN << >> ELSE SubSeq(text, Min(inner), Max(inner))

Occurs(token, text) == \E i \in 1 .. Len(text) + 1 : IsPrefix(token, From(text, i))

\* _match_message()
MatchesMessage(spec, text) ==
  /\ spec.startswith = {} \/ \E s \in spec.startswith : IsPrefix(s, text)
  /\ spec.contains = {} \/ \E s \in spec.contains : Occurs(s, text)
  /\ \A found \in spec.regex : text \in found

\* A command is followed by its arguments or by nothing.
IsCommand(name, body) == body = name \/ IsPrefix(Append(name, Blank), body)

\* _match_command()
MatchesCommand(spec, text) ==
  \E prefix \in spec.prefixes :
    /\ IsPrefix(prefix, Stripped(text))
    /\ \E name \in spec.commands :
         IsCommand(name, Stripped(From(Stripped(text), Len(prefix) + 1)))

\* _match_handler()
Matches(spec, e) ==
  /\ Satisfies(e.adapter, spec.adapters)
  /\ Satisfies(e.type, spec.types)
  /\ Satisfies(e.detail, spec.details)
  /\ \/ spec.kind = "event"
     \/ spec.kind = "message" /\ MatchesMessage(spec, e.text)
     \/ spec.kind = "command" /\ MatchesCommand(spec, e.text)
=============================================================================
