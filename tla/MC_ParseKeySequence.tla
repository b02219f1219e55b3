------------------------ MODULE MC_ParseKeySequence ------------------------
(***************************************************************************)
(* All input and output expressions of the vocabularies: groups in groups, *)
(* keys that must not be pressed, timeouts, literals, and the signs that   *)
(* are only allowed in some places. Each is parsed by a parser that is     *)
(* new, has parsed another one or has thrown an error.                     *)
(***************************************************************************)
EXTENDS ParseKeySequence

MCKeyboard == {"A", "B", "C"}
MCVirtual  == {"Virtual1"}
MCActions  == {"Action0"}
MCLogical  == {"Both"}

Groups == {Sign("("), Sign(")"), Sign("{"), Sign("}")}
Braces == {Sign("{"), Sign("}")}
Wait    == TimeoutToken("timeout", 3000)
NotWait == TimeoutToken("not_timeout", 3000)
Typed(key, modifiers) == [key |-> key, modifiers |-> modifiers]

\* 'b', 'Ab', a character with two modifiers and two bytes, and ''.
Literals == { Literal(<<Typed("B", {})>>, 1),
              Literal(<<Typed("A", {"Shift"}), Typed("B", {})>>, 2),
              Literal(<<Typed("C", {"Shift", "AltRight"})>>, 2),
              Literal(<< >>, 0) }

\* ? ContextActive is left out: it becomes an input without events, which the
\* server asserts not to get (README.md).
MCVocabularies ==
  { [tokens |-> {KeyToken("A"), KeyToken("Both")} \cup Groups,                    length |-> 8],
    [tokens |-> {KeyToken("A"), KeyToken("Virtual1"), NotToken("A"), NotToken("B"),
                 NotToken("Virtual1")} \cup Braces,                               length |-> 5],
    [tokens |-> {KeyToken("A"), NotToken("A"), Wait, NotWait, Sign("(")} \cup Braces,
                                                                                  length |-> 5],
    [tokens |-> {KeyToken("A")} \cup Literals \cup Groups,                         length |-> 4],
    [tokens |-> {KeyToken("A"), KeyToken("Virtual1"), NotToken("B"), Wait,
                 Sign("$"), Sign("^"), Sign("?"), Sign("(")},                     length |-> 4],
    [tokens |-> {KeyToken("A"), KeyToken("ContextActive"), Sign("^"), Sign("invalid")},
                                                                                  length |-> 3] }

=============================================================================
