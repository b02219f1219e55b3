-------------------------- MODULE ParseKeySequence --------------------------
(***************************************************************************)
(* The parser of input and output expressions                              *)
(* (src/src/config/ParseKeySequence.cpp): one token after the other becomes*)
(* key events. A key is buffered first, since what follows decides what it *)
(* means: in A{B} it is held, in A B it is pressed and released.           *)
(*                                                                         *)
(* The parser is an object that is used for one expression after the other,*)
(* of which some make it throw in the middle (ParseConfig.cpp,             *)
(* ClientState.cpp:280). Its members are the record parser and before, the *)
(* local variables of parse() are variables too. expression is what was    *)
(* read, its last token is the one the parser is at. Names of keys are     *)
(* keys already, and what the string typer makes of a literal is part of   *)
(* its token: keys with their modifiers.                                   *)
(***************************************************************************)
EXTENDS KeyEvents, SequencesExt

CONSTANTS
  Vocabularies,       \* what expressions are made of, and how long: [tokens, length]
  LogicalKeys,        \* the keys that stand for two keys until they are replaced
  CommandKey,         \* the action key of a terminal command
  MaxParses           \* bound: expressions that are parsed

\* Tokens: (A B), {, }, ?, ^, $(...), what is no token, and the end.
Sign(kind)               == [kind |-> kind]
KeyToken(key)            == [kind |-> "key", key |-> key]
NotToken(key)            == [kind |-> "not", key |-> key]
TimeoutToken(kind, ms)   == [kind |-> kind, ms |-> ms]
Literal(typed, bytes)    == [kind |-> "literal", typed |-> typed, bytes |-> bytes]
End                      == Sign("end")

ModifierKeys == <<"Shift", "AltLeft", "AltRight", "Control">>

\* get_key_by_name, what the string typer makes of a character, and
\* try_read_timeout: the keys and times that tokens have.
NamedKeys == DeviceKeys \cup VirtualKeys \cup LogicalKeys \cup {"any", "ContextActive"}
Characters == [key : DeviceKeys, modifiers : SUBSET ToSet(ModifierKeys)]
TokenType ==
  [kind : {"(", ")", "{", "}", "?", "^", "$", "invalid"}]
    \cup [kind : {"key", "not"}, key : NamedKeys]
    \cup [kind : {"timeout", "not_timeout"}, ms : 0..MaxTimeout]
    \cup [kind : {"literal"}, typed : Seq(Characters), bytes : Nat]

ASSUME LogicalKeysAreOthers ==
  LogicalKeys \cap (DeviceKeys \cup VirtualKeys \cup ActionKeys
                      \cup {"none", "any", "timeout", "ContextActive"}) = {}

ASSUME VocabulariesAreTokens ==
  /\ MaxParses \in Nat /\ CommandKey \in ActionKeys
  /\ \A v \in Vocabularies : v.tokens \subseteq TokenType /\ v.length \in Nat

VARIABLES
  expression, vocabulary,
  status,             \* idle, parsing, done, error
  parses,             \* expressions parsed so far
  isInput,            \* m_is_input
  parser,             \* the members m_sequence, m_key_buffer, m_pressed_keys
  before,             \*   and m_keys_pressed_before_modifier_group
  together, modified, \* in_together_group, in_modified_group
  noMightMatch, onRelease, hasModifier

group_vars == <<before, together, modified>>
flag_vars  == <<noMightMatch, onRelease, hasModifier>>
vars == <<expression, vocabulary, status, parses, isInput, parser, group_vars, flag_vars>>

Fresh == [sequence |-> << >>, buffer |-> << >>, pressed |-> << >>]

Token == Last(expression)
InGroup == modified > 0

-----------------------------------------------------------------------------
(* The member functions, from a parser to the next. *)

Async(key)  == Event(key, "UpAsync")
NotKey(key) == Event(key, "Not")
Events(keys, state) == Map(keys, LAMBDA key : Event(key, state))

Put(p, events) == [p EXCEPT !.sequence = @ \o events]
Buffer(p, key) == [p EXCEPT !.buffer = Append(@, key)]

\* remove_from_pressed_keys
Forget(p, keys) ==
  [p EXCEPT !.pressed = FlattenSeq(Map(@, LAMBDA k : IF k \in keys THEN << >> ELSE <<k>>))]

\* flush_key_buffer: the keys are pressed, and released or held.
Flush(p, up) ==
  LET events == Events(p.buffer, "Down") \o
                IF ~up THEN << >>
                ELSE Events(p.buffer, IF isInput THEN "UpAsync" ELSE "Up")
      flushed == [Put(p, events) EXCEPT !.buffer = << >>]
  IN
  IF ~up THEN [flushed EXCEPT !.pressed = @ \o p.buffer]
  ELSE IF isInput THEN flushed
  ELSE Forget(flushed, ToSet(p.buffer))

\* A virtual key that was a modifier does not stay toggled.
ReleaseEvents(key) ==
  IF isInput THEN <<Async(key)>>
  ELSE <<Release(key)>> \o IF key \in VirtualKeys THEN <<NotKey(key)>> ELSE << >>

\* Bug: a group that ends releases the keys of the groups around it.
ReleasePressedAll(p, keep) ==
  [Put(p, FlattenSeq(Map(Reverse(p.pressed), ReleaseEvents))) EXCEPT !.pressed = << >>]

\* release_pressed_keys, the last one first
ReleasePressed(p, keep) ==
  LET released == Reverse(SubSeq(p.pressed, keep + 1, Len(p.pressed)))
  IN  [Put(p, FlattenSeq(Map(released, ReleaseEvents)))
         EXCEPT !.pressed = IF keep < Len(@) THEN SubSeq(@, 1, keep) ELSE @]

\* sync_after_not_timeout: the keys released behind a not-timeout have to be.
SyncAfterNotTimeout(p) ==
  LET s == p.sequence
      last == LastOf({i \in DOMAIN s : s[i].state # "UpAsync"})
  IN  IF last > 0 /\ s[last].key = "timeout" /\ IsNotTimeoutState(s[last].state)
      THEN Put(p, Map(SubSeq(s, last + 1, Len(s)), LAMBDA event : Release(event.key)))
      ELSE p

\* remove_all_from_end
RemoveFromEnd(s, state) == SubSeq(s, 1, LastOf({i \in DOMAIN s : s[i].state # state}))

\* all_pressed_at_once
AllPressedAtOnce(s) == ~\E i, j \in DOMAIN s : i < j /\ s[i].state = "Up" /\ s[j].state = "Down"

\* is_pressed
IsPressed(s, key) ==
  LET last == LastOf({i \in DOMAIN s : s[i].key = key}) IN last > 0 /\ s[last].state # "Up"

EndsWith(s, event) == s # << >> /\ SameEvent(Last(s), event)
LastBecomes(s, state) == [s EXCEPT ![Len(s)].state = state]

\* The state of a timeout is what cancels it: in a group a release does, too.
TimeoutState(isNot) ==
  IF ~isInput THEN "Down"
  ELSE IF isNot THEN (IF InGroup THEN "NotTimeout" ELSE "Not")
  ELSE (IF InGroup THEN "Up" ELSE "Down")

\* add_timeout_event, after the keys were flushed: what precedes it and must
\* not be pressed has to be released, and timeouts of the same state are one.
AddTimeout(p, ms, isNot) ==
  LET s == IF isInput /\ Last(p.sequence).state = "Not" THEN LastBecomes(p.sequence, "Up")
                                                        ELSE p.sequence
      timeout == Timeout(TimeoutState(isNot), ms)
  IN  [p EXCEPT !.sequence =
         IF EndsWith(s, timeout) THEN [s EXCEPT ![Len(s)].value = SumTimeouts(@, ms)]
                                 ELSE Append(s, timeout)]

\* What !K adds: a release, if there was a press, else K must not be pressed.
AddNot(p, key) ==
  LET forgotten == Forget(p, {key})
      q == IF isInput /\ forgotten # p THEN Put(forgotten, <<Async(key)>>) ELSE forgotten
  IN
  IF isInput /\ EndsWith(q.sequence, Async(key))
  THEN [q EXCEPT !.sequence = LastBecomes(@, "Up")]
  ELSE IF isInput /\ (IsPressed(q.sequence, key) \/ InGroup)
  THEN Put(q, <<Release(key)>>)
  ELSE Put(q, <<NotKey(key)>>)

-----------------------------------------------------------------------------
(* Literals: the keys of its characters, between changes of the modifiers. *)

Modifiers(typed, i) == IF i = 0 THEN {} ELSE typed[i].modifiers
TypesModifiers(typed) == \E i \in DOMAIN typed : typed[i].modifiers # {}

InputModifier(typed, i, key) ==
  IF key \in Modifiers(typed, i)
  THEN (IF key \in Modifiers(typed, i - 1) THEN <<Async(key)>> ELSE << >>)
         \o <<Event(key, "DownAsync"), Press(key)>>
  ELSE (IF i = 1 THEN <<NotKey(key)>> ELSE << >>)
         \o (IF key \in Modifiers(typed, i - 1) THEN <<Release(key)>> ELSE << >>)

\* A single character - one that is one byte - changes Shift alone.
OutputModifier(typed, i, key, single) ==
  LET isDown  == key \in Modifiers(typed, i)
      wasDown == key \in Modifiers(typed, i - 1)
  IN
  IF single /\ i = 1 /\ key = "Shift" THEN <<IF isDown THEN Press(key) ELSE NotKey(key)>>
  ELSE IF isDown = wasDown THEN << >>
  ELSE <<IF isDown THEN Press(key) ELSE Release(key)>>

\* What is typed: the modifiers of each character and its key, and in the end
\* the modifiers of the last one are released.
Type(typed, ModifierOf(_, _), release) ==
  FlattenSeq([i \in DOMAIN typed |->
      FlattenSeq(Map(ModifierKeys, LAMBDA key : ModifierOf(i, key)))
        \o <<Press(typed[i].key), Event(typed[i].key, release)>>])

ReleaseModifiers(typed, release) ==
  FlattenSeq(Map(ModifierKeys, LAMBDA key :
    IF key \in Modifiers(typed, Len(typed)) THEN <<Event(key, release)>> ELSE << >>))

\* add_string_typing_input: in a group the modifiers do not matter.
TypeInput(typed) ==
  IF InGroup THEN Type(typed, LAMBDA i, key : << >>, "UpAsync")
  ELSE Type(typed, LAMBDA i, key : InputModifier(typed, i, key), "UpAsync")
         \o ReleaseModifiers(typed, "UpAsync")

\* add_string_typing_output
TypeOutput(typed, bytes) ==
  LET single == ~InGroup /\ bytes = 1
  IN  (IF InGroup \/ single THEN << >> ELSE <<NotKey("any")>>)
        \o Type(typed, LAMBDA i, key : OutputModifier(typed, i, key, single), "Up")
        \o ReleaseModifiers(typed, "Up")

-----------------------------------------------------------------------------
(***************************************************************************)
(* operator() and parse(): an action for each kind of token. The parser    *)
(* goes on with the next token or throws an error, which leaves its        *)
(* members as they are.                                                    *)
(***************************************************************************)
Init ==
  /\ expression = << >> /\ vocabulary = [tokens |-> {}, length |-> 0]
  /\ status = "idle" /\ parses = 0 /\ isInput = FALSE
  /\ parser = Fresh /\ before = << >>
  /\ together = FALSE /\ modified = 0
  /\ noMightMatch = FALSE /\ onRelease = FALSE /\ hasModifier = FALSE

\* The expression goes on with any token, or ends.
NextTokens(v, n) == IF n < v.length THEN v.tokens \cup {End} ELSE {End}

\* Bug: the keys an expression before it held are not forgotten.
ClearedButPressed == [Fresh EXCEPT !.pressed = parser.pressed]

Cleared == Fresh

Start ==
  /\ status # "parsing" /\ parses < MaxParses
  /\ \E v \in Vocabularies, asInput \in BOOLEAN :
       \E first \in NextTokens(v, 0) :
         /\ vocabulary' = v /\ isInput' = asInput /\ expression' = <<first>>
  /\ status' = "parsing" /\ parses' = parses + 1
  /\ parser' = Cleared /\ before' = << >>
  /\ together' = FALSE /\ modified' = 0
  /\ noMightMatch' = FALSE /\ onRelease' = FALSE /\ hasModifier' = FALSE

Reads(kind) == status = "parsing" /\ Token.kind = kind

Continue(p) ==
  /\ parser' = p
  /\ \E token \in NextTokens(vocabulary, Len(expression)) :
       expression' = Append(expression, token)
  /\ UNCHANGED <<vocabulary, status, parses, isInput>>

\* throw ParseError
Throw(p) ==
  /\ parser' = p /\ status' = "error"
  /\ UNCHANGED <<expression, vocabulary, parses, isInput, group_vars, flag_vars>>

\* 250ms and !250ms
TimeoutIsWrong(p, isNot) == IF isInput THEN p.sequence = << >> ELSE isNot

ReadsTimeout(isNot) ==
  LET p == Flush(parser, TRUE)
  IN  \/ together /\ Throw(parser)
      \/ ~together /\ TimeoutIsWrong(p, isNot) /\ Throw(p)
      \/ /\ ~together /\ ~TimeoutIsWrong(p, isNot)
         /\ Continue(AddTimeout(p, Token.ms, isNot))
         /\ UNCHANGED <<group_vars, flag_vars>>

ReadTimeout    == Reads("timeout") /\ ReadsTimeout(FALSE)
ReadNotTimeout == Reads("not_timeout") /\ ReadsTimeout(TRUE)

ReadNot ==
  /\ Reads("not")
  /\ \/ together /\ Throw(parser)
     \/ /\ ~together
        /\ Continue(AddNot(Flush(parser, isInput \/ Token.key \in VirtualKeys), Token.key))
        /\ UNCHANGED <<group_vars, flag_vars>>

\* A literal in a group, or that begins one, is a key.
ReadLiteral ==
  /\ Reads("literal") /\ ~together
  /\ LET p == Flush(parser, TRUE)
     IN  Continue(Put(p, IF isInput THEN TypeInput(Token.typed)
                                    ELSE TypeOutput(Token.typed, Token.bytes)))
  /\ Last(expression').kind # "{"
  /\ hasModifier' = (hasModifier \/ TypesModifiers(Token.typed))
  /\ UNCHANGED <<group_vars, noMightMatch, onRelease>>

ReadLiteralKey ==
  /\ Reads("literal")
  /\ Len(Token.typed) < 2
  /\ Continue(IF Token.typed = << >> THEN parser ELSE Buffer(parser, Token.typed[1].key))
  /\ together \/ Last(expression').kind = "{"
  /\ UNCHANGED <<group_vars, flag_vars>>

\* get_key_by_character throws, when there is more than one.
ReadLongLiteral ==
  /\ Reads("literal") /\ Len(Token.typed) > 1
  /\ \/ together /\ UNCHANGED expression
     \/ /\ ~together
        /\ Sign("{") \in NextTokens(vocabulary, Len(expression))
        /\ expression' = Append(expression, Sign("{"))
  /\ status' = "error"
  /\ UNCHANGED <<vocabulary, parses, isInput, parser, group_vars, flag_vars>>

ReadCommand ==
  /\ Reads("$")
  /\ LET wrong == isInput \/ together \/ InGroup
     IN  \/ wrong /\ Throw(parser)
         \/ /\ ~wrong
            /\ Continue(Put(Flush(parser, TRUE), <<Press(CommandKey)>>))
            /\ UNCHANGED <<group_vars, flag_vars>>

ReadOnRelease ==
  /\ Reads("^")
  /\ LET wrong == isInput \/ onRelease \/ together \/ InGroup
     IN  \/ wrong /\ Throw(parser)
         \/ /\ ~wrong
            /\ Continue(Put(Flush(parser, TRUE), <<Event("none", "OutputOnRelease")>>))
            /\ onRelease' = TRUE
            /\ UNCHANGED <<group_vars, noMightMatch, hasModifier>>

ReadNoMightMatch ==
  /\ Reads("?")
  /\ LET wrong == \/ ~isInput \/ onRelease \/ together
                  \/ parser.sequence # << >> \/ parser.buffer # << >>
     IN  \/ wrong /\ Throw(parser)
         \/ /\ ~wrong
            /\ Continue(Put(parser, <<Event("none", "NoMightMatch")>>))
            /\ noMightMatch' = TRUE
            /\ UNCHANGED <<group_vars, onRelease, hasModifier>>

\* ( begins a together-group,
BeginTogether ==
  /\ Reads("(")
  /\ \/ together /\ Throw(parser)
     \/ /\ ~together
        /\ Continue(Flush(parser, TRUE))
        /\ together' = TRUE
        /\ UNCHANGED <<before, modified, flag_vars>>

\* and ) ends it. Its keys stay in the buffer.
EndTogether ==
  /\ Reads(")")
  /\ \/ ~together /\ Throw(parser)
     \/ /\ together
        /\ Continue(IF isInput THEN Put(parser, Events(parser.buffer, "DownAsync")) ELSE parser)
        /\ together' = FALSE
        /\ UNCHANGED <<before, modified, flag_vars>>

\* Bug: only the outermost group is noted.
NotedOnce == IF before = << >> THEN <<Len(parser.pressed)>> ELSE before

Noted == Append(before, Len(parser.pressed))

\* { begins a modified-group: the keys before it are held.
BeginModified ==
  /\ Reads("{")
  /\ LET wrong == together \/ parser.buffer = << >>
     IN  \/ wrong /\ Throw(parser)
         \/ /\ ~wrong
            /\ Continue(Flush(parser, FALSE))
            /\ before' = Noted
            /\ modified' = modified + 1 /\ hasModifier' = TRUE
            /\ UNCHANGED <<together, noMightMatch, onRelease>>

EndModified ==
  /\ Reads("}")
  /\ \/ ~InGroup /\ Throw(parser)
     \/ /\ InGroup
        /\ LET p == ReleasePressed(Flush(parser, TRUE), Last(before))
           IN  Continue(IF isInput THEN SyncAfterNotTimeout(p) ELSE p)
        /\ before' = Front(before) /\ modified' = modified - 1
        /\ UNCHANGED <<together, flag_vars>>

ReadKey ==
  /\ Reads("key")
  /\ Continue(Buffer(IF together THEN parser ELSE Flush(parser, TRUE), Token.key))
  /\ UNCHANGED <<group_vars, flag_vars>>

\* What is neither a key nor anything else.
ReadInvalid == Reads("invalid") /\ Throw(IF together THEN parser ELSE Flush(parser, TRUE))

-----------------------------------------------------------------------------
(* The end of the expression. *)

\* convert_final_not_to_up
ConvertFinalNot(s) ==
  IF s # << >> /\ Last(s).state = "Not" /\ Last(s).key # "timeout" THEN LastBecomes(s, "Up") ELSE s

EndInput(p) ==
  [p EXCEPT !.sequence =
     ConvertFinalNot(IF noMightMatch THEN RemoveFromEnd(@, "UpAsync") ELSE @)]

EndOutput(p) ==
  LET released == ReleasePressed(p, 0)
  IN  IF ~hasModifier /\ AllPressedAtOnce(released.sequence)
      THEN [released EXCEPT !.sequence = RemoveFromEnd(@, "Up")] ELSE released

Ended == LET p == Flush(parser, TRUE) IN IF isInput THEN EndInput(p) ELSE EndOutput(p)

HasKey(s, keys) == \E i \in DOMAIN s : s[i].key \in keys
HasKeyEvent(s)  == \E i \in DOMAIN s : IsNonOptional(s[i]) /\ s[i].key # "timeout"

IsWrong(s) ==
  \/ isInput /\ ~HasKeyEvent(s)
  \/ noMightMatch /\ HasKey(s, VirtualKeys)
  \/ HasKey(s, {"ContextActive"}) /\ (~isInput \/ Len(s) # 2)

\* check_ContextActive_usage: it is not released.
WithoutContextInactive(s) == IF HasKey(s, {"ContextActive"}) THEN Front(s) ELSE s

Finish ==
  /\ Reads("end")
  /\ \/ (together \/ InGroup) /\ Throw(Flush(parser, TRUE))
     \/ ~together /\ ~InGroup /\ IsWrong(Ended.sequence) /\ Throw(Ended)
     \/ /\ ~together /\ ~InGroup /\ ~IsWrong(Ended.sequence)
        /\ parser' = [Ended EXCEPT !.sequence = WithoutContextInactive(@)]
        /\ status' = "done"
        /\ UNCHANGED <<expression, vocabulary, parses, isInput, group_vars, flag_vars>>

Next ==
  \/ Start
  \/ ReadTimeout \/ ReadNotTimeout \/ ReadNot
  \/ ReadLiteral \/ ReadLiteralKey \/ ReadLongLiteral
  \/ ReadCommand \/ ReadOnRelease \/ ReadNoMightMatch
  \/ BeginTogether \/ EndTogether \/ BeginModified \/ EndModified
  \/ ReadKey \/ ReadInvalid
  \/ Finish

Spec == Init /\ [][Next]_vars

-----------------------------------------------------------------------------
(* What the expressions mean, told without a buffer. *)

EventType == [key : NamedKeys \cup ActionKeys \cup ToSet(ModifierKeys) \cup {"timeout", "none"},
              state : KeyStates, value : 0..MaxTimeout]

\* Each group that is open has its entry in m_keys_pressed_before_modifier_group,
\* so none is taken of an empty vector, and nothing is left of a finished one.
TypeOK ==
  /\ status \in {"idle", "parsing", "done", "error"}
  /\ ToSet(parser.sequence) \subseteq EventType
  /\ {together, noMightMatch, onRelease, hasModifier, isInput} \subseteq BOOLEAN
  /\ modified \in Nat /\ Len(before) = modified
  /\ \A i \in DOMAIN before : before[i] \in Nat
  /\ status = "done" => ~together /\ modified = 0 /\ parser.buffer = << >>

\* The keys that are pressed before position i and not released.
HeldAt(s, i) ==
  {k \in {s[j].key : j \in 1..(i - 1)} :
     LET last == Max({0} \cup {j \in 1..(i - 1) : s[j].key = k /\ s[j].state # "DownAsync"})
     IN  last > 0 /\ s[last].state = "Down"}

\* Strokes: each key that is pressed, and what is held meanwhile.
IsStroke(event) == event.state = "Down" /\ event.key \notin ToSet(ModifierKeys) \cup {"timeout"}
StrokesOf(s) ==
  LET positions == SelectSeq([i \in DOMAIN s |-> i], LAMBDA i : IsStroke(s[i]))
  IN  Map(positions, LAMBDA i : [key |-> s[i].key, held |-> HeldAt(s, i) \ ({"timeout"} \cup ActionKeys)])

\* The keys of a group in parentheses follow each other, a key in braces is
\* pressed while those before the brace are held, a character of a literal
\* while its modifiers are - but for an input in a group. Open are the keys of
\* the groups around, recent are those that a brace would hold.
KeyOf(i) == IF expression[i].kind = "literal" THEN expression[i].typed[1].key ELSE expression[i].key
IsKey(w, i) ==
  \/ expression[i].kind = "key"
  \/ /\ expression[i].kind = "literal" /\ expression[i].typed # << >>
     /\ w.together \/ expression[i + 1].kind = "{"

WriteKey(w, key) ==
  LET open == UNION ToSet(w.open)
      recent == IF w.together THEN w.recent ELSE {}
  IN  [w EXCEPT !.strokes = Append(@, [key |-> key, held |-> open \cup recent]),
                !.recent = recent \cup {key}, !.plain = @ /\ key \notin open]

WriteTyped(w, typed) ==
  LET open == UNION ToSet(w.open)
      modifiers(i) == IF isInput /\ w.open # << >> THEN {} ELSE typed[i].modifiers
  IN  [w EXCEPT !.recent = {},
         !.strokes = @ \o [i \in DOMAIN typed |-> [key |-> typed[i].key, held |-> open \cup modifiers(i)]],
         !.plain = @ /\ \A i \in DOMAIN typed : typed[i].key \notin open]

Write(w, i) ==
  LET token == expression[i]
      kind == token.kind
  IN
  IF IsKey(w, i)
  THEN [WriteKey(w, KeyOf(i)) EXCEPT !.plain =
          @ /\ (kind = "literal" /\ ~w.together => w.recent = {})]
  ELSE IF kind = "literal" THEN (IF w.together THEN w ELSE WriteTyped(w, token.typed))
  ELSE IF kind = "(" THEN [w EXCEPT !.together = TRUE, !.recent = {}]
  ELSE IF kind = ")" THEN [w EXCEPT !.together = FALSE]
  ELSE IF kind = "{" THEN [w EXCEPT !.open = Append(@, w.recent), !.recent = {}]
  ELSE IF kind = "}" THEN [w EXCEPT !.open = Front(@), !.recent = {}]
  ELSE IF kind = "$" THEN [WriteKey(w, CommandKey) EXCEPT !.recent = {}]
  ELSE [w EXCEPT !.recent = {},
          !.plain = @ /\ (kind = "not" => /\ token.key \notin UNION ToSet(w.open)
                                          /\ isInput \/ token.key \in VirtualKeys \/ w.recent = {})]

Written == FoldLeft(Write, [strokes |-> << >>, open |-> << >>, recent |-> {}, together |-> FALSE,
                            plain |-> TRUE],
                    [i \in DOMAIN expression |-> i])

\* Keys are pressed in the order they are written in, and each of them while
\* those are held that it is written in the braces of. Three kinds of
\* expressions are not plain: !K behind other keys of an output holds these,
\* K in a group that K holds releases it early, and so does !K; and a literal
\* before a brace takes the key that precedes it for its own.
StrokesAsWritten ==
  status = "done" /\ Written.plain => StrokesOf(parser.sequence) = Written.strokes

\* A command is not released, the press of an action is all there is.
IsPress(event) == event.state = "Down" /\ event.key \notin ActionKeys \cup {"timeout", "ContextActive"}
IsRelease(event) == event.state \in {"Up", "UpAsync"} /\ event.key # "timeout"

\* What an expression presses it releases - but for an output without modifiers
\* that is all pressed before anything is released, which may end with its
\* trigger, and an input that does not wait for the last release. It releases
\* only what it presses, or names as !K.
PressesArePaired ==
  LET s == parser.sequence
      held == ~isInput /\ ~hasModifier /\ AllPressedAtOnce(s)
  IN  status = "done" =>
        /\ held \/ noMightMatch \/
             \A i \in DOMAIN s : IsPress(s[i]) =>
               \E j \in DOMAIN s : j > i /\ s[j].key = s[i].key /\ (IsRelease(s[j]) \/ s[j].state = "Not")
        /\ \A i \in DOMAIN s : IsRelease(s[i]) =>
             \/ \E j \in DOMAIN s : j < i /\ s[j].key = s[i].key /\ s[j].state = "Down"
             \/ isInput /\ NotToken(s[i].key) \in ToSet(expression)

=============================================================================
