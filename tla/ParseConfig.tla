----------------------------- MODULE ParseConfig -----------------------------
(***************************************************************************)
(* How the lines of a configuration become the contexts the client and the *)
(* server work with (src/src/config/ParseConfig.cpp): the lines are read   *)
(* into contexts, commands and logical keys, then the contexts are         *)
(* completed, reduced to those of this system, and rid of logical keys.    *)
(*                                                                         *)
(* lines is what was read so far. A line is what parsing makes of its text:*)
(* macros are replaced, expressions are key events with the names of keys, *)
(* one name stands for the window and device filters of a context, and     *)
(* whether its system filter matches is known. Included files are read in  *)
(* place, their lines are like any others.                                 *)
(***************************************************************************)
EXTENDS KeyEvents, SequencesExt

CONSTANTS
  Vocabularies,       \* what configurations are made of, and how long: [lines, length]
  CommonLogicalKeys,  \* registered before the first line: [name, left, right]
  LogicalKeys,        \* the keys that stand for logical keys, in order
  ToggleActive        \* the action key of @toggle-active

\* Keys that no name of a logical key stands for.
OtherKeys == DeviceKeys \cup VirtualKeys \cup ActionKeys \cup {"none", "any", "timeout", "ContextActive"}

ASSUME LogicalKeysAreEnough ==
  /\ LogicalKeys \in Seq(STRING) /\ IsInjective(LogicalKeys)
  /\ ToSet(LogicalKeys) \cap OtherKeys = {}
  /\ CommonLogicalKeys \in Seq([name : STRING, left : DeviceKeys, right : DeviceKeys])
  /\ Len(CommonLogicalKeys) <= Len(LogicalKeys)
  /\ ToggleActive \in ActionKeys

\* Lines: # or nothing, [stage], [filter system modifier], an input with an
\* output or a command, a command with an output, a definition, directives.
EmptyLine == [kind |-> "empty"]
StageLine == [kind |-> "stage"]
ContextLine(filter, system, modifier, invert) ==
  [kind |-> "context", filter |-> filter, system |-> system,
   modifier |-> modifier, invert |-> invert]
MappingLine(input, output) == [kind |-> "mapping", input |-> input, output |-> output]
CommandLine(input, name)   == [kind |-> "command", input |-> input, name |-> name]
OutputLine(name, output)   == [kind |-> "output", name |-> name, output |-> output]
LogicalLine(name, keys)    == [kind |-> "logical", name |-> name, keys |-> keys]
ToggleLine(input)          == [kind |-> "toggle-active", input |-> input]
ForwardLine(keys)          == [kind |-> "forward-modifiers", keys |-> keys]
AllowLine(value)           == [kind |-> "allow-unmapped-commands", value |-> value]
DoneLine                   == [kind |-> "done"]

\* A definition has two keys or more.
Expressions == Seq([key : STRING, state : KeyStates, value : 0..MaxTimeout])
LineType ==
  [kind : {"empty", "stage", "done"}]
    \cup [kind : {"context"}, filter : STRING, system : BOOLEAN,
          modifier : Expressions, invert : BOOLEAN]
    \cup [kind : {"mapping"}, input : Expressions, output : Expressions]
    \cup [kind : {"command"}, input : Expressions, name : STRING]
    \cup [kind : {"output"}, name : STRING, output : Expressions]
    \cup [kind : {"logical"}, name : STRING, keys : {keys \in Seq(STRING) : Len(keys) > 1}]
    \cup [kind : {"toggle-active"}, input : Expressions]
    \cup [kind : {"forward-modifiers"}, keys : Seq(STRING)]
    \cup [kind : {"allow-unmapped-commands"}, value : BOOLEAN]

ASSUME VocabulariesAreLines ==
  \A v \in Vocabularies : v.lines \subseteq LineType /\ v.length \in Nat

VARIABLES
  lines, vocabulary,
  status,             \* reading, forward, optimize, replace, suppress, done, error
  contexts,           \* m_config.contexts
  commands,           \* m_commands, of which the n-th has the index -n
  logical,            \* m_logical_keys
  unreplaced,         \* how many of them are still to be replaced
  systemMatched, afterEmptyBlock, allowUnmapped, forwardModifiers

file_vars    == <<lines, vocabulary>>
setting_vars == <<systemMatched, afterEmptyBlock, allowUnmapped, forwardModifiers>>
vars == <<file_vars, status, contexts, commands, logical, unreplaced, setting_vars>>

NewContext ==
  [filter |-> "", system |-> TRUE, modifier |-> << >>, invert |-> FALSE,
   fallthrough |-> FALSE, beginStage |-> FALSE,
   inputs |-> << >>, outputs |-> << >>, commandOutputs |-> << >>]

Async(key)  == Event(key, "UpAsync")
NotKey(key) == Event(key, "Not")

Mentions(sequence, key) == \E i \in DOMAIN sequence : sequence[i].key = key

-----------------------------------------------------------------------------
(* Names of keys *)

\* The first logical key of a name, 0 if there is none.
LogicalKey(name) == FirstOf({i \in DOMAIN logical : logical[i].name = name})
IsKey(name) ==
  name \in DeviceKeys \cup VirtualKeys \cup {"any", "ContextActive"} \/ LogicalKey(name) > 0

\* get_key_by_name
KeyByName(name) == IF LogicalKey(name) = 0 THEN name ELSE logical[LogicalKey(name)].both

\* What parsing makes of an expression of keys that exist. The other keys of
\* events are those of commands, timeouts and the signs ? and ^.
AreKeys(sequence) ==
  \A i \in DOMAIN sequence :
    IsKey(sequence[i].key) \/ sequence[i].key \in ActionKeys \cup {"none", "timeout"}
Parsed(sequence) == Map(sequence, LAMBDA event : [event EXCEPT !.key = KeyByName(@)])

\* ContextActive is for inputs (parse_output, parse_modifier_list).
IsOutput(sequence) == AreKeys(sequence) /\ ~Mentions(sequence, "ContextActive")

\* add_logical_key, for one key after the other: with more than two keys, all
\* but the last are logical keys of their own, which have no name ("$").
Registered(keys, name, left, right) ==
  Append(keys, [name |-> name, both |-> LogicalKeys[Len(keys) + 1], left |-> left, right |-> right])

RegisterNext(acc, right) ==
  LET next == Registered(acc.keys, "$", acc.left, KeyByName(right))
  IN  [keys |-> next, left |-> Last(next).both]

RegisteredAll(keys, name, names) ==
  LET inner == FoldLeft(RegisterNext, [keys |-> keys, left |-> KeyByName(names[1])],
                        SubSeq(names, 2, Len(names) - 1))
  IN  Registered(inner.keys, name, inner.left, KeyByName(Last(names)))

-----------------------------------------------------------------------------
(* Reading lines *)

Reads(line) ==
  /\ status = "reading" /\ Len(lines) < vocabulary.length
  /\ lines' = Append(lines, line)
  /\ UNCHANGED <<vocabulary, unreplaced>>

LinesOf(kind) == {line \in vocabulary.lines : line.kind = kind}

\* The line throws a ConfigError.
Fails == /\ status' = "error"
         /\ UNCHANGED <<contexts, commands, logical, setting_vars>>

\* What a line that is neither a context nor a directive does to the current context.
CurrentContext == Last(contexts)
IsIn(context) ==
  /\ contexts' = [contexts EXCEPT ![Len(contexts)] = context]
  /\ afterEmptyBlock' = FALSE
  /\ UNCHANGED <<status, logical, systemMatched, allowUnmapped, forwardModifiers>>

ReadEmptyLine ==
  /\ \E line \in LinesOf("empty") : Reads(line)
  /\ IsIn(CurrentContext)
  /\ UNCHANGED commands

\* add_mapping of an input and an output
WithMapping(context, input, output) ==
  [context EXCEPT !.inputs  = Append(@, [input |-> input, output |-> Len(context.outputs)]),
                  !.outputs = Append(@, output)]

ReadMapping ==
  \E line \in LinesOf("mapping") :
    /\ Reads(line)
    /\ IF AreKeys(line.input) /\ IsOutput(line.output)
       THEN /\ IsIn(WithMapping(CurrentContext, Parsed(line.input), Parsed(line.output)))
            /\ UNCHANGED commands
       ELSE Fails

Command(name) == FirstOf({i \in DOMAIN commands : commands[i].name = name})

\* add_command
ReadCommand ==
  \E line \in LinesOf("command") :
    /\ Reads(line)
    /\ IF AreKeys(line.input)
       THEN /\ commands' = IF Command(line.name) > 0 THEN commands
                           ELSE Append(commands, [name |-> line.name, mapped |-> FALSE])
            /\ IsIn([CurrentContext EXCEPT !.inputs =
                       Append(@, [input |-> Parsed(line.input), output |-> -Command(line.name)'])])
       ELSE Fails

\* add_mapping of a command and an output
ReadOutput ==
  \E line \in LinesOf("output") :
    LET command == Command(line.name)
        outputs == CurrentContext.commandOutputs
    IN
    /\ Reads(line)
    /\ IF \/ command = 0 /\ ~allowUnmapped
          \/ ~IsOutput(line.output)
          \/ command > 0 /\ \E i \in DOMAIN outputs : outputs[i].index = -command
       THEN Fails
       ELSE IF command = 0
       THEN IsIn(CurrentContext) /\ UNCHANGED commands
       ELSE /\ commands' = [commands EXCEPT ![command].mapped = TRUE]
            /\ IsIn([CurrentContext EXCEPT !.commandOutputs =
                       Append(@, [index |-> -command, output |-> Parsed(line.output)])])

\* parse_modifier_list: duplicate keys are removed.
AddModifier(acc, event) == IF Mentions(acc, event.key) THEN acc ELSE Append(acc, event)
Modifiers(sequence) == FoldLeft(AddModifier, << >>, sequence)

\* Bug: also a stage falls through into the one that begins.
FallsThroughAlways(afterEmpty, context) == afterEmpty
\* A context without mappings shares those of the next one.
FallsThrough(afterEmpty, context) == afterEmpty /\ ~context.beginStage

Begin(context) ==
  LET before == IF FallsThrough(afterEmptyBlock, context)
                THEN [contexts EXCEPT ![Len(contexts)].fallthrough = TRUE] ELSE contexts
  IN
  /\ contexts' = Append(before, context)
  /\ afterEmptyBlock' = ~context.beginStage
  /\ systemMatched' = context.system
  /\ UNCHANGED <<status, commands, logical, allowUnmapped, forwardModifiers>>

\* parse_context
ReadContext ==
  \E line \in LinesOf("context") :
    /\ Reads(line)
    /\ IF IsOutput(line.modifier)
       THEN Begin([NewContext EXCEPT !.filter = line.filter, !.system = line.system,
                     !.modifier = Modifiers(Parsed(line.modifier)), !.invert = line.invert])
       ELSE Fails

ReadStage ==
  /\ \E line \in LinesOf("stage") : Reads(line)
  /\ Begin([NewContext EXCEPT !.beginStage = TRUE])

\* parse_logical_key_definition. A line whose name is a key, or whose first key
\* is none, defines a macro.
ReadLogicalKey ==
  \E line \in LinesOf("logical") :
    /\ ~IsKey(line.name) /\ IsKey(line.keys[1])
    /\ Reads(line)
    /\ IF /\ \A i \in DOMAIN line.keys : IsKey(line.keys[i])
          /\ Len(logical) + Len(line.keys) - 1 <= Len(LogicalKeys)
       THEN /\ logical' = RegisteredAll(logical, line.name, line.keys)
            /\ UNCHANGED <<status, contexts, commands, setting_vars>>
       ELSE Fails

-----------------------------------------------------------------------------
(* Directives: those in a context of another system are ignored. *)

Directive(kind, line) == line \in LinesOf(kind) /\ Reads(line) /\ systemMatched

IgnoreDirective ==
  /\ \E kind \in {"toggle-active", "forward-modifiers", "allow-unmapped-commands", "done"} :
       \E line \in LinesOf(kind) : Reads(line)
  /\ ~systemMatched
  /\ UNCHANGED <<status, contexts, commands, logical, setting_vars>>

\* add_toggle_active_context: a context of its own, in front of all others.
ToggleActiveContext(input) ==
  WithMapping(NewContext,
    (IF input[1].state = "NoMightMatch" THEN << >> ELSE <<Event("none", "NoMightMatch")>>) \o input,
    <<Press(ToggleActive), Event("none", "OutputOnRelease")>>)

ReadToggleActive ==
  \E line \in vocabulary.lines :
    /\ Directive("toggle-active", line)
    /\ IF AreKeys(line.input)
       THEN /\ contexts' = <<ToggleActiveContext(Parsed(line.input))>> \o contexts
            /\ UNCHANGED <<status, commands, logical, setting_vars>>
       ELSE Fails

\* parse_forward_modifiers_list: a logical key forwards both its keys, once.
Forwarded(name) ==
  LET l == LogicalKey(name)
  IN  IF l = 0 THEN <<name>> ELSE <<logical[l].left, logical[l].right>>
Once(acc, key) == IF Contains(acc, key) THEN acc ELSE Append(acc, key)
ForwardedAll(names) == FoldLeft(Once, << >>, FlattenSeq(Map(names, Forwarded)))

ReadForwardModifiers ==
  \E line \in vocabulary.lines :
    /\ Directive("forward-modifiers", line)
    /\ IF \A i \in DOMAIN line.keys : line.keys[i] \in DeviceKeys \/ LogicalKey(line.keys[i]) > 0
       THEN /\ forwardModifiers' = ForwardedAll(line.keys)
            /\ UNCHANGED <<status, contexts, commands, logical,
                           systemMatched, afterEmptyBlock, allowUnmapped>>
       ELSE Fails

ReadAllowUnmapped ==
  \E line \in vocabulary.lines :
    /\ Directive("allow-unmapped-commands", line)
    /\ allowUnmapped' = line.value
    /\ UNCHANGED <<status, contexts, commands, logical,
                   systemMatched, afterEmptyBlock, forwardModifiers>>

-----------------------------------------------------------------------------
(* After the last line *)

\* The end of the file, or @done. Commands without an output are errors.
EndStatus ==
  IF ~allowUnmapped /\ \E i \in DOMAIN commands : ~commands[i].mapped THEN "error" ELSE "forward"

ReadDone ==
  /\ \E line \in vocabulary.lines : Directive("done", line)
  /\ status' = EndStatus
  /\ UNCHANGED <<contexts, commands, logical, setting_vars>>

EndOfFile ==
  /\ status = "reading" /\ status' = EndStatus
  /\ UNCHANGED <<file_vars, contexts, commands, logical, unreplaced, setting_vars>>

Continues(from, to) ==
  /\ status = from /\ status' = to
  /\ UNCHANGED <<file_vars, commands, logical, setting_vars>>

\* prepend_forward_modifier_mappings: the outputs are added last key first.
WithForwards(context) ==
  LET n == Len(forwardModifiers)
  IN
  IF ~context.beginStage THEN context
  ELSE [context EXCEPT
          !.inputs  = [i \in 1..n |-> [input  |-> <<Press(forwardModifiers[i]), Async(forwardModifiers[i])>>,
                                       output |-> Len(context.outputs) + n - i]] \o @,
          !.outputs = @ \o Reverse(Map(forwardModifiers, LAMBDA key : <<Press(key)>>))]

PrependForwardModifiers ==
  /\ Continues("forward", "optimize")
  /\ contexts' = Map(contexts, WithForwards)
  /\ UNCHANGED unreplaced

HasNoEffect(cs, i) ==
  cs[i].inputs = << >> /\ cs[i].commandOutputs = << >> /\ (i = 1 \/ ~cs[i].beginStage)

\* Bug: the mappings of a removed context go to one that still falls through.
GivenMappingsOnly(cs, i) ==
  IF ~(i > 1 /\ cs[i - 1].fallthrough) THEN cs
  ELSE [cs EXCEPT ![i - 1] = [@ EXCEPT !.inputs = cs[i].inputs, !.outputs = cs[i].outputs,
                                       !.commandOutputs = cs[i].commandOutputs]]

\* The last of the contexts that fall through to a removed one replaces it.
GivenMappings(cs, i) ==
  IF ~(i > 1 /\ cs[i - 1].fallthrough) THEN cs
  ELSE [cs EXCEPT ![i - 1] = [@ EXCEPT !.inputs = cs[i].inputs, !.outputs = cs[i].outputs,
                                       !.commandOutputs = cs[i].commandOutputs, !.fallthrough = FALSE]]

OptimizeContext(acc, i) ==
  LET context == acc.contexts[i]
      canNotMatch == ~context.system
  IN
  IF context.fallthrough
  THEN IF canNotMatch \/ ~acc.beforeContext
       THEN [acc EXCEPT !.contexts = RemoveAt(@, i)] ELSE acc
  ELSE IF canNotMatch \/ HasNoEffect(acc.contexts, i)
  THEN [contexts |-> RemoveAt(GivenMappings(acc.contexts, i), i), beforeContext |-> FALSE]
  ELSE [acc EXCEPT !.beforeContext = TRUE]

\* optimize_contexts, the last one first. At least one context remains.
Optimized(cs) ==
  FoldLeft(OptimizeContext, [contexts |-> cs, beforeContext |-> FALSE],
           Reverse([i \in DOMAIN cs |-> i])).contexts

OptimizeContexts ==
  /\ Continues("optimize", "replace")
  /\ contexts' = IF Optimized(contexts) = << >> THEN <<NewContext>> ELSE Optimized(contexts)
  /\ unreplaced' = Len(logical)

-----------------------------------------------------------------------------
(* Logical keys *)

\* replace_key and replace_not_key
ReplaceKey(sequence, both, key) ==
  Map(sequence, LAMBDA event : IF event.key = both THEN [event EXCEPT !.key = key] ELSE event)
ReplaceNotKey(sequence, k) ==
  FlattenSeq(Map(sequence, LAMBDA event :
    IF event = NotKey(k.both) THEN <<NotKey(k.left), NotKey(k.right)>> ELSE <<event>>))

\* An input with a logical key becomes one with the left and one with the right
\* key. Each has an output of its own when the output has the key, too.
Duplicated(acc, in, k) ==
  LET left  == [in EXCEPT !.input = ReplaceKey(@, k.both, k.left)]
      right == [in EXCEPT !.input = ReplaceKey(@, k.both, k.right)]
  IN
  IF ~Mentions(in.input, k.both) THEN [acc EXCEPT !.inputs = Append(@, in)]
  ELSE IF in.output >= 0 /\ Mentions(acc.outputs[in.output + 1], k.both)
  THEN [inputs  |-> acc.inputs \o <<left, [right EXCEPT !.output = Len(acc.outputs)]>>,
        outputs |-> Append(acc.outputs, ReplaceKey(acc.outputs[in.output + 1], k.both, k.right))]
  ELSE [acc EXCEPT !.inputs = @ \o <<left, right>>]

DuplicatedAll(context, k) ==
  FoldLeft(LAMBDA acc, in : Duplicated(acc, in, k),
           [inputs |-> << >>, outputs |-> context.outputs], context.inputs)

ReplacedNots(context, k) ==
  LET not(sequence) == ReplaceNotKey(sequence, k)
  IN  [context EXCEPT
         !.inputs = Map(@, LAMBDA in : [in EXCEPT !.input = not(@)]), !.outputs = Map(@, not),
         !.commandOutputs = Map(@, LAMBDA c : [c EXCEPT !.output = not(@)]), !.modifier = not(@)]

Replaced(context, k) ==
  LET left(sequence) == ReplaceKey(sequence, k.both, k.left)
      duplicated == DuplicatedAll(context, k)
  IN  [context EXCEPT
         !.inputs = duplicated.inputs, !.outputs = Map(duplicated.outputs, left),
         !.commandOutputs = Map(@, LAMBDA c : [c EXCEPT !.output = left(@)])]

\* A context with a logical key in its modifier filter becomes one with the
\* left key, which falls through to one with the right key.
Split(context, k) ==
  IF ~Mentions(context.modifier, k.both) THEN <<context>>
  ELSE << [context EXCEPT !.modifier = ReplaceKey(@, k.both, k.left), !.fallthrough = TRUE,
             !.inputs = << >>, !.outputs = << >>, !.commandOutputs = << >>],
          [context EXCEPT !.modifier = ReplaceKey(@, k.both, k.right)] >>

\* replace_logical_key, for each key in reverse order of registration
ReplaceLogicalKey ==
  LET k == logical[unreplaced]
  IN
  /\ unreplaced > 0
  /\ Continues("replace", "replace")
  /\ contexts' = FlattenSeq(Map(contexts, LAMBDA c : Split(Replaced(ReplacedNots(c, k), k), k)))
  /\ unreplaced' = unreplaced - 1

ReplacedLogicalKeys ==
  /\ unreplaced = 0
  /\ Continues("replace", "suppress")
  /\ UNCHANGED <<contexts, unreplaced>>

-----------------------------------------------------------------------------
(* Forwarded modifiers are not pressed while something else is output. *)

PrependNot(output, key) ==
  IF Contains(output, Press(key)) \/ Contains(output, NotKey(key)) THEN output
  ELSE <<NotKey(key)>> \o output

Triggered(context, key) ==
  {in.output : in \in {i \in ToSet(context.inputs) : Contains(i.input, Press(key))}}

\* Of the outputs of a context and of the commands in it, those that are triggered.
WithNot(context, triggered, key) ==
  [context EXCEPT
     !.outputs = [i \in DOMAIN @ |-> IF i - 1 \in triggered THEN PrependNot(@[i], key) ELSE @[i]],
     !.commandOutputs = Map(@, LAMBDA c :
        IF c.index \in triggered THEN [c EXCEPT !.output = PrependNot(@, key)] ELSE c)]

\* Bug: only the outputs of commands in the same context are found.
SuppressInContext(cs, n, key) == [cs EXCEPT ![n] = WithNot(@, Triggered(@, key), key)]

\* What a modifier triggers in the n-th context, also the outputs of commands
\* that are in other contexts.
SuppressModifier(cs, n, key) ==
  LET triggered == Triggered(cs[n], key)
  IN  [i \in DOMAIN cs |->
         WithNot(cs[i], IF i = n THEN triggered ELSE {index \in triggered : index < 0}, key)]

\* suppress_forwarded_modifiers_in_outputs
SuppressModifiers(cs, n) ==
  FoldLeft(LAMBDA acc, key : SuppressModifier(acc, n, key), cs, forwardModifiers)

SuppressAll(cs) == FoldLeft(SuppressModifiers, cs, [n \in DOMAIN cs |-> n])

SuppressForwardedModifiers ==
  /\ Continues("suppress", "done")
  /\ contexts' = SuppressAll(contexts)
  /\ UNCHANGED unreplaced

-----------------------------------------------------------------------------
Init ==
  /\ lines = << >> /\ status = "reading"
  /\ vocabulary \in Vocabularies
  /\ contexts = <<[NewContext EXCEPT !.beginStage = TRUE]>>
  /\ commands = << >> /\ unreplaced = 0
  /\ logical = [i \in DOMAIN CommonLogicalKeys |->
                  LET key == CommonLogicalKeys[i]
                  IN  [name |-> key.name, both |-> LogicalKeys[i], left |-> key.left, right |-> key.right]]
  /\ systemMatched = TRUE /\ afterEmptyBlock = FALSE
  /\ allowUnmapped = FALSE /\ forwardModifiers = << >>

Next ==
  \/ ReadEmptyLine \/ ReadMapping \/ ReadCommand \/ ReadOutput
  \/ ReadContext \/ ReadStage \/ ReadLogicalKey
  \/ IgnoreDirective \/ ReadToggleActive \/ ReadForwardModifiers \/ ReadAllowUnmapped
  \/ ReadDone \/ EndOfFile
  \/ PrependForwardModifiers \/ OptimizeContexts
  \/ ReplaceLogicalKey \/ ReplacedLogicalKeys \/ SuppressForwardedModifiers

Spec == Init /\ [][Next]_vars

-----------------------------------------------------------------------------
\* Names in lines, that of no filter and that of no key.
Names == STRING \cup {"", "$"}

\* Keys that are there while the first n logical keys are not replaced, and
\* what is made of them.
KeysWith(n) == OtherKeys \cup {LogicalKeys[i] : i \in 1..n}
SequencesWith(n) == Seq([key : KeysWith(n), state : KeyStates, value : 0..MaxTimeout])
InputsWith(n)    == Seq([input : SequencesWith(n), output : Int])
OutputsWith(n)   == Seq(SequencesWith(n))
CommandIndices   == {index \in Int : index < 0}
CommandsWith(n)  == Seq([index : CommandIndices, output : SequencesWith(n)])
ContextsWith(n) ==
  [filter : Names, system : BOOLEAN, modifier : SequencesWith(n), invert : BOOLEAN,
   fallthrough : BOOLEAN, beginStage : BOOLEAN,
   inputs : InputsWith(n), outputs : OutputsWith(n), commandOutputs : CommandsWith(n)]

\* The first n logical keys: each stands for keys that were there before it.
Definitions(n) ==
  { keys \in Seq([name : Names, both : ToSet(LogicalKeys), left : KeysWith(n), right : KeysWith(n)]) :
      /\ Len(keys) = n
      /\ \A i \in 1..n : keys[i].both = LogicalKeys[i] /\ {keys[i].left, keys[i].right} \subseteq KeysWith(i - 1) }

\* The logical keys that are not replaced yet.
Remaining ==
  IF status = "replace" THEN unreplaced
  ELSE IF status \in {"suppress", "done"} THEN 0 ELSE Len(logical)

TypeOK ==
  /\ vocabulary \in Vocabularies /\ lines \in Seq(vocabulary.lines)
  /\ status \in {"reading", "forward", "optimize", "replace", "suppress", "done", "error"}
  /\ contexts \in Seq(ContextsWith(Len(logical))) /\ Len(contexts) > 0
  /\ commands \in Seq([name : STRING, mapped : BOOLEAN])
  /\ Len(logical) <= Len(LogicalKeys) /\ logical \in Definitions(Len(logical))
  /\ Remaining \in 0..Len(logical)
  /\ forwardModifiers \in Seq(KeysWith(Len(logical)))
  /\ systemMatched \in BOOLEAN /\ afterEmptyBlock \in BOOLEAN /\ allowUnmapped \in BOOLEAN

\* Each mapping has its output, or is that of a command, in the context it is
\* in: the server takes it by its index (Stage.cpp, find_output).
OutputIsThere(context, index) ==
  IF index < 0 THEN -index \in DOMAIN commands ELSE index + 1 \in DOMAIN context.outputs
OutputsAreThere ==
  \A c \in ToSet(contexts) : \A in \in ToSet(c.inputs) : OutputIsThere(c, in.output)

\* A context that falls through does so to one of the same stage: the server
\* goes on to the next without looking for the end (fallthrough_context). So
\* what begins a stage has no modifier filter, which splits a context in two.
FallthroughEnds ==
  \A i \in DOMAIN contexts :
    contexts[i].fallthrough => i < Len(contexts) /\ ~contexts[i + 1].beginStage
StagesBeginUnfiltered ==
  \A c \in ToSet(contexts) : c.beginStage => c.modifier = << >>

\* Whatever was removed, split or duplicated, contexts are what the server takes
\* them for: a logical key that was replaced is nowhere, also not in one that is
\* defined by it, as the server knows none.
ContextsAreWhole ==
  /\ OutputsAreThere /\ FallthroughEnds /\ StagesBeginUnfiltered
  /\ contexts \in Seq(ContextsWith(Remaining))

\* README.md: @forward-modifiers "automatically suppresses the forwarded keys
\* in the output", whichever context the output of a command is in.
ForwardedAreSuppressed ==
  status = "done" =>
    \A c \in ToSet(contexts) : \A in \in ToSet(c.inputs) : \A key \in ToSet(forwardModifiers) :
      Contains(in.input, Press(key)) =>
        \A output \in {c.outputs[i] : i \in {j \in DOMAIN c.outputs : j - 1 = in.output}} \cup
                      {o.output : o \in UNION {{p \in ToSet(d.commandOutputs) : p.index = in.output} :
                                                 d \in ToSet(contexts)}} :
          Contains(output, Press(key)) \/ Contains(output, NotKey(key))

=============================================================================
