--------------------------- MODULE MC_ParseConfig ---------------------------
(***************************************************************************)
(* All configurations of the vocabularies: contexts in a row, of this      *)
(* system and of others, stages; logical keys, also of logical keys, in    *)
(* expressions and modifier filters; commands and forwarded modifiers.     *)
(* What they mean is told from the lines alone, and compared with what the *)
(* contexts mean to a server while they are turned into others.            *)
(***************************************************************************)
EXTENDS ParseConfig

MCKeyboard == {"A", "B", "X", "Y", "ShiftLeft", "ShiftRight", "Control"}
MCLogicalKeys == <<"Logical0", "Logical1", "Logical2">>
MCCommon == <<[name |-> "Shift", left |-> "ShiftLeft", right |-> "ShiftRight"]>>

\* The input expressions K and K{L}, the output expressions K and K{L}.
Input1(k)    == <<Press(k), Async(k)>>
Input2(k, l) == <<Press(k), Press(l), Async(l), Async(k)>>
Hold(k)      == <<Press(k)>>
Held(k, l)   == <<Press(k), Press(l), Release(l), Release(k)>>

Block(filter)   == ContextLine(filter, TRUE, << >>, FALSE)
OtherSystem     == ContextLine("", FALSE, << >>, FALSE)
While(modifier) == ContextLine("", TRUE, modifier, FALSE)
Unless(modifier) == ContextLine("", TRUE, modifier, TRUE)
MapA == MappingLine(Input1("A"), Hold("X"))
MapB == MappingLine(Input1("B"), Hold("Y"))

MCBlocks ==
  {Block(""), Block("F"), Block("G"), OtherSystem, StageLine, EmptyLine, MapA, MapB,
   ToggleLine(Input1("B"))}
MCModifiers ==
  {LogicalLine("Mods", <<"Shift", "Control">>), LogicalLine("Mods", <<"A", "Control", "Shift">>),
   While(<<Press("Shift")>>), While(<<NotKey("Shift"), Press("Mods")>>),
   While(<<NotKey("Mods"), NotKey("Mods")>>),
   Unless(<<Press("ShiftLeft")>>), Unless(<<NotKey("Shift")>>), MapA,
   MappingLine(Input2("Shift", "Mods"), Held("Mods", "X")),
   MappingLine(<<NotKey("Shift")>> \o Input1("A"), <<NotKey("Mods")>> \o Held("Shift", "X")) }
MCCommands ==
  {AllowLine(TRUE), AllowLine(FALSE), ForwardLine(<<"Shift", "ShiftLeft">>), ForwardLine(<<"Control">>),
   Block("F"), StageLine, OtherSystem, CommandLine(Input2("Shift", "A"), "command"), CommandLine(Input1("B"), "command"),
   CommandLine(Input2("Control", "A"), "other"), OutputLine("command", Hold("X")),
   OutputLine("command", Held("Shift", "Y")), OutputLine("other", Hold("Y")),
   MappingLine(Input2("Shift", "B"), Held("Shift", "X")), DoneLine}

\* Two things are left out that the code does not do as README.md says: a
\* condition is not inversed ("!=") on a logical key that is down, and what is
\* forwarded are no logical keys of logical keys.
MCVocabularies ==
  { [lines |-> MCBlocks,    length |-> 5],
    [lines |-> MCModifiers, length |-> 4],
    [lines |-> MCCommands,  length |-> 4] }

-----------------------------------------------------------------------------
(* A world: the filters that match and the keys that are down, of those in *)
(* the lines.                                                              *)

Worlds ==
  LET conditions == {lines[i] : i \in {j \in DOMAIN lines : lines[j].kind = "context"}}
  IN  [open : SUBSET ({c.filter : c \in conditions} \ {""}),
       down : IF \A c \in conditions : c.modifier = << >> THEN {{}}
              ELSE SUBSET {"ShiftLeft", "ShiftRight", "Control"}]

\* The keys of a device a key stands for.
StandsFor[key \in {logical[i].both : i \in DOMAIN logical} \cup MCKeyboard] ==
  IF key \in MCKeyboard THEN {key}
  ELSE LET k == logical[FirstOf({i \in DOMAIN logical : logical[i].both = key})]
       IN  StandsFor[k.left] \cup StandsFor[k.right]

Met(context, world) ==
  /\ context.system
  /\ context.filter \in world.open \cup {""}
  /\ context.invert #
       \A i \in DOMAIN context.modifier :
         LET event == context.modifier[i]
         IN  (event.state # "Not") <=> StandsFor[KeyByName(event.key)] \cap world.down # {}

\* A mapping with its logical keys, and the mappings of physical keys it means.
\* A command has an output that does not depend on the side of its trigger.
Put(sequence, both, keys) ==
  FlattenSeq(Map(sequence, LAMBDA event :
    IF event.key # both THEN <<event>> ELSE Map(keys, LAMBDA key : [event EXCEPT !.key = key])))

Sides(m, k) ==
  LET nots(sequence) == FlattenSeq(Map(sequence, LAMBDA event :
        IF event.key = k.both /\ event.state = "Not" THEN Put(<<event>>, k.both, <<k.left, k.right>>)
                                                    ELSE <<event>>))
      side(key, out) == [m EXCEPT !.input = Put(nots(@), k.both, <<key>>),
                                  !.output = Put(nots(@), k.both, <<out>>)]
  IN  IF ~Mentions(nots(m.input), k.both) THEN <<side(k.left, k.left)>>
      ELSE <<side(k.left, k.left), side(k.right, IF m.command THEN k.left ELSE k.right)>>

Physical(mapping) ==
  FoldRight(LAMBDA k, ms : FlattenSeq(Map(ms, LAMBDA m : Sides(m, k))), logical, <<mapping>>)

\* The modifiers that are suppressed are not compared.
Unsuppressed(m) ==
  [m EXCEPT !.output = SelectSeq(@, LAMBDA event :
     ~(event.state = "Not" /\ event.key \in UNION {StandsFor[k] : k \in ToSet(forwardModifiers)}))]

Meaning(mappings) == Map(FlattenSeq(Map(mappings, Physical)), Unsuppressed)

\* Stages without mappings do nothing.
Effective(stages) == SelectSeq(stages, LAMBDA mappings : mappings # << >>)

-----------------------------------------------------------------------------
(* What the contexts mean: the first that is active and those it falls     *)
(* through, and of the outputs of a command the last that is active.       *)

Stages(cs) ==
  LET begins == {i \in DOMAIN cs : i = 1 \/ cs[i].beginStage}
      after(i) == Min({j \in begins : j > i} \cup {Len(cs) + 1})
  IN  Map(SelectSeq([i \in DOMAIN cs |-> i], LAMBDA i : i \in begins),
          LAMBDA i : SubSeq(cs, i, after(i) - 1))

Active(cs, world) ==
  LET target(i) == Min({j \in i..Len(cs) : ~cs[j].fallthrough})
      active == {target(i) : i \in {j \in DOMAIN cs : Met(cs[j], world)}}
  IN  Map(SelectSeq([i \in DOMAIN cs |-> i], LAMBDA i : i \in active), LAMBDA i : cs[i])

CommandMeans(active, index) ==
  LET outputs == SelectSeq(FlattenSeq(Map(active, LAMBDA c : c.commandOutputs)),
                           LAMBDA o : o.index = index)
  IN  IF outputs = << >> THEN << >> ELSE Last(outputs).output

StageMeans(cs, world) ==
  LET active == Active(cs, world)
  IN  Meaning(FlattenSeq(Map(active, LAMBDA c :
        Map(c.inputs, LAMBDA in :
          [input |-> in.input, command |-> in.output < 0,
           output |-> IF in.output >= 0 THEN c.outputs[in.output + 1]
                                        ELSE CommandMeans(active, in.output)]))))

ContextsMean(world) == Effective(Map(Stages(contexts), LAMBDA cs : StageMeans(cs, world)))

-----------------------------------------------------------------------------
(* What the lines mean. A block is opened by contexts in a row: directives *)
(* and definitions may be between them.                                    *)

Kind(n) == lines[n].kind
Opens(n) == Kind(n) \in {"context", "stage"}
Opening(n) == LastOf({i \in 1..n : Opens(i)})
Conditions(n) ==
  {i \in 1..Opening(n) :
     \A j \in i..Opening(n) :
       Kind(j) \in {"context", "logical", "toggle-active", "forward-modifiers", "allow-unmapped-commands"}}

IsActive(n, world) ==
  \/ Opening(n) = 0 \/ Kind(Opening(n)) = "stage"
  \/ \E i \in Conditions(n) : Opens(i) /\ Met(lines[i], world)

\* Lines of a kind, in the n-th stage.
StageOf(n) == 1 + Cardinality({i \in 1..n : Kind(i) = "stage"})
Lines(n, kinds, world) ==
  SelectSeq([i \in DOMAIN lines |-> i],
            LAMBDA i : StageOf(i) = n /\ Kind(i) \in kinds /\ IsActive(i, world))

Directives(kind) ==
  SelectSeq([i \in DOMAIN lines |-> i],
            LAMBDA i : Kind(i) = kind /\ (Opening(i) = 0 \/ Kind(Opening(i)) = "stage" \/ lines[Opening(i)].system))

Means(input, output, isCommand) ==
  [input |-> Parsed(input), output |-> Parsed(output), command |-> isCommand]

\* The output of a command no line before it triggers is that of no command.
LineMeans(n, world) ==
  LET isTriggered(i) == \E j \in 1..i : Kind(j) = "command" /\ lines[j].name = lines[i].name
      outputs == SelectSeq(Lines(StageOf(n), {"output"}, world),
                           LAMBDA i : lines[i].name = lines[n].name /\ isTriggered(i))
  IN  IF Kind(n) = "mapping" THEN Means(lines[n].input, lines[n].output, FALSE)
      ELSE Means(lines[n].input, IF outputs = << >> THEN << >> ELSE lines[Last(outputs)].output, TRUE)

Toggles ==
  Map(Reverse(Directives("toggle-active")), LAMBDA n :
    Means(<<Event("none", "NoMightMatch")>> \o lines[n].input,
          <<Press(ToggleActive), Event("none", "OutputOnRelease")>>, FALSE))

LinesMean(world) ==
  LET forwards == Map(forwardModifiers, LAMBDA key :
                    [input |-> Input1(key), output |-> Hold(key), command |-> FALSE])
      stage(n) == Meaning(forwards \o Map(Lines(n, {"mapping", "command"}, world),
                                          LAMBDA i : LineMeans(i, world)))
  IN  Effective(<<Meaning(Toggles)>> \o [n \in 1..(StageOf(Len(lines))) |-> stage(n)])

\* In every stage the mappings of the blocks that are active are active, in
\* their order, for both keys of a logical key, and no others: after the
\* contexts were optimized, and after each logical key that was replaced.
MeansAsWritten ==
  status \in {"optimize", "replace", "suppress", "done"} =>
    \A world \in Worlds : ContextsMean(world) = LinesMean(world)

=============================================================================
