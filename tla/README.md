# A model of keymapper

keymapper maps keys by context: which window has the focus, which device a key
comes from, which modifiers are down. This directory holds TLA+ modules that
model the program in `src/`, the TLC configurations that check them on small
instances, and theorems about them that TLAPS proves for all instances.
`PROJECT.json` lists what belongs together: for each definition the lines of
code it stands for (`map`), the runs and the properties they check, for each
property a plausible bug that breaks it (`mutants`), what was found, and the
hazards of the code that the properties are for.

    tlc -workers 2 -config MC_TapHold.cfg MC_TapHold      a run
    tlapm ClientServer_proofs.tla                         the proofs of a module

## 1. The system

Two processes, and a command line tool. The *server* runs as root: it grabs the
input devices, maps their keys and sends the outcome with a virtual device. The
*client* runs in the session of the user: it parses the configuration, looks at
the focused window and tells the server which contexts are active. `keymapperctl`
asks the client for things. They are connected by local sockets.

      devices -> [ main_loop -> ServerState -> MultiStage -> Stage ... ] -> virtual device
                        |  ClientPort                                       (server)
                        |  configuration, active contexts, ... | virtual keys, actions
                        |  ServerPort
                 [ main loop -> ClientState <- FocusedWindow, ConfigFile ]  (client)
                        |  ControlPort
                    keymapperctl

| component (`src/src/`) | state it keeps | operations | what makes it correct |
|---|---|---|---|
| `runtime/MatchKeySequence` | none | match an input expression against a key sequence: no match, might match (waiting for a timeout), match | agrees with the meaning of expressions, in particular `!A`, `A{B}`, timeouts |
| `runtime/Stage` | held-back sequence, history, outputs that are down with their flags, contexts that are active, device filters, the timeout it waits for | `update` with an event, activate contexts, filter by device, validate | no key stuck, none lost, none sent twice, suppressed modifiers come back, everything is forgotten when all keys are up |
| `runtime/MultiStage` | the stages | the output of one is the input of the next | all stages know the same virtual keys and timeouts |
| `server/ServerState` | send buffer, flush and timeout schedule, virtual keys, next key info | a handler per message, `translate_input`, `flush_send_buffer`; they call each other | what the system has down is what the last stage holds; what waits is sent in the end |
| `server/unix/main` | the loop | read, translate, expire, flush, handle messages; reset on a lost connection | timeouts race input, yet hold needs its time |
| `client/ClientState` | configuration and recent ones, active contexts, whether mappings are active | load and send a configuration, update contexts, toggle, execute actions | server and client agree on configuration and contexts |
| `client/ControlPort` | copy of virtual keys, the connections with their instance ids and what they wait for | answer and notify `keymapperctl`, pass on what it sets | an answer belongs to a request and was true, an instance id has one owner |
| `control/` | the command line, the request it is at, the instance id it has set | send a request, read an answer or give up, start over, connect again | every request ends, who was replaced stays away |
| `common/Connection`, `Host` | read buffer | framing, version handshake | a message is read whole or not at all, in order, once |
| `config/ParseKeySequence` | sequence, buffered and pressed keys, open groups; kept between expressions | a token after the other to key events | the strokes are those that are written, in their nesting; what is pressed is released |
| `config/ParseConfig` | contexts, commands, logical keys, directives | lines to contexts; forwards, optimizes, replaces, suppresses | the contexts that are left mean what the lines say |
| devices, window systems, string typer, tray icon | of the platform | I/O | - |

Interaction: calls within the server (`translate_input`, `flush_send_buffer`,
`toggle_virtual_key` and `send_key_sequence` call each other), messages
between server and client, and a timer each for timeout and flush in the server
loop. Every process has one thread that matters, so the interleaving is one of
events, not of instructions: a key, a message, a timeout and a flush meet in any
order, and each end of the connection notices the loss of the other one by itself.

Hard behaviours, which the hazards in `PROJECT.json` place at their lines:
timeouts that race late input; outputs that several triggers hold or suppress;
output that is put into the buffer that is being flushed; virtual keys that
mappings, stages, contexts and the client toggle; configurations and contexts
that overtake the state they were computed from; reconnecting while something is
on its way; state that is only cleared when all keys are up.

## 2. The modules

    KeyEvents <- MatchKeySequence <- Stage <- MultiStage <- ServerState <- ServerLoop
                                                       <- ServerProperties <- Keymaps <- MC_*
    KeyEvents <- ParseKeySequence <- MC_ParseKeySequence
    KeyEvents <- ParseConfig <- MC_ParseConfig
    KeyEvents <- KeyEvents_proofs
    ServerProperties, KeyEvents_proofs <- ServerLoop_proofs
    ParseKeySequence, KeyEvents_proofs <- ParseKeySequence_proofs
    ParseConfig, KeyEvents_proofs <- ParseConfig_proofs
    ClientServer <- ControlPort <- Keymapperctl <- Keymapperctl_proofs, MC_Control
    ClientServer <- ClientServer_proofs, MC_ClientServer
    Keymapperctl_proofs, ClientServer_proofs <- Answers_proofs
    Channel <- (instance) Connection <- Connection_proofs, MC_Connection

| module | models | how |
|---|---|---|
| `KeyEvents` | `Key.h`, `KeyEvent.h`, `Timeout.h` | events are records, kinds of keys are constant sets |
| `MatchKeySequence` | `MatchKeySequence.cpp` | a round of the loop is an operator with a branch per case |
| `Stage` | `Stage.cpp` | a stage is a record, each member function an operator from a stage to the next |
| `MultiStage` | `MultiStage.cpp` | folds over the sequence of stages |
| `ServerState` | `ServerState.cpp` | a record, one operator per message handler and member function |
| `ServerLoop` | `server/unix/main.cpp` | the state machine: an action per event that ends the `poll` of the loop |
| `ServerProperties` | - | what every keymap may rely on |
| `Keymaps` | - | input and output expressions and contexts, as `ParseKeySequence` and `ParseConfig` make them |
| `ClientServer` | `ClientState.cpp`, both ports, both main loops | two processes and two channels, an action per handler on either end |
| `ControlPort` | `ControlPort.cpp` | on top of `ClientServer`: an action per message of `keymapperctl`, and what it adds to messages of the server |
| `Keymapperctl` | `control/main.cpp`, `control/ClientPort.cpp` | processes that run through their command lines: send, read some bytes, give up, start over, end |
| `Channel` | - | the abstract specification of a connection |
| `Connection` | `Connection.h`, `Connection.cpp` | positions in a stream of bytes; an action per part of `send_message` and `read_messages` |
| `ParseKeySequence` | `ParseKeySequence.cpp` | an action per kind of token, member functions are operators from a parser to the next |
| `ParseConfig` | `ParseConfig.cpp` | an action per kind of line, then one per pass over the contexts |
| `*_proofs` | - | theorems about the module of that name; `Answers_proofs` about the answers of `Keymapperctl`, and that it keeps what `ClientServer` promises |
| `MC_*` | - | one keymap, one set of configurations, command lines or vocabularies per run |

**Why records and operators below the loop.** In the code a key runs through
`translate_input`, `MultiStage::update`, `Stage::apply_input` and back within one
iteration of a single thread; nobody sees the state in between. So a key is one
action of `ServerLoop`, and everything the handler calls is an operator it is
composed of. `translate_input` and `flush_send_buffer` call each other in the code, but never deeper
than `m_sending_key` allows: the virtual keys that a flush toggles are translated by `TranslateOwn`, during
which nothing is flushed, and `TranslateInput` comes after the flush it may cause. What
`translate_input` translates before its event (the end of a timeout, the press of a wheel) skips all its own conditions, so that
its inputs are a short sequence (`InputsFor`) that is folded over. So nothing is recursive: a loop over a sequence is a fold, a
loop with other exits a function of the number of rounds (`MatchSequence`, `ContextChanged`, `MatchLoop`), which
is bounded by what the sequences can lose; a flush folds over the virtual keys it may toggle (`FlushAll`). A long function is a row of small operators, each
named for what it decides, that pass the stage on: `ApplyInput` is
`ContinueOutputOnRelease`, `BeginInput`, `MatchLoop`, `FinishInput`.

**The correspondence.** `vars` of `ServerLoop` is the `ServerState` (`server`,
whose fields are listed at the head of `ServerState.tla`, with those of a stage at
the head of `Stage.tla`) and what surrounds it: the keys that are physically down
(`pressed`) and repeat (`repeating`), what the system thinks is down
(`systemDown`), and what was sent to the virtual device and told to the client
in the last step (`sent`, `told`). `MainLoop` is an iteration of `main_loop`: it reads a
key (`PressKey`, `ReleaseKey`, `RepeatKey`, `TurnWheel`) or is woken by a timer (`Wake`),
and ends with the expiry of the timeout and the flush, as an iteration does. The
messages of the client are actions of their own, as they are handled behind these.
`connection_loop` is in `client` (what was received on this connection) and
`grabbed`: the server starts with nothing, `Configure` and `ActiveContexts` are the
first messages, `Grab` creates the virtual device and enters `main_loop` as soon as there is a
configuration - before or after the contexts - and `Disconnect` leaves it. What is to be
sent while there is no virtual device stays in the buffer.

Time is what the code makes of it: an iteration chooses how many milliseconds
have passed since the timeout was scheduled (`Elapsed`), which decides whether it
has expired and is what a cancelled timeout reports; and whether a delayed flush
is due. No clock runs, so nothing relates the times of two timers.

`ClientServer` leaves the keys out and takes what the server does with them as two
events: a virtual key toggles, the key of toggle-active is pressed. Its variables
are the fields of `ClientState` that take part, the configuration and contexts the
server has, and the messages on their way. A message of the client carries the
configuration its sender had (`of`), which the code does not send: only
properties read it. `keymapperctl` may set `Any` like a virtual key (`SettableKeys`): the server notes it as down, but tells
nobody (`Tell`).

`ControlPort` extends `ClientServer` and uses its actions: a key that `keymapperctl`
sets is sent with `SendToServer`, a message about a virtual key is read with
`ReadVirtualKeyState` and then notified, so `mirror` is the copy the answers come from. A
process of `Keymapperctl` is the index into its command line (`at`), where it is in a request
(`phase`) and its connection (`toPort`, `toControl`). A message is two parts, its size and the rest,
and `Read` takes any number of parts that have arrived: that is what `read_messages` sees,
and why it may find several answers or half of one. `old`, `awaitsOld`, `gaveUp`, `mistaken`, `seen`
and `closed` are not in the code, only properties read them: whether a message
is for an earlier request, whether the process stopped waiting for an answer it will get, what it mistook, which states the
key has had since it asked (and `"Again"`, when it is pressed while the client still has it as pressed, since the server forgot it), and why a connection is closed. The configuration and
its aliases change under the requests; the server restarts when a configuration grabs other devices.

`Connection` leaves bytes out: `written`, `received`, `erased` and `it` are positions in the
stream, `ends` says where each message ends. A size that is read at the
beginning of a message is that of the message; anywhere else it is any size of
`Garbage`, and what is deserialized between two other positions is no message. Under
this view a parser of bytes that loses its place does something observable.

`ParseKeySequence` and `ParseConfig` start behind the lexer: names of keys are
keys, a literal is what the string typer makes of it, a line is its kind with parsed parts. Every
branch that throws is an action that leaves the members as the code does, since the
parser of injected sequences is used again after an error (`ClientState.cpp:280`).

**The operators were compared with the program.** About 1,700 traces of random
keys, timeouts, contexts and devices, 30 steps each, over 145 keymaps of the tests and of
these runs were replayed by the compiled `Stage`, `MultiStage` and `ServerState`, and by
`TranslateInput` and the handlers of these modules in TLC: the events sent,
the sequence, the history, the output that is down and the timers were the same after
every step. All 95,517 configurations of the vocabularies of `MC_ParseConfig` and 55,941
expressions were parsed by the compiled `ParseConfig` and `ParseKeySequence`: contexts,
outputs, sequences and errors were those of the modules.

## 3. The runs

| run | keymap and inputs | asks |
|---|---|---|
| `tap_hold` | two configurations, at 0, 249 and 250 ms: `A{250ms} >> X`, `A >> Y`, `B{!250ms} >> W`, `A{B} >> V` with three keys at a time; `? Z !250ms B >> X`, `A B >> Y` with two | do tap and hold exclude each other, does hold need and get its time, is nothing held back or remembered longer than it may, and by a no-might-match mapping not at all |
| `modifiers` | the first keymap of `test5_Fuzz.cpp`, seven keys, three at a time | is no key stuck however a chord ends, does a suppressed Shift come back, does the exit sequence release everything |
| `stages` | two stages, a virtual key that mappings, output and the client toggle, a key that is injected as input and as output, contexts the client changes | do all stages agree on what is down, is what a context holds held |
| `devices` | two keyboards with the same key, a context of one of them, releases nobody saw | does the system have down what the server thinks, is a key mapped only by contexts of its device |
| `lifecycle` | output with three delays, a wheel, an action, a virtual key; new configurations, a reconnection, a request for the next keys | is the client told of every toggle, is what waits sent in the end, are asked keys kept from the output |
| `client_server` | two configurations of different size, two windows, a virtual key and `Any`, restarts of either end | do both ends agree once all messages are read |
| `control` | two processes with five pairs of command lines, two configurations with an alias only one has and one that differs, names of virtual keys, of another key and `Any` | does an answer belong to its request, was it true, does every request end, has an id one owner |
| `connection` | four messages of none to three bytes, one nobody knows, headers of two, a socket that holds four | is the reader always where a message starts, is the whole a channel |
| `parser` | six vocabularies of tokens, expressions of three to eight of them, two one after the other | does the sequence have the strokes that are written, is everything released, also after an error |
| `config` | three vocabularies of lines, configurations of four or five of them | do the contexts mean what the lines say after every pass, does the server find in them what it takes by an index, are forwarded modifiers suppressed |
| `find_delay`, `find_released` | output with a delay; the command lines of `control` | two disagreements, see below |

Bounds. `MaxPressed` keys at a time (for each stage a configuration may have) are what the keymap has in its longest chord,
and one more where that matters; nothing is injected while as many are pressed. `MaxSequence`, `MaxHistory` and `MaxBuffer` stop
people (not the server) from doing more while a queue is longer than that: keys
can always be released, timeouts and flushes always happen, so the queues are
longer than the bound at times and every queue can drain. `Elapsed` has the times
around each timeout of the keymap: before it, one less, and exactly. `MaxMessages`
and `MaxDrops` bound `ClientServer` in the same way; one lost connection is enough for
the two ends to be at odds about it, and the losses that follow a restart or new
devices are not counted. In `control` they are 1 and 0: what may go wrong there takes
one message on its way and a restart of the server, which a configuration causes; and
`MaxUnread` keeps a process that gave up from starting over while its answers are on their way. `MaxSent` of `connection` lets two
messages be read at once while others are in the socket and in the making. The lengths of
expressions are those at which a group is in another, with keys before, behind and
in parentheses; those of configurations let a context fall through two others, and a logical key of logical keys
be used in a filter and a mapping. No run uses symmetry: keys are not interchangeable in a
keymap, and processes have command lines.

`CHECK_DEADLOCK FALSE` where the system may really stop: both ends of a connection may be closed,
all processes of `keymapperctl` ended, a configuration parsed.

Fairness. `poll` in `main_loop` returns when the timeout or the flush is due and both
are looked at in each iteration, so `FlushDue` and `TimeoutDue` are weakly fair while
it runs; `ActiveContexts` is fair after a configuration, since `send_config` sends both;
the fairness of each is written out as `[]<>disabled \/ []<><<A>>_vars` because
`ENABLED` of an action with the whole engine in it is costly. No fairness is
assumed of people. `ClientServer` assumes that both loops go on: the client looks at
the window and reads every 50 ms, the server reads when there is something to
read, and either end notices that the other is gone. Nothing makes a window, a
file or `keymapperctl` do anything. `Keymapperctl` assumes that the client reads what a process sent,
and that a process reads what arrives or finds its connection closed: a
single condition for each process, since either happens in a `poll` or `select` that wakes up for both. `Connection` assumes that
`send` tries again and that the reader goes on with what is in its buffer. `Settles` says that what waits in the server is
sent if, from some time on, all keys are up and no next key is requested, unless the
connection was lost (a reset flushes until the next delay and nobody schedules the rest);
`HoldIsOutput` that a key that is held becomes one that is held;
`WindowIsFollowed` that the server gets the contexts of a window that keeps the
focus.

Properties worth a word:

- `NothingStuck`, `SystemAgrees`, `OutputIsHeld`, `ReleasesOnlyDown` relate what the
  system saw to what the stages believe: every error in the bookkeeping of
  `m_output_down` (suppressed, temporarily released, pressed twice) shows there,
  usually several keys later.
- `HoldNeedsTimeout` looks one step ahead: it applies `TranslateInput` to each key
  in each state, since whether hold is output depends on what the next event reports.
- `OnlyMightMatchIsHeldBack` and `NeverHeldBack` are about latency nobody wants: a
  key that is kept although nothing can match.
- `ContextsFit` is the reason the client may send indices at all. It holds unless
  `load_config` swapped with a recent file that then failed to load (`swapped`).
- `ClientIsTold` and `NoDownIsLost` are the two halves of `keymapperctl --is-pressed`. A new configuration, a
  lost connection and the exit forget the virtual keys without a word, so then only what is told *since* counts.
- `AnswersMatch` excuses a process that gave up waiting (`gaveUp`): after a timeout, after
  `type-stdin`, which reads one answer for many, and after an answer of another kind. Then a late answer
  is taken for the next one, and the code has nothing to tell them apart.
- `AnswersAreTrue` compares what a process says with all states the key has had, on the client or the server,
  since it asked: the reply is from a copy, and a key
  may toggle between `wait-pressed` reading its state and asking to be told. Each kind of request has
  what makes its yes true (`Witnesses`); a notification after a change of configuration is about the key the name
  had before, so of a wait a name that is no key then or now (`"Not"`) is one of them. A key that is pressed while the
  copy still has it as pressed (`"Again"`) was toggled, so `wait-toggled` has this one, too. `wait-released` has
  not: a process that is answered by it was told something false, so it is excepted by name (`IsMisinformed`),
  and `WaitsUntilReleased`, which makes no exception, is violated.
- `IsChannel` is a refinement: `Channel` with its fairness is what `ClientServer` takes the
  connection for.
- `StrokesAsWritten` reads the expression in another way than the parser: it has no buffer and
  writes a stroke with the keys that are held when it reads a key. `PressesArePaired` is the balance of
  the output that `Stage` relies on.
- `ContextsAreWhole` is what the server takes a configuration for without looking: an output by its
  index, the next context while one falls through (`Stage.cpp:310`, which looks for no end), keys it knows.
- `MeansAsWritten` compares two meanings in every *world* (filters that match, modifiers that
  are down): of the lines, told from the blocks they are in; and of the contexts, told as `Stage` activates
  them. It is checked behind every pass, so a pass that changes the meaning is named.

### What the code does and a document does not say

Two runs show one each. `find_delay`: `translate_input` takes the first timeout of the output for a
request to wait for input (`ServerState.cpp:261`), so with `A >> X 500ms Y` X and Y are sent
together, although the README of the program says that a timeout "can be used to delay output" (`src/README.md:296`).

`find_released`: `keymapperctl --wait-released` "waits until a virtual key is released" (`src/README.md:538`), and yet ends with
success when the key is *pressed*: after `reset_configuration` cleared the keys that are down without telling the client
(`ServerState.cpp:121`), the next press is told to it, `ControlPort.cpp:41` notifies although its copy does not
change, and `control/main.cpp:170` takes any notification for the awaited one.

Others came up while modelling and were confirmed with the compiled code. They have no run of
their own; the properties above are stated so that they hold with them:

- Server. A key repeat sets `pressed_twice` of an output that another mapping then takes for its own: X of
  `Shift{X}` is sent without Shift (`Stage.cpp:854`). A virtual key drops what is held back
  instead of forwarding it (`Stage.cpp:570`, README:514). `validate_state` releases the output
  key as an input, not its trigger, so that what a finished sequence holds hangs
  (`Stage.cpp:370`, CHANGELOG:959).
- Client. While mappings are not active `send_config` sends no contexts, not even toggle-active,
  which the comment at `ClientState.cpp:187` says is always active (`ClientState.cpp:158`).
- `keymapperctl`. `send_result` sends Up for a success and `to_result` makes "no" of it, so
  `set-config`, the injections, `type` and `notify` end with 1 where the README says 0.
  `--press Any` and the like are sent to the server, where `Any` is down like a virtual key although it is none
  (`ControlPort.cpp:191`): `ClientServer` and `ControlPort` have it, `ServerLoop` does not.
  `read_virtual_key_state` does not consume a message of another kind, and neither does it the
  next time: from then on every request fails. `next-key-info` makes that happen when it
  times out and the key comes later.
- Expressions. The examples in the comment at `ParseKeySequence.h:16-38` are out of date, they leave out what is released at
  the end: `A{B}` is `+A +B ~B ~A` as an input and `+A +B -B -A` as an output, in the code, its tests and the model. `? ContextActive` becomes an input without events, which `MatchKeySequence.cpp:63`
  asserts not to get; the vocabularies leave it out. `A !1000ms !100ms` outside of a group makes a timeout of the first not-timeout. `A 'b'{C}` is
  read as `(A b){C}`. In `A{B{!A C} D}` the inner group holds B past its end. The output `Virtual0 !A`
  releases the virtual key again. A literal of one character of several bytes gets `!Any`.
- Configurations. `[modifier != "Shift"]` is split into two contexts that are each
  inverted (`ParseConfig.cpp:1158`, `Stage.cpp:237`): it is active unless *both* Shift keys are down, though
  "'!=' inverses a condition" (README:122). `@forward-modifiers` of a logical key of logical keys forwards
  them but does not suppress them (`ParseConfig.cpp:616`, README:416). Both are left out of the
  vocabularies. With `@allow-unmapped-commands` the output of a command before its first use is dropped.
  A second `@toggle-active` is a context of its own in the first stage, and only the last one is kept active
  by the client.

## 4. The proofs

### Client and server

`ClientServer_proofs` proves for any set of configurations, windows and virtual
keys, and channels of any length, from the assumptions `ConfigsAreParsed` (a
context has an index; the context of toggle-active, 0, has no window filter, as
`ParseConfig` adds it) and `ConstantsAreDistinct`:

| theorem | inductive invariant it takes |
|---|---|
| `TypeCorrect`: `TypeOK` | `TypeOK` itself |
| `ContextsAlwaysFit`: `ContextsFit` | `ContextsInv`. The contexts on the server say nothing of what is on its way, so `Follows` says it of the channel: contexts fit the configuration of their sender, and only a configuration changes what the sender has; `ChannelInv` adds that the last message is of the configuration the client has now, as long as it did not swap files |
| `NoDownIsEverLost`: `NoDownIsLost` | `Told`: what the copy will be when the channel is read contains what is down |
| `ContextsAlwaysAgree`: `ContextsAgree`, `InactiveAlwaysMeansNoMappings`: `InactiveMeansNoMappings` | `AgreeInv`: reading the channel to its end leaves the contexts the client has, or none but toggle-active while mappings are not active (`Leaves`, `Agreed`) |

"What is left when the channel is read" is a recursive notion; it is stated
without recursion, by the last message that counts, and the lemmas `Append...` and
`Tail...` say what sending and reading do to it. Each action is a step of the
proof, and most follow from these lemmas and one about `Toggle` or `SentConfig`.

### Connections

`Connection_proofs` proves for any messages, lengths, garbage and capacity of the socket
(`MessagesHaveLengths`) `TypeCorrect`, `AlwaysAtBoundary` and `ImplementsChannel`. They share one
inductive invariant, `Inv`: the positions are in order, `ends` grows by header and
length (so a position is the boundary of one message only, which takes a lemma), the
reader is at a boundary in each of its phases and what is delivered are the first messages that were
sent. The refinement maps the variables of `Channel` to those of the same name: `SendMessage`
is `Send`, `Deserialize` of a message the reader knows is `Deliver`, closing either end is
`Close`, all else is a stutter. `ImplementsChannel` is about the safety part; that the fairness of
`Connection` gives that of `Channel` is checked by the run.

### Instance ids

`Keymapperctl_proofs` proves `IdsHaveOneOwner` (`OneOwner`) and `ReplacedStayClosed` (`ReplacedForGood`) for any
processes, command lines, configurations and channels of any length. That a replaced
process stays away depends on something the client does not know: that the process has
noted the id it asked for. So the inductive invariant `IInv` follows the
id from the command line through the message to the connection: whoever has a
`set_instance_id` on its way, or an id on the client, remembers an id (`SetsIds`,
`Remembers`); whoever was replaced has one, and therefore `Reconnects` is false
(`ReplacedIsClosed`); `OneOwner` itself is needed for a process that sets the id it
already has. `FewerMessages` and `MoreMessages` say what reading and sending do to `SetsIds`,
`Preserved`, `RequestStep` and `OpenedStep` cover the actions that do not touch ids.

### Answers

`Answers_proofs` is about the whole of `Keymapperctl`. Its steps are steps of `ClientServer` or leave it
alone, so `ControlKeepsPromises` reuses the lemmas of `ClientServer_proofs` for each action; `ControlTypeCorrect`
adds the types of ports and processes. Then two invariants, each inductive on top of the one before:

| theorem | inductive invariant it takes |
|---|---|
| `AnswersAlwaysMatch`: `AnswersMatch` | `AnswersInv`: of a process that never gave up, whatever belongs to its request is in *one* place: the request on its way, the client waiting for the toggle, or the reply. A process that asks nothing has none of it, and nothing that is on its way is old. That a request is on its way excludes a reply takes the place of counting three queues |
| `AnswersAreAlwaysTrue`: `AnswersAreTrue` | `TruthInv`: the state a reply carries is in `seen`; the key whose toggle is awaited is in the copy in a state that was seen, until it is told of, and then the other one, or `"Again"`, is. An answer has `Grounds`: a witness, or, of `wait-released`, `"Again"` |

Without the exception of `wait-released` `TruthInv` is not inductive, in the step that notifies of a key: the trace is
that of `find_released`. With it, a yes that has `"Again"` as its only ground is of a process that `IsMisinformed`.

### Expressions

`ParseKeySequence_proofs` is about any vocabularies of tokens (`VocabulariesAreTokens`: keys that have names,
what the string typer makes of characters, 12 bit times), expressions of any length and any number of them.

| theorem | inductive invariant it takes |
|---|---|
| `ParserTypeCorrect`: `TypeOK` | `TypesInv`: the members are sequences of events and of named keys |
| `ExpressionsArePaired`: `PressesArePaired` | `ParserInv`: while an expression is parsed it is `Fine`: what the sequence has pressed and not released is in `m_pressed_keys` or, for an output, was all pressed at once, and what it releases was pressed or is among `NotKeys`; in an input, keys stay pressed only for a group that is open, the outermost of which started with none (`GroupsKept`) |

A sequence is only appended to, except where the parser removes what is at its end or changes the last event;
so most lemmas say what appending does to `Presses` and `Releases`, and a member function is a lemma each.
A literal needs most: `add_string_typing_output` appends for each character the changes of its modifiers
and two events, and that each modifier is released follows from where these lie in the concatenation
(`Changes`, `TypedLies`).

`FlattenSeq` of the community modules is a fold: `KeyEvents_proofs` proves once what it returns, with
a least counterexample instead of an induction rule (`FlattenIs`, `FlattenParts`, `FlattenElements`), which is
as far as one gets without a lemma that takes an operator.

### Configurations

`ParseConfig_proofs` is about any lines of any vocabularies, in any number (`VocabulariesAreLines`: lines are what
the lexer makes of them, a definition has two keys or more), and any logical keys (`LogicalKeysAreEnough`: the keys that stand
for them are no others, there are as many as are registered before the first line).

| theorem | inductive invariant it takes |
|---|---|
| `ConfigTypeCorrect`: `TypeOK`, `ContextsAreAlwaysWhole`: `ContextsAreWhole` | `Inv`: types, each context is one of `WholeContexts(Remaining, DOMAIN commands)`, and `FallOn`, a context that falls through is before one of its stage |
| `ForwardedAreAlwaysSuppressed`: `ForwardedAreSuppressed` | the same, and `SuppressedFor` for the fold of the last step |

`Inv` is parameterised by what is left to do. `Remaining` counts the logical keys not yet replaced: a
sequence only has these. A logical key is defined by keys that were there before it (`Definitions`), so replacing the last
one leaves keys of those before, which is why the order of the code, last registered first,
is the one that ends with none. Within the replacement the `!` are rewritten first, then the inputs, then the
outputs, then the filter; `PartlyReplaced` is what holds between. That an input has
its output again after the inputs were duplicated is a fold over inputs and outputs that grow together.
`optimize_contexts` removes from the end what others fall through to: while it runs, what falls through does so to a
context of its stage, but for the one it has come to, of which `beforeContext` tells (`Optimizing`).
For this `StagesBeginUnfiltered` is needed: a context with a filter is split in two, and if it began a stage
the first half would fall through across its beginning. The last pass prepends to outputs an event `!A` and
never removes one, so what it did for one forwarded key and one context stays done for the others (`SuppressModifierStays`).

Folds take an operator, which the provers cannot instantiate a lemma with. `KeyEvents_proofs` therefore
has one lemma on the function a fold is (`FoldExists`: a function of the sets of indices, with the values that stay in a chain
of sets), each fold of the parser takes the definition of `FoldLeft` apart with it, and `ChainStays` carries an invariant from
each step to the next.

### The server

`ServerLoop_proofs` is about the state machine of the server with all there is below it: every action of
`ServerLoop`, every operator of `ServerState`, `MultiStage`, `Stage` and `MatchKeySequence` that it calls. It holds
for any configuration, any client, keys and devices that meet these assumptions:

- `ContextsAreParsed`: contexts are what `ParseConfig` makes: no input is empty, each mapping has its output or is
  a command, the last context of a stage does not fall through. That the parser makes no others is
  `ContextsAreWhole`, a theorem above.
- `ClientSendsWhatFits`: the configuration is one of these stages; contexts are indices, not necessarily of the
  configuration the server has; `keymapperctl` sets virtual keys and injects what an output may be. The code does not
  quite guarantee this: it also lets `Any` through (`ControlPort.cpp:191`), which the theorems do not cover.
- `KeyKindsAreDisjoint`, `WheelKeysAreMouseKeys` and `InputIsOfDevices`: what kinds of keys there are.

| theorem | inductive invariant it takes |
|---|---|
| `ServerTypeCorrect`: `TypeOK`, `ClientIsAlwaysTold`: `ClientIsTold`, `StagesAlwaysKnow`: `StagesKnowVirtualKeys` | `LoopInv`: the server is one of `ServerValues` between two steps: stages of the configuration, each one of `StageOf`, buffers of the keys that may be in an output, timers that saturate; output is inserted nowhere and only a scheduled flush is delayed; each stage `Knows` the virtual keys that are down |

`TypeOK` is not inductive by far: it says little of a stage. `StageOf` adds that a sequence has no actions and
no `Any`; that what is output on release is an output expression; that a timeout
remembers where an output is that exists (`References`), which the stage looks up when it has passed, after any
number of other events; that what is active are contexts of this stage.

`StagesKnowVirtualKeys` is not inductive either. A stage knows a virtual key to be down from its sequence, which it also
edits when it matches, reapplies or gives up. `Knows` says what it edits keeps: a key is down exactly when its last event in the
sequence is no release, and each of its events is `Up`, `Down` or `DownMatched`. The other half is about `onRelease`: a stage
takes a `Down` of the trigger of an output that waits for its release for a key repeat, and ignores it
(`Ignored`). For a virtual key it would never learn that the key is down again. So what waits for a virtual key waits
for one that is down (`ContinuationsOf`), whose next event is its release.

`MultiStage` puts a virtual key through every stage, also those
behind a stage that maps it; `Taught` is what each stage knows when the event has passed all.

Between the change of `virtualDown` and the end of the update the stages know what was down before. So within a
step there are pairs of what is down and what is known, `K` (`Learned`): `Same`, when both are equal, and one pair while a
key is on its way. The event teaches each stage one key, and the pairs are `Same` again (`TeachesChange`). What the
last stage outputs may toggle more virtual keys, but only when the flush comes to it, when all stages know the one before.
When the configuration is replaced or the exit sequence resets the server, no virtual key is down and the stages
are new ones or none.

Within a step the server is one of `Servers(at, m, d, K)`: it inserts output at position `at` of its buffer, and
what the client was told since the `m`-th message leads from the virtual keys `d` to those that are down now,
or the exit has reset them since (`IsTold`). A flush that comes to a virtual key toggles it, tells the client, updates the
stages, inserts their output behind where it is and goes on, up to ten times: each operator is a lemma of the form
*from a server of `Servers(at, m, d, K)` to one of `Servers(at', m, d, K')`*, so all steps of the proof carry all three theorems. A
reset is then a change of `m` and `d`: from `Servers(at, m, d, K)` to `Servers(at, n, {}, K)`, where `n` is what had been told.
For the whole flush to end within the ten toggles takes no proof: the bound is in the code.

Nearly everything the server does is a loop: over the mappings of a context, the events of an input, the outputs, the stages.
In the model these are folds and functions of the rounds. No lemma can take the body of a loop as a parameter, so each loop has
one lemma that says what its body keeps, the loop keeps, for any set of values `S`
(`...Stays`); they all have the same proof, from `FoldIn`, `RoundsExist` and `ChainStays` of `KeyEvents_proofs`. The stages in a
row have a chain of sets in place of one, since after the `i`-th stage the output of the stages is what the next one may read.

### What stays with TLC

Liveness under fairness (`WindowIsFollowed`, `RequestsEnd`, `HoldIsOutput`, `Settles`, the fair part of
`IsChannel`) is out of reach of TLAPS. The other invariants of `ServerProperties` are only
model-checked: they relate what stages hold down to what was pressed, through
all of `Stage`, and need an invariant on outputs, sequences and triggers of each stage on top of `LoopInv`
(`SystemAgrees` and `OutputIsHeld` also hold only for the keymaps of their runs). Those of the `MC_` modules are about one
keymap. `StrokesAsWritten` and `MeansAsWritten` compare what the parser made with a reference
definition that reads the lines or tokens again from the beginning: an induction over data with the whole parser as its step.

## 5. What is not modelled

- Text: how characters become tokens and lines (`string_iteration.h`, names of keys, strings,
  comments, joined lines), macros and their built-in functions, includes, automatic virtual keys. Macros are
  replaced before a line is looked at, includes are lines like any others.
- Of `ParseConfig` also the directives that only set options, grab filters, `enforce-lowercase-commands` and the limit of actions.
- I/O: devices of the kernel, hooks and drivers, window systems, D-Bus, the tray
  icon, terminal commands, the string typer, debug output.
- Events that are no keys, which the server forwards: they delay the rest of an
  iteration (`main.cpp:134`), so fairness here assumes they pause.
- Windows and macOS loops, but for the validation of the state, which only
  Windows ever answers with a key that is not down.
- `Host`: its handshake reads the version of a client with no timeout, before the
  server goes on; and that both ends of a connection may wait for each other when both
  sockets are full (`Connection.cpp:82` repeats `send` until it is done). `Connection` is one direction,
  and its reader always reads on.
- `keymapperctl`: requests that only sleep or print, and the instance id `0`.

Much of the repository is not the program's own: of its lines of code, the
Karabiner driver kit with its headers and other libraries under `src/src/libs` make up more than half, and the
back ends of window systems and platforms most of the rest of what is left out.

## 6. Plan

1. (done) Stage and what surrounds it up to the loop of the server; client and
   server; type correctness, contexts and virtual keys proved.
2. (done) `ControlPort` with `keymapperctl`: instance ids, notifications, timeouts of
   requests, `wait-pressed`, on top of `ClientServer`; one owner of an instance id proved.
3. (done) `Connection` (messages in parts) implements `Channel`; its safety proved.
4. (done) The parser behind the lexer: `ParseKeySequence` and `ParseConfig` against reference definitions.
5. An abstract server, which knows only which triggers hold which outputs, that
   `ServerLoop` implements for keymaps without sequences; its invariants proved.
6. Grabbing: `GrabbedDevices` with devices that come and go, keys that are down when they
   are grabbed, and the indices the device filters use.
7. (done) `AnswersMatch` and `AnswersAreTrue` proved, `PressesArePaired` of the parser, and
   `ContextsAreWhole` and `ForwardedAreSuppressed` of `ParseConfig`.
8. (done) `ServerLoop` is type correct, the client is told of every virtual key and all stages know them, proved. Next:
   `NothingStuck` and `ClearWhenQuiet`, with an invariant on the outputs and triggers of each stage.
