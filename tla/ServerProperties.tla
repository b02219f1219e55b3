-------------------------- MODULE ServerProperties --------------------------
(* What every keymap may rely on, stated once over the server process. *)
EXTENDS ServerLoop

Stages    == server.stages
LastStage == Stages[Len(Stages)]
Elements(seq) == {seq[i] : i \in DOMAIN seq}

EventType == EventsOf(AllKeys \ {"ContextActive"})

TypeOK ==
  /\ server.flush \in BOOLEAN /\ server.delayed \in {FALSE, server.flush}
  /\ server.exit \in BOOLEAN /\ server.insertAt = Nowhere
  /\ server.virtualDown \subseteq VirtualKeys
  /\ Elements(server.buffer) \subseteq EventType
  /\ \A st \in Elements(Stages) :
       Elements(st.buf) \cup Elements(st.seq) \cup Elements(st.history) \subseteq EventType
  /\ client \in {"nothing", "configuration", "contexts"} /\ grabbed \in BOOLEAN
  /\ pressed \subseteq Keys /\ repeating \subseteq pressed
  /\ systemDown \subseteq DeviceKeys

\* No output waits, in the server or in a stage.
NothingWaits == server.buffer = << >> /\ \A st \in Elements(Stages) : st.buf = << >>

\* No key is down, no timeout runs and nothing waits to be sent.
Quiet ==
  /\ pressed = {} /\ server.virtualDown = {}
  /\ ~TimeoutPending(server) /\ NothingWaits

\* When all keys are released and nothing might still match, the stages
\* forget everything, but for the history that no-might-match mappings keep.
ClearWhenQuiet ==
  Quiet /\ (\A st \in Elements(Stages) : ~st.might) =>
    StagesAreClear(Map(Stages, LAMBDA st : [st EXCEPT !.history = << >>]))

\* No key is stuck in the system when all keys are released.
NothingStuck == Quiet => systemDown = {}

\* The keys the i-th stage has as input and that are down.
InputDown(i) ==
  server.virtualDown \cup
  IF i = 1 THEN {k[2] : k \in pressed}
  ELSE {o.key : o \in {p \in Elements(Stages[i - 1].out) : ~p.released}}

\* Every output that is down is held by a key that is down, or a context.
OutputIsHeld ==
  NothingWaits =>
    \A i \in DOMAIN Stages : \A o \in Elements(Stages[i].out) :
      IF o.trigger = "ContextActive" THEN IsContextActive(Stages[i], o.ctx)
                                     ELSE o.trigger \in InputDown(i)

\* What is down for the system is what the last stage holds down.
SystemAgrees ==
  NothingWaits /\ Stages # << >> =>
    systemDown = {o.key : o \in {p \in Elements(LastStage.out) :
                    ~p.released /\ p.key \in DeviceKeys \ WheelKeys}}

\* The input that is held back is only that which might still match, and
\* nothing might match when none is held back - until a virtual key changes,
\* which takes what is held back for matched and leaves the rest as it is.
OnlyMightMatchIsHeldBack ==
  \A st \in Elements(Stages) :
    /\ HasNonOptional(st.seq) => st.might
    /\ VirtualKeys = {} /\ st.might => HasNonOptional(st.seq)

\* Every stage knows the same virtual keys to be down.
StagesKnowVirtualKeys ==
  \A i \in DOMAIN Stages : \A key \in VirtualKeys :
    (key \in server.virtualDown) <=> IsPhysicallyPressed(Stages[i], key)

\* A release that is sent is of a key that was down - but for the key that
\* completes the exit sequence, whose Down is dropped.
DownBefore(i) == SystemDown(systemDown, SubSeq(sent', 1, i - 1))
ReleasesOnlyDown ==
  [][~server'.exit =>
       \A i \in DOMAIN sent' :
         sent'[i].state = "Up" /\ sent'[i].key \notin WheelKeys => sent'[i].key \in DownBefore(i)]_vars

\* Keys no mapping is about are down for the system while they are pressed.
PassesThrough(keys) ==
  NothingWaits /\ (\A st \in Elements(Stages) : ~st.might) =>
    {k[2] : k \in pressed} \cap keys \subseteq systemDown

\* The client is told of every virtual key that changes, in order, but not of
\* those that a new configuration, a lost connection or the exit resets: then
\* the keys are down that it was told of since.
Mirrored(down, messages) ==
  FoldLeft(LAMBDA d, m : IF m.type # "virtual_key_state" THEN d
                         ELSE IF m.state = "Up" THEN d \ {m.key} ELSE d \cup {m.key},
           down, messages)
ClientIsTold ==
  [][\/ server'.virtualDown = Mirrored(server.virtualDown, told')
     \/ /\ server'.exit \/ client' # "contexts"
        /\ \E n \in 0..Len(told') : server'.virtualDown = Mirrored({}, From(told', n + 1))]_vars

\* When nobody presses a key any more, all timeouts end and all output is sent.
\* A request for the next keys is the exception: the releases it adds to the
\* buffer are neither flushed nor scheduled, they wait for the next input. So
\* does what a connection that was lost left behind in the buffer.
Settles ==
  <>[](pressed = {} /\ ~server.nextKeyRequested /\ reconnected = 0) =>
    []<>(server.exit \/ (~TimeoutPending(server) /\ server.buffer = << >>))

=============================================================================
