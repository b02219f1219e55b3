------------------------ MODULE ClientServer_proofs ------------------------
(***************************************************************************)
(* Theorems about ClientServer for every set of configurations, windows    *)
(* and virtual keys, and for channels of every length.                     *)
(***************************************************************************)
EXTENDS ClientServer, SequenceTheorems, TLAPS

USE DEF NoWindow, None

\* The port of keymapperctl also passes on what is to be set, however many
\* messages are on their way.
PassesOn(key, state) ==
  /\ clientUp
  /\ SendToServer(<<SetVirtualKeyState(config, key, state)>>)
  /\ UNCHANGED <<window, client_vars, server_vars, toClient, drops, swapped>>

Steps == Next \/ \E key \in SettableKeys, state \in {"Up", "Down", "Not"} : PassesOn(key, state)

LEMMA SetsPassOn ==
  ASSUME NEW key, NEW state, SetVirtualKey(key, state)
  PROVE  PassesOn(key, state)
BY DEF SetVirtualKey, PassesOn

LEMMA NextSteps == [Next]_vars => [Steps]_vars
BY DEF Steps

-----------------------------------------------------------------------------
(* What messages are made of. *)

LEMMA VirtualKeysAreSettable == VirtualKeys \subseteq SettableKeys
BY DEF SettableKeys

LEMMA MatchingType ==
  ASSUME NEW c \in Configs, NEW w \in Windows \cup {NoWindow}
  PROVE  /\ Matching[c][w] \in SUBSET Nat
         /\ ClearedContexts(c) \in SUBSET Nat
BY ConfigsAreParsed DEF ClearedContexts

LEMMA MessageTypes ==
  /\ \A c \in Configs : Configuration(c) \in ServerMessages
  /\ \A c \in Configs, s \in SUBSET Nat : ActiveContexts(c, s) \in ServerMessages
  /\ \A c \in Configs, k \in SettableKeys, state \in {"Up", "Down", "Not"} :
       SetVirtualKeyState(c, k, state) \in ServerMessages
  /\ \A k \in VirtualKeys, state \in {"Up", "Down"} : VirtualKeyState(k, state) \in ClientMessages
  /\ ExecuteAction \in ClientMessages
<1>1. None \notin SettableKeys /\ None \notin VirtualKeys
  BY ConstantsAreDistinct, VirtualKeysAreSettable
<1>2. \A c \in Configs, k \in SettableKeys, state \in {"Up", "Down", "Not"} :
        SetVirtualKeyState(c, k, state) \in ServerMessages
  BY <1>1 DEF SetVirtualKeyState, ServerMessages
<1> QED
  BY <1>1, <1>2
     DEF Configuration, ActiveContexts, VirtualKeyState, ExecuteAction, ServerMessages, ClientMessages

LEMMA SentConfigType ==
  ASSUME NEW c \in Configs, NEW w \in Windows \cup {NoWindow}
  PROVE  /\ SentConfig(c, w) \in Seq(ServerMessages)
         /\ ContextsAfterConfig(c, w) \in SUBSET Nat
<1>1. Configuration(c) \in ServerMessages /\ ActiveContexts(c, Matching[c][w]) \in ServerMessages
  BY MatchingType, MessageTypes
<1>2. ContextsAfterConfig(c, w) \in SUBSET Nat
  BY MatchingType DEF ContextsAfterConfig
<1>3. CASE active
  BY <1>1, <1>2, <1>3 DEF SentConfig
<1>4. CASE ~active
  BY <1>1, <1>2, <1>4 DEF SentConfig
<1> QED
  BY <1>3, <1>4

\* Sending keeps the type of the channels.
LEMMA SendToServerType ==
  ASSUME toServer \in Seq(ServerMessages), NEW s \in Seq(ServerMessages), SendToServer(s)
  PROVE  toServer' \in Seq(ServerMessages)
BY DEF SendToServer

LEMMA SendToClientType ==
  ASSUME toClient \in Seq(ClientMessages), NEW m \in ClientMessages, SendToClient(m)
  PROVE  toClient' \in Seq(ClientMessages)
BY DEF SendToClient

\* toggle_active keeps the types, wherever it is called.
LEMMA ToggleTypes ==
  ASSUME TypeOK, Toggle
  PROVE  /\ config' \in Configs /\ active' \in BOOLEAN /\ contexts' \in SUBSET Nat
         /\ focused' \in Windows \cup {NoWindow} /\ fresh' \in BOOLEAN
         /\ toServer' \in Seq(ServerMessages)
<1>1. contexts' \in SUBSET Nat
  BY MatchingType DEF TypeOK, Toggle
<1>2. <<ActiveContexts(config, contexts')>> \in Seq(ServerMessages)
  BY <1>1, MessageTypes DEF TypeOK
<1> QED
  BY <1>1, <1>2, SendToServerType DEF TypeOK, Toggle, LookAt

\* set_virtual_key_state keeps the types.
LEMMA SetsTypes ==
  ASSUME TypeOK, NEW key \in SettableKeys, NEW state, SetsVirtualKey(key, state)
  PROVE  virtualDown' \in SUBSET SettableKeys /\ toClient' \in Seq(ClientMessages)
<1>1. toClient \in Seq(ClientMessages) /\ virtualDown \in SUBSET SettableKeys
  BY DEF TypeOK
<1>2. ASSUME NEW to \in {"Up", "Down"}, Tell(key, to) PROVE toClient' \in Seq(ClientMessages)
  <2>1. CASE key \in VirtualKeys
    <3>1. VirtualKeyState(key, to) \in ClientMessages
      BY <2>1, MessageTypes
    <3>2. SendToClient(VirtualKeyState(key, to))
      BY <1>2, <2>1 DEF Tell
    <3> QED
      BY <1>1, <3>1, <3>2, SendToClientType
  <2>2. CASE key \notin VirtualKeys
    BY <1>1, <1>2, <2>2 DEF Tell
  <2> QED
    BY <2>1, <2>2
<1>3. CASE PressVirtualKey(key)
  BY <1>1, <1>2, <1>3 DEF PressVirtualKey
<1>4. CASE ReleaseVirtualKey(key)
  BY <1>1, <1>2, <1>4 DEF ReleaseVirtualKey
<1> QED
  BY <1>1, <1>3, <1>4 DEF SetsVirtualKey

-----------------------------------------------------------------------------
LEMMA TypeInit == Init => TypeOK
<1> SUFFICES ASSUME Init PROVE TypeOK
  OBVIOUS
<1>1. toServer \in Seq(ServerMessages) /\ toClient \in Seq(ClientMessages)
  BY DEF Init
<1>2. drops \in Nat /\ {contexts, serverContexts} \subseteq SUBSET Nat
  BY DEF Init
<1>3. active \in BOOLEAN /\ fresh \in BOOLEAN /\ clientUp \in BOOLEAN
  BY DEF Init
<1>4. regrab \in BOOLEAN /\ serverUp \in BOOLEAN /\ swapped \in BOOLEAN
  BY DEF Init
<1> QED
  BY <1>1, <1>2, <1>3, <1>4 DEF Init, TypeOK

\* Every step keeps the types.
LEMMA TypeKept == TypeOK /\ [Steps]_vars => TypeOK'
<1> SUFFICES ASSUME TypeOK, [Steps]_vars PROVE TypeOK'
  OBVIOUS
<1>1. CASE Connect
  BY <1>1, SentConfigType DEF Connect, TypeOK
<1>2. CASE UpdateContexts
  <2>1. contexts' \in SUBSET Nat
    BY <1>2, MatchingType DEF UpdateContexts, TypeOK
  <2>2. <<ActiveContexts(config, contexts')>> \in Seq(ServerMessages)
    BY <2>1, MessageTypes DEF TypeOK
  <2>3. toServer' \in Seq(ServerMessages)
    BY <1>2, <2>2, SendToServerType DEF UpdateContexts, TypeOK
  <2> QED
    BY <1>2, <2>1, <2>3 DEF UpdateContexts, LookAt, TypeOK, server_vars
<1>3. CASE ToggleActive
  BY <1>3, ToggleTypes DEF ToggleActive, TypeOK, server_vars
<1>4. CASE ReadVirtualKeyState
  <2>1. Head(toClient) \in ClientMessages /\ Tail(toClient) \in Seq(ClientMessages)
    BY <1>4 DEF ReadVirtualKeyState, TypeOK
  <2>2. Head(toClient).key \in VirtualKeys
    BY <1>4, <2>1 DEF ReadVirtualKeyState, ClientMessages
  <2>3. mirror' \in SUBSET VirtualKeys
    BY <1>4, <2>2 DEF ReadVirtualKeyState, Mirrored, TypeOK
  <2> QED
    BY <1>4, <2>1, <2>3 DEF ReadVirtualKeyState, TypeOK, server_vars
<1>5. CASE ReadExecuteAction
  <2>1. Tail(toClient) \in Seq(ClientMessages)
    BY <1>5 DEF ReadExecuteAction, TypeOK
  <2>2. CASE HasToggleActive[config]
    BY <1>5, <2>1, <2>2, ToggleTypes DEF ReadExecuteAction, TypeOK, server_vars
  <2>3. CASE ~HasToggleActive[config]
    BY <1>5, <2>1, <2>3 DEF ReadExecuteAction, TypeOK, server_vars
  <2> QED
    BY <2>2, <2>3
<1>6. CASE ClientNotices
  <2>1. toClient' \in Seq(ClientMessages) /\ mirror' \in SUBSET VirtualKeys
    BY <1>6 DEF ClientNotices
  <2> QED
    BY <1>6, <2>1 DEF ClientNotices, TypeOK, server_vars
<1>7. ASSUME NEW c \in Configs, ChangeConfig(c) PROVE TypeOK'
  <2>1. /\ SentConfig(c, window) \in Seq(ServerMessages)
        /\ contexts' \in SUBSET Nat
    BY <1>7, SentConfigType DEF ChangeConfig, TypeOK
  <2>2. toServer' \in Seq(ServerMessages)
    BY <1>7, <2>1, SendToServerType DEF ChangeConfig, TypeOK
  <2> QED
    BY <1>7, <2>1, <2>2 DEF ChangeConfig, LookAt, TypeOK, server_vars
<1>8. ASSUME NEW c \in Configs, SwapRecentFile(c) PROVE TypeOK'
  <2>1. swapped' \in BOOLEAN
    BY <1>8 DEF SwapRecentFile
  <2> QED
    BY <1>8, <2>1 DEF SwapRecentFile, TypeOK, server_vars
<1>9. ASSUME NEW c \in Configs, ClientRestarts(c) PROVE TypeOK'
  <2>1. toClient' \in Seq(ClientMessages) /\ contexts' \in SUBSET Nat
    BY <1>9 DEF ClientRestarts
  <2>2. focused' \in Windows \cup {NoWindow} /\ drops' \in Nat /\ mirror' \in SUBSET VirtualKeys
    BY <1>9 DEF ClientRestarts, TypeOK
  <2> QED
    BY <1>9, <2>1, <2>2 DEF ClientRestarts, TypeOK, server_vars
<1>10. ASSUME NEW key \in SettableKeys, NEW state \in {"Up", "Down", "Not"},
              PassesOn(key, state)
       PROVE TypeOK'
  <2>1. <<SetVirtualKeyState(config, key, state)>> \in Seq(ServerMessages)
    BY MessageTypes DEF TypeOK
  <2> QED
    BY <1>10, <2>1, SendToServerType DEF PassesOn, TypeOK, client_vars, server_vars
<1>11. CASE ReadConfiguration
  <2>1. Head(toServer) \in ServerMessages /\ Tail(toServer) \in Seq(ServerMessages)
    BY <1>11 DEF ReadConfiguration, TypeOK
  <2> QED
    BY <1>11, <2>1 DEF ReadConfiguration, TypeOK, client_vars, ServerMessages
<1>12. CASE ReadActiveContexts
  <2>1. Head(toServer) \in ServerMessages /\ Tail(toServer) \in Seq(ServerMessages)
    BY <1>12 DEF ReadActiveContexts, TypeOK
  <2> QED
    BY <1>12, <2>1 DEF ReadActiveContexts, TypeOK, client_vars, ServerMessages
<1>13. CASE ReadSetVirtualKeyState
  <2>1. Head(toServer) \in ServerMessages /\ Tail(toServer) \in Seq(ServerMessages)
    BY <1>13 DEF ReadSetVirtualKeyState, TypeOK
  <2>2. Head(toServer).key \in SettableKeys
    BY <1>13, <2>1 DEF ReadSetVirtualKeyState, ServerMessages
  <2>3. virtualDown' \in SUBSET SettableKeys /\ toClient' \in Seq(ClientMessages)
    BY <1>13, <2>2, SetsTypes DEF ReadSetVirtualKeyState
  <2> QED
    BY <1>13, <2>1, <2>3 DEF ReadSetVirtualKeyState, TypeOK, client_vars
<1>14. ASSUME NEW key \in VirtualKeys, MappingToggles(key) PROVE TypeOK'
  <2>1. virtualDown' \in SUBSET SettableKeys /\ toClient' \in Seq(ClientMessages)
    BY <1>14, SetsTypes, VirtualKeysAreSettable DEF MappingToggles
  <2> QED
    BY <1>14, <2>1 DEF MappingToggles, TypeOK, client_vars
<1>15. CASE MappingTriggersAction
  BY <1>15, MessageTypes, SendToClientType DEF MappingTriggersAction, TypeOK, client_vars, server_vars
<1>16. CASE ServerDrops
  <2>1. drops' \in Nat
    BY <1>16 DEF ServerDrops, TypeOK
  <2>2. toServer' \in Seq(ServerMessages) /\ serverContexts' \in SUBSET Nat
    BY <1>16 DEF ServerDrops
  <2> QED
    BY <1>16, <2>1, <2>2 DEF ServerDrops, TypeOK, client_vars
<1>17. ASSUME NEW w \in Windows, FocusChanges(w) PROVE TypeOK'
  BY <1>17 DEF FocusChanges, TypeOK, client_vars, server_vars
<1>18. CASE UNCHANGED vars
  BY <1>18 DEF vars, TypeOK, client_vars, server_vars
<1> QED
  BY <1>1, <1>2, <1>3, <1>4, <1>5, <1>6, <1>7, <1>8, <1>9, <1>10, <1>11, <1>12, <1>13,
     <1>14, <1>15, <1>16, <1>17, <1>18, SetsPassOn DEF Steps, Next

\* The state of both processes and of the channels keeps its type.
THEOREM TypeCorrect == Spec => []TypeOK
BY NextSteps, TypeInit, TypeKept, PTL DEF Spec

-----------------------------------------------------------------------------
(***************************************************************************)
(* The contexts that are active on the server fit its configuration. The   *)
(* invariant follows the configuration through the channel: each message   *)
(* is sent with the configuration that the message before it leaves the    *)
(* server with, and the last one with what the client has.                 *)
(***************************************************************************)
Fits(indices, c) == indices \subseteq 0..(ContextCount[c] - 1)

AllFit(q) ==
  \A i \in 1..Len(q) : q[i].type = "active_contexts" => Fits(q[i].contexts, q[i].of)

\* Read by a server that has configuration c, no message of q but a
\* configuration is of another one than the server has by then.
Follows(q, c) ==
  \A i \in 1..Len(q) :
    q[i].type # "configuration" => q[i].of = IF i = 1 THEN c ELSE q[i - 1].of

LastOf(q, c) == IF q = << >> THEN c ELSE q[Len(q)].of

NothingWithoutServer ==
  ~serverUp => toServer = << >> /\ serverConfig = None /\ serverContexts = {} /\ virtualDown = {}

ServerContextsFit ==
  serverContexts # {} => serverConfig # None /\ Fits(serverContexts, serverConfig)

ChannelInv ==
  /\ Follows(toServer, serverConfig)
  /\ clientUp /\ serverUp => LastOf(toServer, serverConfig) = config

ContextsInv ==
  /\ NothingWithoutServer
  /\ AllFit(toServer)
  /\ ~swapped => ChannelInv /\ ServerContextsFit

LEMMA MatchingFits ==
  ASSUME NEW c \in Configs, NEW w \in Windows \cup {NoWindow}
  PROVE  Fits(Matching[c][w], c) /\ Fits(ClearedContexts(c), c)
BY ConfigsAreParsed DEF Fits, ClearedContexts

\* A message of what the client has continues the channel.
LEMMA AppendFollows ==
  ASSUME NEW q \in Seq(ServerMessages), NEW m \in ServerMessages, NEW c,
         m.type = "active_contexts" => Fits(m.contexts, m.of)
  PROVE  /\ AllFit(q) => AllFit(q \o <<m>>)
         /\ m.type = "configuration" \/ m.of = LastOf(q, c) =>
              (Follows(q, c) => Follows(q \o <<m>>, c))
         /\ LastOf(q \o <<m>>, c) = m.of
<1> DEFINE r == q \o <<m>>
<1>1. r \in Seq(ServerMessages) /\ Len(r) = Len(q) + 1
  OBVIOUS
<1>2. r[Len(q) + 1] = m /\ \A i \in 1..Len(q) : r[i] = q[i]
  OBVIOUS
<1>3. r # << >>
  <2>1. Len(q) \in Nat
    OBVIOUS
  <2>2. Len(r) # 0 /\ Len(<< >>) = 0
    BY <1>1, <2>1
  <2> QED
    BY <2>2
<1> HIDE DEF r
<1>4. AllFit(q) => AllFit(r)
  BY <1>1, <1>2 DEF AllFit
<1>5. LastOf(r, c) = m.of
  BY <1>1, <1>2, <1>3 DEF LastOf
<1>6. ASSUME m.type = "configuration" \/ m.of = LastOf(q, c), Follows(q, c) PROVE Follows(r, c)
  <2> SUFFICES ASSUME NEW i \in 1..Len(r), r[i].type # "configuration"
               PROVE r[i].of = IF i = 1 THEN c ELSE r[i - 1].of
    BY DEF Follows
  <2>1. CASE i \in 1..Len(q)
    BY <1>1, <1>2, <1>6, <2>1 DEF Follows
  <2>2. CASE i = Len(q) + 1
    BY <1>1, <1>2, <1>6, <2>2 DEF LastOf
  <2> QED
    BY <1>1, <2>1, <2>2
<1> QED
  BY <1>4, <1>5, <1>6 DEF r

\* What the server reads from the channel leaves it with what the rest follows.
LEMMA TailFollows ==
  ASSUME NEW q \in Seq(ServerMessages), q # << >>, NEW c, Follows(q, c)
  PROVE  LET d == Head(q).of IN
         /\ Head(q).type # "configuration" => d = c
         /\ Follows(Tail(q), d)
         /\ LastOf(Tail(q), d) = LastOf(q, c)
<1> DEFINE r == Tail(q)
           d == Head(q).of
<1>1. r \in Seq(ServerMessages) /\ Len(r) = Len(q) - 1 /\ Len(q) \in Nat \ {0}
  OBVIOUS
<1>2. Head(q) = q[1] /\ \A i \in 1..Len(r) : r[i] = q[i + 1]
  OBVIOUS
<1>3. r = << >> <=> Len(q) = 1
  <2> HIDE DEF r
  <2>1. r = << >> <=> Len(r) = 0
    BY <1>1, EmptySeq
  <2> QED
    BY <1>1, <2>1
<1> HIDE DEF r, d
<1>4. Head(q).type # "configuration" => d = c
  BY <1>1, <1>2 DEF Follows, d
<1>5. Follows(r, d)
  <2> SUFFICES ASSUME NEW i \in 1..Len(r), r[i].type # "configuration"
               PROVE r[i].of = IF i = 1 THEN d ELSE r[i - 1].of
    BY DEF Follows
  <2>1. i + 1 \in 1..Len(q) /\ i + 1 # 1
    BY <1>1
  <2>2. r[i].of = q[i].of
    BY <1>1, <1>2, <2>1 DEF Follows
  <2>3. CASE i = 1
    BY <1>2, <2>2, <2>3 DEF d
  <2>4. CASE i # 1
    BY <1>1, <1>2, <2>2, <2>4
  <2> QED
    BY <2>3, <2>4
<1>6. LastOf(r, d) = LastOf(q, c)
  BY <1>1, <1>2, <1>3 DEF LastOf, d
<1> QED
  BY <1>4, <1>5, <1>6 DEF r, d

LEMMA TailFits ==
  ASSUME NEW q \in Seq(ServerMessages), q # << >>, AllFit(q)
  PROVE  /\ Head(q).type = "active_contexts" => Fits(Head(q).contexts, Head(q).of)
         /\ AllFit(Tail(q))
<1> DEFINE r == Tail(q)
<1>1. r \in Seq(ServerMessages) /\ Len(r) = Len(q) - 1 /\ Len(q) \in Nat \ {0}
  OBVIOUS
<1>2. Head(q) = q[1] /\ \A i \in 1..Len(r) : r[i] = q[i + 1]
  OBVIOUS
<1> HIDE DEF r
<1> QED
  BY <1>1, <1>2 DEF AllFit, r

\* send_config continues the channel, whatever is on its way.
LEMMA SentConfigFollows ==
  ASSUME NEW q \in Seq(ServerMessages), NEW k, AllFit(q),
         NEW c \in Configs, NEW w \in Windows \cup {NoWindow}
  PROVE  /\ AllFit(q \o SentConfig(c, w))
         /\ Follows(q, k) => Follows(q \o SentConfig(c, w), k)
         /\ LastOf(q \o SentConfig(c, w), k) = c
<1> DEFINE a == Configuration(c)
           b == ActiveContexts(c, Matching[c][w])
           r == q \o <<a>>
<1>1. a \in ServerMessages /\ b \in ServerMessages
  BY MatchingType, MessageTypes
<1>2. /\ a.type = "configuration" /\ a.of = c
      /\ b.type = "active_contexts" /\ b.of = c /\ b.contexts = Matching[c][w]
  BY DEF Configuration, ActiveContexts
<1>3. Fits(Matching[c][w], c)
  BY MatchingFits
<1> HIDE DEF a, b
<1>4. /\ r \in Seq(ServerMessages)
      /\ AllFit(r) /\ LastOf(r, k) = c
      /\ Follows(q, k) => Follows(r, k)
  BY <1>1, <1>2, AppendFollows
<1> HIDE DEF r
<1>5. /\ AllFit(r \o <<b>>) /\ LastOf(r \o <<b>>, k) = c
      /\ Follows(r, k) => Follows(r \o <<b>>, k)
  BY <1>1, <1>2, <1>3, <1>4, AppendFollows
<1>6. q \o SentConfig(c, w) = IF active THEN r \o <<b>> ELSE r
  <2>1. SentConfig(c, w) = <<a>> \o IF active THEN <<b>> ELSE << >>
    BY DEF SentConfig, a, b
  <2>2. q \o (<<a>> \o <<b>>) = r \o <<b>> /\ <<a>> \o << >> = <<a>>
    BY <1>1 DEF r
  <2>3. CASE active
    BY <2>1, <2>2, <2>3
  <2>4. CASE ~active
    BY <2>1, <2>2, <2>4 DEF r
  <2> QED
    BY <2>3, <2>4
<1> QED
  BY <1>4, <1>5, <1>6

\* What the client does that sends only messages of its configuration.
LEMMA SendKeepsInv ==
  ASSUME TypeOK, ContextsInv, clientUp, NEW m \in ServerMessages,
         m.of = config, m.type = "active_contexts" => Fits(m.contexts, m.of),
         SendToServer(<<m>>), UNCHANGED <<config, clientUp, server_vars, swapped>>
  PROVE  ContextsInv'
<1>1. CASE serverUp
  <2>1. toServer \in Seq(ServerMessages) /\ AllFit(toServer) /\ toServer' = toServer \o <<m>>
    BY <1>1 DEF TypeOK, ContextsInv, SendToServer
  <2>2. AllFit(toServer')
    BY <2>1, AppendFollows
  <2>3. ~swapped => Follows(toServer', serverConfig) /\ LastOf(toServer', serverConfig) = config
    <3> SUFFICES ASSUME ~swapped
                 PROVE  Follows(toServer', serverConfig) /\ LastOf(toServer', serverConfig) = config
      OBVIOUS
    <3>1. Follows(toServer, serverConfig) /\ m.of = LastOf(toServer, serverConfig)
      BY <1>1 DEF ContextsInv, ChannelInv
    <3> QED
      BY <2>1, <3>1, AppendFollows
  <2> QED
    BY <1>1, <2>2, <2>3 DEF ContextsInv, ChannelInv, NothingWithoutServer, ServerContextsFit,
                            server_vars
<1>2. CASE ~serverUp
  BY <1>2 DEF ContextsInv, ChannelInv, NothingWithoutServer, ServerContextsFit, server_vars,
              SendToServer
<1> QED
  BY <1>1, <1>2

\* A step that leaves the server, its channel and what the client has alone.
LEMMA OthersKeepInv ==
  ASSUME ContextsInv,
         UNCHANGED <<config, clientUp, serverConfig, serverContexts, serverUp, toServer, swapped>>,
         ~serverUp => virtualDown' = virtualDown
  PROVE  ContextsInv'
BY DEF ContextsInv, ChannelInv, NothingWithoutServer, ServerContextsFit

LEMMA ToggleKeepsInv ==
  ASSUME TypeOK, ContextsInv, clientUp, Toggle, UNCHANGED <<clientUp, server_vars, swapped, window>>
  PROVE  ContextsInv'
<1>1. contexts' \in SUBSET Nat /\ Fits(contexts', config)
  BY MatchingType, MatchingFits DEF TypeOK, Toggle
<1> DEFINE m == ActiveContexts(config, contexts')
<1>2. m \in ServerMessages
  BY <1>1, MessageTypes DEF TypeOK
<1>3. m.of = config /\ m.contexts = contexts'
  BY DEF ActiveContexts
<1>4. SendToServer(<<m>>) /\ config' = config
  BY DEF Toggle
<1> HIDE DEF m
<1> QED
  BY <1>1, <1>2, <1>3, <1>4, SendKeepsInv

LEMMA ContextsInvInit == Init => ContextsInv
<1> SUFFICES ASSUME Init PROVE ContextsInv
  OBVIOUS
<1>1. Len(toServer) = 0
  BY DEF Init
<1> QED
  BY <1>1 DEF Init, ContextsInv, ChannelInv, NothingWithoutServer, ServerContextsFit, AllFit, Follows

\* ContextsInv is inductive together with the type.
LEMMA ContextsInvKept == TypeOK /\ ContextsInv /\ [Steps]_vars => ContextsInv'
<1> SUFFICES ASSUME TypeOK, ContextsInv, [Steps]_vars PROVE ContextsInv'
  OBVIOUS
<1>1. CASE Connect
  <2>1. << >> \in Seq(ServerMessages) /\ AllFit(<< >>) /\ Follows(<< >>, None)
    BY DEF AllFit, Follows
  <2>2. config \in Configs /\ focused \in Windows \cup {NoWindow}
    BY DEF TypeOK
  <2>3. /\ AllFit(<< >> \o SentConfig(config, focused))
        /\ Follows(<< >> \o SentConfig(config, focused), None)
        /\ LastOf(<< >> \o SentConfig(config, focused), None) = config
    BY <2>1, <2>2, SentConfigFollows
  <2>4. << >> \o SentConfig(config, focused) = SentConfig(config, focused)
    BY <2>2, SentConfigType
  <2>5. serverConfig = None /\ serverContexts = {}
    BY <1>1 DEF Connect, ContextsInv, NothingWithoutServer
  <2> QED
    BY <1>1, <2>3, <2>4, <2>5
       DEF Connect, ContextsInv, ChannelInv, NothingWithoutServer, ServerContextsFit
<1>2. CASE UpdateContexts
  <2>1. contexts' \in SUBSET Nat /\ Fits(contexts', config)
    BY <1>2, MatchingType, MatchingFits DEF UpdateContexts, TypeOK
  <2>2. CASE contexts' = contexts
    BY <1>2, <2>2, OthersKeepInv DEF UpdateContexts, server_vars
  <2>3. CASE contexts' # contexts
    <3> DEFINE m == ActiveContexts(config, contexts')
    <3>1. m \in ServerMessages
      BY <2>1, MessageTypes DEF TypeOK
    <3>2. m.of = config /\ m.contexts = contexts'
      BY DEF ActiveContexts
    <3>3. /\ clientUp /\ SendToServer(<<m>>)
          /\ UNCHANGED <<config, clientUp, server_vars, swapped>>
      BY <1>2, <2>3 DEF UpdateContexts
    <3> HIDE DEF m
    <3> QED
      BY <2>1, <3>1, <3>2, <3>3, SendKeepsInv
  <2> QED
    BY <2>2, <2>3
<1>3. CASE ToggleActive
  BY <1>3, ToggleKeepsInv DEF ToggleActive
<1>4. CASE ReadVirtualKeyState
  BY <1>4, OthersKeepInv DEF ReadVirtualKeyState, server_vars
<1>5. CASE ReadExecuteAction
  <2>1. CASE HasToggleActive[config]
    BY <1>5, <2>1, ToggleKeepsInv DEF ReadExecuteAction
  <2>2. CASE ~HasToggleActive[config]
    BY <1>5, <2>2, OthersKeepInv DEF ReadExecuteAction, server_vars
  <2> QED
    BY <2>1, <2>2
<1>6. CASE ClientNotices
  BY <1>6 DEF ClientNotices, ContextsInv, ChannelInv, NothingWithoutServer, ServerContextsFit,
              server_vars
<1>7. ASSUME NEW c \in Configs, ChangeConfig(c) PROVE ContextsInv'
  <2>1. CASE serverUp
    <3>1. toServer' = toServer \o SentConfig(c, window) /\ config' = c
      BY <1>7, <2>1 DEF ChangeConfig, SendToServer
    <3>2. /\ AllFit(toServer')
          /\ Follows(toServer, serverConfig) => Follows(toServer', serverConfig)
          /\ LastOf(toServer', serverConfig) = c
      BY <3>1, SentConfigFollows DEF ContextsInv, TypeOK
    <3> QED
      BY <1>7, <2>1, <3>1, <3>2
         DEF ChangeConfig, ContextsInv, ChannelInv, NothingWithoutServer, ServerContextsFit, server_vars
  <2>2. CASE ~serverUp
    BY <1>7, <2>2 DEF ChangeConfig, SendToServer, ContextsInv, ChannelInv, NothingWithoutServer,
                      ServerContextsFit, server_vars
  <2> QED
    BY <2>1, <2>2
<1>8. ASSUME NEW c \in Configs, SwapRecentFile(c) PROVE ContextsInv'
  BY <1>8 DEF SwapRecentFile, ContextsInv, ChannelInv, NothingWithoutServer, ServerContextsFit,
              server_vars
<1>9. ASSUME NEW c \in Configs, ClientRestarts(c) PROVE ContextsInv'
  BY <1>9 DEF ClientRestarts, ContextsInv, ChannelInv, NothingWithoutServer, ServerContextsFit,
              server_vars
<1>10. ASSUME NEW key \in SettableKeys, NEW state \in {"Up", "Down", "Not"},
              PassesOn(key, state)
       PROVE ContextsInv'
  <2> DEFINE m == SetVirtualKeyState(config, key, state)
  <2>1. m \in ServerMessages
    BY MessageTypes DEF TypeOK
  <2>2. m.of = config /\ m.type = "set_virtual_key_state"
    BY DEF SetVirtualKeyState
  <2>3. /\ clientUp /\ SendToServer(<<m>>)
        /\ UNCHANGED <<config, clientUp, server_vars, swapped>>
    BY <1>10 DEF PassesOn, client_vars
  <2> HIDE DEF m
  <2> QED
    BY <2>1, <2>2, <2>3, SendKeepsInv
<1>11. CASE ReadConfiguration
  <2> DEFINE d == Head(toServer).of
  <2>1. toServer \in Seq(ServerMessages) /\ toServer # << >> /\ AllFit(toServer)
    BY <1>11 DEF ReadConfiguration, TypeOK, ContextsInv
  <2>2. AllFit(Tail(toServer))
    BY <2>1, TailFits
  <2>3. ASSUME ~swapped
        PROVE  /\ Follows(Tail(toServer), d)
               /\ LastOf(Tail(toServer), d) = LastOf(toServer, serverConfig)
    BY <2>1, <2>3, TailFollows DEF ContextsInv, ChannelInv
  <2> QED
    BY <1>11, <2>2, <2>3
       DEF ReadConfiguration, ContextsInv, ChannelInv, NothingWithoutServer, ServerContextsFit,
           client_vars
<1>12. CASE ReadActiveContexts
  <2>1. toServer \in Seq(ServerMessages) /\ toServer # << >> /\ AllFit(toServer)
    BY <1>12 DEF ReadActiveContexts, TypeOK, ContextsInv
  <2>2. AllFit(Tail(toServer)) /\ Fits(Head(toServer).contexts, Head(toServer).of)
    BY <1>12, <2>1, TailFits DEF ReadActiveContexts
  <2>3. ASSUME ~swapped
        PROVE  /\ Head(toServer).of = serverConfig
               /\ Follows(Tail(toServer), serverConfig)
               /\ LastOf(Tail(toServer), serverConfig) = LastOf(toServer, serverConfig)
    BY <1>12, <2>1, <2>3, TailFollows DEF ReadActiveContexts, ContextsInv, ChannelInv
  <2>4. Head(toServer).of # None
    BY <2>1, ConstantsAreDistinct DEF ServerMessages
  <2> QED
    BY <1>12, <2>2, <2>3, <2>4
       DEF ReadActiveContexts, ContextsInv, ChannelInv, NothingWithoutServer, ServerContextsFit,
           client_vars
<1>13. CASE ReadSetVirtualKeyState
  <2>1. toServer \in Seq(ServerMessages) /\ toServer # << >> /\ AllFit(toServer)
    BY <1>13 DEF ReadSetVirtualKeyState, TypeOK, ContextsInv
  <2>2. AllFit(Tail(toServer))
    BY <2>1, TailFits
  <2>3. ASSUME ~swapped
        PROVE  /\ Follows(Tail(toServer), serverConfig)
               /\ LastOf(Tail(toServer), serverConfig) = LastOf(toServer, serverConfig)
    BY <1>13, <2>1, <2>3, TailFollows DEF ReadSetVirtualKeyState, ContextsInv, ChannelInv
  <2> QED
    BY <1>13, <2>2, <2>3
       DEF ReadSetVirtualKeyState, ContextsInv, ChannelInv, NothingWithoutServer,
           ServerContextsFit, client_vars
<1>14. ASSUME NEW key \in VirtualKeys, MappingToggles(key) PROVE ContextsInv'
  BY <1>14, OthersKeepInv DEF MappingToggles, client_vars
<1>15. CASE MappingTriggersAction
  BY <1>15, OthersKeepInv DEF MappingTriggersAction, client_vars, server_vars
<1>16. CASE ServerDrops
  <2>1. AllFit(<< >>) /\ Follows(<< >>, None)
    BY DEF AllFit, Follows
  <2> QED
    BY <1>16, <2>1
       DEF ServerDrops, ContextsInv, ChannelInv, NothingWithoutServer, ServerContextsFit, client_vars
<1>17. ASSUME NEW w \in Windows, FocusChanges(w) PROVE ContextsInv'
  BY <1>17, OthersKeepInv DEF FocusChanges, client_vars, server_vars
<1>18. CASE UNCHANGED vars
  BY <1>18, OthersKeepInv DEF vars, client_vars, server_vars
<1> QED
  BY <1>1, <1>2, <1>3, <1>4, <1>5, <1>6, <1>7, <1>8, <1>9, <1>10, <1>11, <1>12, <1>13,
     <1>14, <1>15, <1>16, <1>17, <1>18, SetsPassOn DEF Steps, Next

\* ContextsInv is an invariant, inductive together with the type.
LEMMA ContextsInvariant == Spec => []ContextsInv
BY NextSteps, ContextsInvInit, ContextsInvKept, TypeCorrect, PTL DEF Spec

\* The active contexts are contexts of the configuration the server has,
\* unless a recent file failed to load.
THEOREM ContextsAlwaysFit == Spec => []ContextsFit
<1>1. ContextsInv => ContextsFit
  BY DEF ContextsInv, ServerContextsFit, ContextsFit, Fits
<1> QED
  BY <1>1, ContextsInvariant, PTL

-----------------------------------------------------------------------------
(***************************************************************************)
(* keymapperctl is told of every virtual key that is down. Told is         *)
(* DownIsToldOf for a mirror and the messages it still has to apply.       *)
(***************************************************************************)
NeverUp(q, key) == \A j \in 1..Len(q) : q[j] # VirtualKeyState(key, "Up")

Told(q, down, key) ==
  \/ \E i \in 1..Len(q) :
       /\ q[i] = VirtualKeyState(key, "Down")
       /\ \A j \in (i + 1)..Len(q) : q[j] # VirtualKeyState(key, "Up")
  \/ key \in down /\ NeverUp(q, key)

LEMMA ToldIsDownIsToldOf ==
  ASSUME TypeOK, NEW key
  PROVE  DownIsToldOf(key) <=> Told(toClient, mirror, key)
<1>1. DOMAIN toClient = 1..Len(toClient)
  BY DEF TypeOK
<1> QED
  BY <1>1 DEF DownIsToldOf, Told, NeverUp

\* A message that does not say the key is up changes nothing,
\* the one that says it is down is enough.
LEMMA AppendTold ==
  ASSUME NEW q \in Seq(ClientMessages), NEW m \in ClientMessages, NEW down, NEW key
  PROVE  /\ Told(q, down, key) /\ m # VirtualKeyState(key, "Up") => Told(Append(q, m), down, key)
         /\ Told(Append(q, VirtualKeyState(key, "Down")), down, key)
<1> DEFINE r == Append(q, m)
           s == Append(q, VirtualKeyState(key, "Down"))
<1>1. /\ Len(q) \in Nat /\ Len(r) = Len(q) + 1
      /\ r[Len(q) + 1] = m /\ \A i \in 1..Len(q) : r[i] = q[i]
  OBVIOUS
<1>2. Len(s) = Len(q) + 1 /\ s[Len(q) + 1] = VirtualKeyState(key, "Down")
  OBVIOUS
<1> HIDE DEF r, s
<1>3. Told(s, down, key)
  BY <1>1, <1>2 DEF Told
<1>4. ASSUME Told(q, down, key), m # VirtualKeyState(key, "Up") PROVE Told(r, down, key)
  <2>1. CASE key \in down /\ NeverUp(q, key)
    BY <1>1, <1>4, <2>1 DEF Told, NeverUp
  <2>2. CASE \E i \in 1..Len(q) :
               /\ q[i] = VirtualKeyState(key, "Down")
               /\ \A j \in (i + 1)..Len(q) : q[j] # VirtualKeyState(key, "Up")
    <3>1. PICK i \in 1..Len(q) :
                 /\ q[i] = VirtualKeyState(key, "Down")
                 /\ \A j \in (i + 1)..Len(q) : q[j] # VirtualKeyState(key, "Up")
      BY <2>2
    <3>2. i \in 1..Len(r) /\ r[i] = VirtualKeyState(key, "Down")
      BY <1>1, <3>1
    <3>3. \A j \in (i + 1)..Len(r) : r[j] # VirtualKeyState(key, "Up")
      BY <1>1, <1>4, <3>1
    <3> QED
      BY <3>2, <3>3 DEF Told
  <2> QED
    BY <1>4, <2>1, <2>2 DEF Told
<1> QED
  BY <1>3, <1>4 DEF r, s

\* What is read from the channel is in the mirror instead.
LEMMA TailTold ==
  ASSUME TypeOK, toClient # << >>, NEW key, Told(toClient, mirror, key)
  PROVE  Told(Tail(toClient),
              IF Head(toClient).type = "virtual_key_state" THEN Mirrored(Head(toClient)) ELSE mirror,
              key)
<1> DEFINE q == toClient
           r == Tail(toClient)
           h == Head(toClient)
           after == IF h.type = "virtual_key_state" THEN Mirrored(h) ELSE mirror
<1>1. q \in Seq(ClientMessages) /\ h \in ClientMessages
  BY DEF TypeOK
<1>2. Len(q) \in Nat \ {0} /\ Len(r) = Len(q) - 1 /\ h = q[1] /\ \A i \in 1..Len(r) : r[i] = q[i + 1]
  BY <1>1
<1>3. h.type = "virtual_key_state" => h = VirtualKeyState(h.key, h.state) /\ h.state \in {"Up", "Down"}
  BY <1>1 DEF ClientMessages, VirtualKeyState
<1> HIDE DEF q, r, h
<1>4. ASSUME \A j \in 2..Len(q) : q[j] # VirtualKeyState(key, "Up") PROVE NeverUp(r, key)
  BY <1>2, <1>4 DEF NeverUp
<1>5. Told(q, mirror, key)
  BY DEF q
<1>6. CASE key \in mirror /\ NeverUp(q, key)
  <2>1. NeverUp(r, key) /\ h # VirtualKeyState(key, "Up")
    BY <1>2, <1>4, <1>6 DEF NeverUp
  <2>2. key \in after
    BY <1>3, <1>6, <2>1 DEF Mirrored
  <2> QED
    BY <2>1, <2>2 DEF Told, r, h
<1>7. ASSUME NEW i \in 1..Len(q), q[i] = VirtualKeyState(key, "Down"),
             \A j \in (i + 1)..Len(q) : q[j] # VirtualKeyState(key, "Up")
      PROVE  Told(r, after, key)
  <2>1. CASE i = 1
    <3>1. h.type = "virtual_key_state" /\ h.key = key /\ h.state = "Down"
      BY <1>2, <1>7, <2>1 DEF VirtualKeyState
    <3>2. key \in after
      BY <3>1 DEF Mirrored
    <3> QED
      BY <1>4, <1>7, <2>1, <3>2 DEF Told
  <2>2. CASE i # 1
    <3>1. i - 1 \in 1..Len(r) /\ r[i - 1] = VirtualKeyState(key, "Down")
      BY <1>2, <1>7, <2>2
    <3>2. \A j \in i..Len(r) : r[j] # VirtualKeyState(key, "Up")
      BY <1>2, <1>7, <2>2
    <3> QED
      BY <3>1, <3>2 DEF Told
  <2> QED
    BY <2>1, <2>2
<1> QED
  BY <1>5, <1>6, <1>7 DEF Told, r, h

\* set_virtual_key_state tells what it changes.
LEMMA SetsTold ==
  ASSUME TypeOK, NoDownIsLost, clientUp, UNCHANGED <<mirror, clientUp>>,
         NEW key \in SettableKeys, NEW state, SetsVirtualKey(key, state), TypeOK'
  PROVE  NoDownIsLost'
<1> SUFFICES ASSUME NEW k \in virtualDown', k # Any PROVE Told(toClient', mirror', k)
  <2>1. DOMAIN toClient' = 1..Len(toClient')
    BY DEF TypeOK
  <2> QED
    BY <2>1 DEF NoDownIsLost, DownIsToldOf, Told, NeverUp
<1>1. toClient \in Seq(ClientMessages)
  BY DEF TypeOK
<1>2. \A other \in virtualDown \ {Any} : Told(toClient, mirror, other)
  BY ToldIsDownIsToldOf DEF NoDownIsLost
<1>3. CASE PressVirtualKey(key) /\ key \in VirtualKeys
  <2>1. toClient' = Append(toClient, VirtualKeyState(key, "Down"))
    BY <1>3 DEF PressVirtualKey, Tell, SendToClient
  <2>2. VirtualKeyState(key, "Down") \in ClientMessages
    BY <1>3, MessageTypes
  <2>3. k # key => k \in virtualDown \ {Any}
    BY <1>3 DEF PressVirtualKey
  <2>4. VirtualKeyState(key, "Down") # VirtualKeyState(k, "Up")
    BY DEF VirtualKeyState
  <2> QED
    BY <1>1, <1>2, <2>1, <2>2, <2>3, <2>4, AppendTold
<1>4. CASE ReleaseVirtualKey(key) /\ key \in VirtualKeys
  <2>1. toClient' = Append(toClient, VirtualKeyState(key, "Up"))
    BY <1>4 DEF ReleaseVirtualKey, Tell, SendToClient
  <2>2. VirtualKeyState(key, "Up") \in ClientMessages
    BY <1>4, MessageTypes
  <2>3. k # key /\ k \in virtualDown \ {Any}
    BY <1>4 DEF ReleaseVirtualKey
  <2>4. VirtualKeyState(key, "Up") # VirtualKeyState(k, "Up")
    BY <2>3 DEF VirtualKeyState
  <2> QED
    BY <1>1, <1>2, <2>1, <2>2, <2>3, <2>4, AppendTold
<1>5. CASE (PressVirtualKey(key) \/ ReleaseVirtualKey(key)) /\ key \notin VirtualKeys
  <2>1. key = Any
    BY <1>5 DEF SettableKeys
  <2>2. k \in virtualDown \ {Any} /\ UNCHANGED toClient
    BY <1>5, <2>1 DEF PressVirtualKey, ReleaseVirtualKey, Tell
  <2> QED
    BY <1>2, <2>2
<1>6. CASE UNCHANGED <<virtualDown, toClient>>
  BY <1>2, <1>6
<1> QED
  BY <1>3, <1>4, <1>5, <1>6 DEF SetsVirtualKey

LEMMA NoDownInit == Init => NoDownIsLost
BY DEF Init, NoDownIsLost

\* Every step keeps what keymapperctl is told, or will be.
LEMMA NoDownKept == TypeOK /\ TypeOK' /\ ContextsInv /\ NoDownIsLost /\ [Steps]_vars => NoDownIsLost'
<1> SUFFICES ASSUME TypeOK, TypeOK', ContextsInv, NoDownIsLost, [Steps]_vars PROVE NoDownIsLost'
  OBVIOUS
<1> DEFINE Untold == UNCHANGED <<mirror, clientUp, virtualDown, toClient>>
<1>1. ASSUME Untold PROVE NoDownIsLost'
  BY <1>1 DEF NoDownIsLost, DownIsToldOf
<1>2. ASSUME clientUp' => virtualDown' = {} PROVE NoDownIsLost'
  BY <1>2 DEF NoDownIsLost
<1>3. ASSUME toClient # << >>, toClient' = Tail(toClient), UNCHANGED <<clientUp, virtualDown>>,
             mirror' = IF Head(toClient).type = "virtual_key_state"
                       THEN Mirrored(Head(toClient)) ELSE mirror
      PROVE  NoDownIsLost'
  <2> SUFFICES ASSUME clientUp, NEW k \in virtualDown \ {Any} PROVE Told(toClient', mirror', k)
    <3>1. DOMAIN toClient' = 1..Len(toClient')
      BY DEF TypeOK
    <3> QED
      BY <1>3, <3>1 DEF NoDownIsLost, DownIsToldOf, Told, NeverUp
  <2>1. Told(toClient, mirror, k)
    BY ToldIsDownIsToldOf DEF NoDownIsLost
  <2> QED
    BY <1>3, <2>1, TailTold
<1>4. CASE Connect
  BY <1>2, <1>4 DEF Connect, ContextsInv, NothingWithoutServer
<1>5. CASE UpdateContexts
  BY <1>1, <1>5 DEF UpdateContexts, server_vars
<1>6. CASE ToggleActive
  BY <1>1, <1>6 DEF ToggleActive, server_vars
<1>7. CASE ReadVirtualKeyState
  BY <1>3, <1>7 DEF ReadVirtualKeyState, server_vars
<1>8. CASE ReadExecuteAction
  BY <1>3, <1>8 DEF ReadExecuteAction, server_vars
<1>9. CASE ClientNotices
  BY <1>2, <1>9 DEF ClientNotices
<1>10. ASSUME NEW c \in Configs, ChangeConfig(c) \/ SwapRecentFile(c) PROVE NoDownIsLost'
  BY <1>1, <1>10 DEF ChangeConfig, SwapRecentFile, server_vars
<1>11. ASSUME NEW c \in Configs, ClientRestarts(c) PROVE NoDownIsLost'
  BY <1>2, <1>11 DEF ClientRestarts
<1>12. ASSUME NEW key \in SettableKeys, NEW state \in {"Up", "Down", "Not"},
              PassesOn(key, state)
       PROVE NoDownIsLost'
  BY <1>1, <1>12 DEF PassesOn, client_vars, server_vars
<1>13. CASE ReadConfiguration
  BY <1>2, <1>13 DEF ReadConfiguration
<1>14. CASE ReadActiveContexts
  BY <1>1, <1>14 DEF ReadActiveContexts, client_vars
<1>15. CASE ReadSetVirtualKeyState
  <2>1. Head(toServer) \in ServerMessages
    BY <1>15 DEF ReadSetVirtualKeyState, TypeOK
  <2>2. Head(toServer).key \in SettableKeys
    BY <1>15, <2>1 DEF ReadSetVirtualKeyState, ServerMessages
  <2>3. CASE clientUp
    BY <1>15, <2>2, <2>3, SetsTold DEF ReadSetVirtualKeyState, client_vars
  <2>4. CASE ~clientUp
    BY <1>15, <2>4 DEF ReadSetVirtualKeyState, client_vars, NoDownIsLost
  <2> QED
    BY <2>3, <2>4
<1>16. ASSUME NEW key \in VirtualKeys, MappingToggles(key) PROVE NoDownIsLost'
  <2>1. CASE clientUp
    BY <1>16, <2>1, SetsTold, VirtualKeysAreSettable DEF MappingToggles, client_vars
  <2>2. CASE ~clientUp
    BY <1>16, <2>2 DEF MappingToggles, client_vars, NoDownIsLost
  <2> QED
    BY <2>1, <2>2
<1>17. CASE MappingTriggersAction
  <2>1. CASE clientUp
    <3>1. toClient' = Append(toClient, ExecuteAction) /\ UNCHANGED <<mirror, clientUp, virtualDown>>
      BY <1>17, <2>1 DEF MappingTriggersAction, SendToClient, client_vars, server_vars
    <3>2. \A k : ExecuteAction # VirtualKeyState(k, "Up")
      BY DEF ExecuteAction, VirtualKeyState
    <3>3. toClient \in Seq(ClientMessages) /\ ExecuteAction \in ClientMessages
      BY MessageTypes DEF TypeOK
    <3>4. \A k \in virtualDown \ {Any} : Told(toClient', mirror', k)
      BY <2>1, <3>1, <3>2, <3>3, AppendTold, ToldIsDownIsToldOf DEF NoDownIsLost
    <3>5. DOMAIN toClient' = 1..Len(toClient')
      BY DEF TypeOK
    <3> QED
      BY <3>1, <3>4, <3>5 DEF NoDownIsLost, DownIsToldOf, Told, NeverUp
  <2>2. CASE ~clientUp
    BY <1>17, <2>2 DEF MappingTriggersAction, client_vars, NoDownIsLost
  <2> QED
    BY <2>1, <2>2
<1>18. CASE ServerDrops
  BY <1>2, <1>18 DEF ServerDrops
<1>19. ASSUME NEW w \in Windows, FocusChanges(w) PROVE NoDownIsLost'
  BY <1>1, <1>19 DEF FocusChanges, client_vars, server_vars
<1>20. CASE UNCHANGED vars
  BY <1>1, <1>20 DEF vars, client_vars, server_vars
<1> QED
  BY <1>4, <1>5, <1>6, <1>7, <1>8, <1>9, <1>10, <1>11, <1>12, <1>13, <1>14, <1>15, <1>16,
     <1>17, <1>18, <1>19, <1>20, SetsPassOn DEF Steps, Next

\* Every virtual key that is down on the server is down for keymapperctl,
\* or will be once the client read what is on its way.
THEOREM NoDownIsEverLost == Spec => []NoDownIsLost
BY NextSteps, NoDownInit, NoDownKept, TypeCorrect, ContextsInvariant, PTL DEF Spec

-----------------------------------------------------------------------------
(***************************************************************************)
(* And it is told that a key was released only when it has that key as     *)
(* pressed, or will have by then.                                          *)
(***************************************************************************)
ToldBefore(q, i, down, key) ==
  \/ \E h \in 1..(i - 1) : /\ q[h] = VirtualKeyState(key, "Down")
                           /\ \A j \in (h + 1)..(i - 1) : q[j] # VirtualKeyState(key, "Up")
  \/ key \in down /\ \A j \in 1..(i - 1) : q[j] # VirtualKeyState(key, "Up")

ReleasesFollow(q, down) ==
  \A i \in 1..Len(q), key \in VirtualKeys :
    q[i] = VirtualKeyState(key, "Up") => ToldBefore(q, i, down, key)

ReleasesAreTold == ReleasesFollow(toClient, mirror)

\* A message that says no key is up, or one that says it of a key that was told.
LEMMA AppendFollowsTold ==
  ASSUME NEW q \in Seq(ClientMessages), NEW m \in ClientMessages, NEW down, ReleasesFollow(q, down),
         \A key \in VirtualKeys : m = VirtualKeyState(key, "Up") => Told(q, down, key)
  PROVE  ReleasesFollow(Append(q, m), down)
<1> DEFINE r == Append(q, m)
<1>1. /\ Len(q) \in Nat /\ Len(r) = Len(q) + 1
      /\ r[Len(q) + 1] = m /\ \A i \in 1..Len(q) : r[i] = q[i]
  OBVIOUS
<1> HIDE DEF r
<1> SUFFICES ASSUME NEW i \in 1..Len(r), NEW key \in VirtualKeys, r[i] = VirtualKeyState(key, "Up")
             PROVE  ToldBefore(r, i, down, key)
  BY DEF ReleasesFollow, r
<1>2. CASE i \in 1..Len(q)
  <2>1. ToldBefore(q, i, down, key)
    BY <1>1, <1>2 DEF ReleasesFollow
  <2>2. \A j \in 1..(i - 1) : r[j] = q[j]
    BY <1>1, <1>2
  <2> QED
    BY <1>2, <2>1, <2>2 DEF ToldBefore
<1>3. CASE i = Len(q) + 1
  <2>1. Told(q, down, key)
    BY <1>1, <1>3
  <2> QED
    BY <1>1, <1>3, <2>1 DEF Told, NeverUp, ToldBefore
<1> QED
  BY <1>1, <1>2, <1>3

\* What is read from the channel is in the mirror instead.
LEMMA TailFollowsTold ==
  ASSUME TypeOK, toClient # << >>, ReleasesAreTold
  PROVE  ReleasesFollow(Tail(toClient),
           IF Head(toClient).type = "virtual_key_state" THEN Mirrored(Head(toClient)) ELSE mirror)
<1> DEFINE q == toClient
           r == Tail(toClient)
           h == Head(toClient)
           after == IF h.type = "virtual_key_state" THEN Mirrored(h) ELSE mirror
<1>1. q \in Seq(ClientMessages) /\ h \in ClientMessages
  BY DEF TypeOK
<1>2. Len(q) \in Nat \ {0} /\ Len(r) = Len(q) - 1 /\ h = q[1] /\ \A i \in 1..Len(r) : r[i] = q[i + 1]
  BY <1>1
<1>3. h.type = "virtual_key_state" => h = VirtualKeyState(h.key, h.state) /\ h.state \in {"Up", "Down"}
  BY <1>1 DEF ClientMessages, VirtualKeyState
<1>4. ReleasesFollow(q, mirror)
  BY DEF ReleasesAreTold
<1> HIDE DEF q, r, h
<1> SUFFICES ASSUME NEW i \in 1..Len(r), NEW key \in VirtualKeys, r[i] = VirtualKeyState(key, "Up")
             PROVE  ToldBefore(r, i, after, key)
  BY DEF ReleasesFollow, r, h
<1>5. i + 1 \in 1..Len(q) /\ q[i + 1] = VirtualKeyState(key, "Up") /\ ToldBefore(q, i + 1, mirror, key)
  <2>1. i + 1 \in 1..Len(q) /\ q[i + 1] = VirtualKeyState(key, "Up")
    BY <1>2
  <2> QED
    BY <1>4, <2>1 DEF ReleasesFollow
<1>6. \A j \in 1..(i - 1) : r[j] = q[j + 1] /\ j + 1 \in 2..i
  BY <1>2
<1>7. CASE key \in mirror /\ \A j \in 1..i : q[j] # VirtualKeyState(key, "Up")
  <2>1. h # VirtualKeyState(key, "Up") /\ \A j \in 1..(i - 1) : r[j] # VirtualKeyState(key, "Up")
    BY <1>2, <1>6, <1>7
  <2>2. key \in after
    BY <1>3, <1>7, <2>1 DEF Mirrored
  <2> QED
    BY <2>1, <2>2 DEF ToldBefore
<1>8. ASSUME NEW d \in 1..i, q[d] = VirtualKeyState(key, "Down"),
             \A j \in (d + 1)..i : q[j] # VirtualKeyState(key, "Up")
      PROVE  ToldBefore(r, i, after, key)
  <2>1. CASE d = 1
    <3>1. h.type = "virtual_key_state" /\ h.key = key /\ h.state = "Down"
      BY <1>2, <1>8, <2>1 DEF VirtualKeyState
    <3>2. key \in after
      BY <3>1 DEF Mirrored
    <3>3. \A j \in 1..(i - 1) : r[j] # VirtualKeyState(key, "Up")
      BY <1>6, <1>8, <2>1
    <3> QED
      BY <3>2, <3>3 DEF ToldBefore
  <2>2. CASE d # 1
    <3>1. d - 1 \in 1..(i - 1) /\ r[d - 1] = VirtualKeyState(key, "Down")
      BY <1>6, <1>8, <2>2
    <3>2. \A j \in d..(i - 1) : r[j] # VirtualKeyState(key, "Up")
      BY <1>6, <1>8, <2>2
    <3> QED
      BY <3>1, <3>2 DEF ToldBefore
  <2> QED
    BY <2>1, <2>2
<1>9. \/ key \in mirror /\ \A j \in 1..i : q[j] # VirtualKeyState(key, "Up")
      \/ \E d \in 1..i : /\ q[d] = VirtualKeyState(key, "Down")
                         /\ \A j \in (d + 1)..i : q[j] # VirtualKeyState(key, "Up")
  BY <1>5 DEF ToldBefore
<1> QED
  BY <1>7, <1>8, <1>9

\* set_virtual_key_state releases what was told before.
LEMMA SetsFollow ==
  ASSUME TypeOK, NoDownIsLost, ReleasesAreTold, UNCHANGED mirror,
         NEW key \in SettableKeys, NEW state, SetsVirtualKey(key, state)
  PROVE  ReleasesAreTold'
<1>1. toClient \in Seq(ClientMessages)
  BY DEF TypeOK
<1>2. CASE UNCHANGED toClient
  BY <1>2 DEF ReleasesAreTold
<1>3. ASSUME NEW m \in ClientMessages, toClient' = Append(toClient, m),
             \A k \in VirtualKeys : m = VirtualKeyState(k, "Up") => Told(toClient, mirror, k)
      PROVE  ReleasesAreTold'
  BY <1>1, <1>3, AppendFollowsTold DEF ReleasesAreTold
<1>4. CASE PressVirtualKey(key) /\ key \in VirtualKeys /\ clientUp
  <2>1. /\ toClient' = Append(toClient, VirtualKeyState(key, "Down"))
        /\ VirtualKeyState(key, "Down") \in ClientMessages
    BY <1>4, MessageTypes DEF PressVirtualKey, Tell, SendToClient
  <2>2. \A k : VirtualKeyState(key, "Down") # VirtualKeyState(k, "Up")
    BY DEF VirtualKeyState
  <2> QED
    BY <1>3, <2>1, <2>2
<1>5. CASE ReleaseVirtualKey(key) /\ key \in virtualDown /\ key \in VirtualKeys /\ clientUp
  <2>1. /\ toClient' = Append(toClient, VirtualKeyState(key, "Up"))
        /\ VirtualKeyState(key, "Up") \in ClientMessages
    BY <1>5, MessageTypes DEF ReleaseVirtualKey, Tell, SendToClient
  <2>2. \A k : VirtualKeyState(key, "Up") = VirtualKeyState(k, "Up") => k = key
    BY DEF VirtualKeyState
  <2>3. Told(toClient, mirror, key)
    BY <1>5, ConstantsAreDistinct, ToldIsDownIsToldOf DEF NoDownIsLost
  <2> QED
    BY <1>3, <2>1, <2>2, <2>3
<1> QED
  BY <1>2, <1>4, <1>5 DEF SetsVirtualKey, PressVirtualKey, ReleaseVirtualKey, Tell, SendToClient

\* Every step keeps it.
LEMMA ReleasesKept == TypeOK /\ NoDownIsLost /\ ReleasesAreTold /\ [Steps]_vars => ReleasesAreTold'
<1> SUFFICES ASSUME TypeOK, NoDownIsLost, ReleasesAreTold, [Steps]_vars PROVE ReleasesAreTold'
  OBVIOUS
<1>1. ASSUME UNCHANGED <<mirror, toClient>> PROVE ReleasesAreTold'
  BY <1>1 DEF ReleasesAreTold
<1>2. ASSUME toClient' = << >> PROVE ReleasesAreTold'
  BY <1>2 DEF ReleasesAreTold, ReleasesFollow
<1>3. CASE Connect \/ UpdateContexts \/ ToggleActive \/ ReadConfiguration \/ ReadActiveContexts \/ ServerDrops
  BY <1>1, <1>3 DEF Connect, UpdateContexts, ToggleActive, ReadConfiguration, ReadActiveContexts,
                    ServerDrops, client_vars
<1>4. CASE ReadVirtualKeyState \/ ReadExecuteAction
  BY <1>4, TailFollowsTold DEF ReadVirtualKeyState, ReadExecuteAction, ReleasesAreTold
<1>5. CASE ClientNotices \/ \E c \in Configs : ClientRestarts(c)
  BY <1>2, <1>5 DEF ClientNotices, ClientRestarts
<1>6. CASE \E c \in Configs : ChangeConfig(c) \/ SwapRecentFile(c)
  BY <1>1, <1>6 DEF ChangeConfig, SwapRecentFile
<1>7. ASSUME NEW key, NEW state, PassesOn(key, state) PROVE ReleasesAreTold'
  BY <1>1, <1>7 DEF PassesOn, client_vars
<1>8. CASE ReadSetVirtualKeyState
  <2>1. Head(toServer) \in ServerMessages
    BY <1>8 DEF ReadSetVirtualKeyState, TypeOK
  <2>2. Head(toServer).key \in SettableKeys
    BY <1>8, <2>1 DEF ReadSetVirtualKeyState, ServerMessages
  <2> QED
    BY <1>8, <2>2, SetsFollow DEF ReadSetVirtualKeyState, client_vars
<1>9. ASSUME NEW key \in VirtualKeys, MappingToggles(key) PROVE ReleasesAreTold'
  BY <1>9, SetsFollow, VirtualKeysAreSettable DEF MappingToggles, client_vars
<1>10. CASE MappingTriggersAction
  <2>1. UNCHANGED mirror /\ SendToClient(ExecuteAction)
    BY <1>10 DEF MappingTriggersAction, client_vars
  <2>2. toClient \in Seq(ClientMessages) /\ ExecuteAction \in ClientMessages
    BY MessageTypes DEF TypeOK
  <2>3. \A k : ExecuteAction # VirtualKeyState(k, "Up")
    BY DEF ExecuteAction, VirtualKeyState
  <2> QED
    BY <2>1, <2>2, <2>3, AppendFollowsTold DEF SendToClient, ReleasesAreTold
<1>11. CASE UNCHANGED vars
  BY <1>1, <1>11 DEF vars, client_vars
<1>12. ASSUME NEW w \in Windows, FocusChanges(w) PROVE ReleasesAreTold'
  BY <1>1, <1>12 DEF FocusChanges, client_vars
<1> QED
  BY <1>3, <1>4, <1>5, <1>6, <1>7, <1>8, <1>9, <1>10, <1>11, <1>12, SetsPassOn DEF Steps, Next

-----------------------------------------------------------------------------
(***************************************************************************)
(* The contexts the server will have, once it read all that is on its way: *)
(* those of the last message that sets them.                               *)
(***************************************************************************)
SetsContexts(m) == m.type \in {"configuration", "active_contexts"}
SetTo(m) == IF m.type = "configuration" THEN {} ELSE m.contexts

Leaves(q, before, after) ==
  \/ before = after /\ \A i \in 1..Len(q) : ~SetsContexts(q[i])
  \/ \E i \in 1..Len(q) :
       /\ SetsContexts(q[i]) /\ SetTo(q[i]) = after
       /\ \A j \in (i + 1)..Len(q) : ~SetsContexts(q[j])

Agreed(after) == IF active THEN after = contexts ELSE after \subseteq {0}

AgreeInv == clientUp /\ serverUp => \E after : Leaves(toServer, serverContexts, after) /\ Agreed(after)

LEMMA AppendLeaves ==
  ASSUME NEW q \in Seq(ServerMessages), NEW m \in ServerMessages, NEW before
  PROVE  /\ SetsContexts(m) => Leaves(q \o <<m>>, before, SetTo(m))
         /\ \A after : Leaves(q, before, after) /\ ~SetsContexts(m) => Leaves(q \o <<m>>, before, after)
<1> DEFINE r == q \o <<m>>
<1>1. /\ Len(q) \in Nat /\ Len(r) = Len(q) + 1
      /\ r[Len(q) + 1] = m /\ \A i \in 1..Len(q) : r[i] = q[i]
  OBVIOUS
<1> HIDE DEF r
<1>2. SetsContexts(m) => Leaves(r, before, SetTo(m))
  BY <1>1 DEF Leaves
<1>3. ASSUME NEW after, Leaves(q, before, after), ~SetsContexts(m) PROVE Leaves(r, before, after)
  <2>1. CASE before = after /\ \A i \in 1..Len(q) : ~SetsContexts(q[i])
    BY <1>1, <1>3, <2>1 DEF Leaves
  <2>2. ASSUME NEW i \in 1..Len(q), SetsContexts(q[i]), SetTo(q[i]) = after,
               \A j \in (i + 1)..Len(q) : ~SetsContexts(q[j])
        PROVE  Leaves(r, before, after)
    <3>1. i \in 1..Len(r) /\ SetsContexts(r[i]) /\ SetTo(r[i]) = after
      BY <1>1, <2>2
    <3>2. \A j \in (i + 1)..Len(r) : ~SetsContexts(r[j])
      BY <1>1, <1>3, <2>2
    <3> QED
      BY <3>1, <3>2 DEF Leaves
  <2> QED
    BY <1>3, <2>1, <2>2 DEF Leaves
<1> QED
  BY <1>2, <1>3 DEF r

LEMMA TailLeaves ==
  ASSUME NEW q \in Seq(ServerMessages), q # << >>, NEW before, NEW after, Leaves(q, before, after)
  PROVE  Leaves(Tail(q), IF SetsContexts(Head(q)) THEN SetTo(Head(q)) ELSE before, after)
<1> DEFINE r == Tail(q)
           h == Head(q)
           then == IF SetsContexts(h) THEN SetTo(h) ELSE before
<1>1. Len(q) \in Nat \ {0} /\ Len(r) = Len(q) - 1 /\ h = q[1] /\ \A i \in 1..Len(r) : r[i] = q[i + 1]
  OBVIOUS
<1> HIDE DEF r, h
<1>2. CASE before = after /\ \A i \in 1..Len(q) : ~SetsContexts(q[i])
  <2>1. then = after /\ \A i \in 1..Len(r) : ~SetsContexts(r[i])
    BY <1>1, <1>2
  <2> QED
    BY <2>1 DEF Leaves, r, h
<1>3. ASSUME NEW i \in 1..Len(q), SetsContexts(q[i]), SetTo(q[i]) = after,
             \A j \in (i + 1)..Len(q) : ~SetsContexts(q[j])
      PROVE  Leaves(r, then, after)
  <2>1. CASE i = 1
    <3>1. then = after /\ \A j \in 1..Len(r) : ~SetsContexts(r[j])
      BY <1>1, <1>3, <2>1
    <3> QED
      BY <3>1 DEF Leaves
  <2>2. CASE i # 1
    <3>1. i - 1 \in 1..Len(r) /\ SetsContexts(r[i - 1]) /\ SetTo(r[i - 1]) = after
      BY <1>1, <1>3, <2>2
    <3>2. \A j \in i..Len(r) : ~SetsContexts(r[j])
      BY <1>1, <1>3, <2>2
    <3> QED
      BY <3>1, <3>2 DEF Leaves
  <2> QED
    BY <2>1, <2>2
<1> QED
  BY <1>2, <1>3 DEF Leaves, r, h

\* A message of the new contexts, or one that sets none, keeps them agreed.
LEMMA SendAgrees ==
  ASSUME toServer \in Seq(ServerMessages), AgreeInv, NEW m \in ServerMessages, SendToServer(<<m>>),
         UNCHANGED <<clientUp, serverUp, serverContexts>>,
         \/ SetsContexts(m) /\ IF active' THEN SetTo(m) = contexts' ELSE SetTo(m) \subseteq {0}
         \/ ~SetsContexts(m) /\ UNCHANGED <<active, contexts>>
  PROVE  AgreeInv'
<1> SUFFICES ASSUME clientUp, serverUp
             PROVE  \E after : Leaves(toServer', serverContexts, after) /\ Agreed(after)'
  BY DEF AgreeInv, Agreed
<1>1. toServer' = toServer \o <<m>>
  BY DEF SendToServer
<1>2. CASE SetsContexts(m) /\ IF active' THEN SetTo(m) = contexts' ELSE SetTo(m) \subseteq {0}
  <2>1. PICK after : after = SetTo(m)
    OBVIOUS
  <2>2. Leaves(toServer', serverContexts, after)
    BY <1>1, <1>2, <2>1, AppendLeaves
  <2>3. Agreed(after)'
    BY <1>2, <2>1 DEF Agreed
  <2> QED
    BY <2>2, <2>3
<1>3. CASE ~SetsContexts(m) /\ UNCHANGED <<active, contexts>>
  <2>1. PICK after : Leaves(toServer, serverContexts, after) /\ Agreed(after)
    BY DEF AgreeInv
  <2>2. Leaves(toServer', serverContexts, after) /\ Agreed(after)'
    BY <1>1, <1>3, <2>1, AppendLeaves DEF Agreed
  <2> QED
    BY <2>2
<1> QED
  BY <1>2, <1>3

\* send_config sends the contexts after the configuration, or none at all.
LEMMA SentConfigLeaves ==
  ASSUME NEW q \in Seq(ServerMessages), NEW before,
         NEW c \in Configs, NEW w \in Windows \cup {NoWindow}
  PROVE  Leaves(q \o SentConfig(c, w), before, IF active THEN Matching[c][w] ELSE {})
<1> DEFINE a == Configuration(c)
           b == ActiveContexts(c, Matching[c][w])
           r == q \o <<a>>
<1>1. a \in ServerMessages /\ b \in ServerMessages
  BY MatchingType, MessageTypes
<1>2. /\ SetsContexts(a) /\ SetTo(a) = {}
      /\ SetsContexts(b) /\ SetTo(b) = Matching[c][w]
  BY DEF Configuration, ActiveContexts, SetsContexts, SetTo
<1> HIDE DEF a, b
<1>3. r \in Seq(ServerMessages) /\ Leaves(r, before, {})
  <2>1. r \in Seq(ServerMessages)
    BY <1>1
  <2>2. Leaves(r, before, SetTo(a))
    BY <1>1, <1>2, AppendLeaves
  <2> QED
    BY <1>2, <2>1, <2>2
<1> HIDE DEF r
<1>4. Leaves(r \o <<b>>, before, Matching[c][w])
  BY <1>1, <1>2, <1>3, AppendLeaves
<1>5. q \o SentConfig(c, w) = IF active THEN r \o <<b>> ELSE r
  <2>1. SentConfig(c, w) = <<a>> \o IF active THEN <<b>> ELSE << >>
    BY DEF SentConfig, a, b
  <2>2. q \o (<<a>> \o <<b>>) = r \o <<b>> /\ <<a>> \o << >> = <<a>>
    BY <1>1 DEF r
  <2>3. CASE active
    BY <2>1, <2>2, <2>3
  <2>4. CASE ~active
    BY <2>1, <2>2, <2>4 DEF r
  <2> QED
    BY <2>3, <2>4
<1> QED
  BY <1>3, <1>4, <1>5

LEMMA ToggleAgrees ==
  ASSUME TypeOK, AgreeInv, Toggle, UNCHANGED <<clientUp, server_vars>>
  PROVE  AgreeInv'
<1> DEFINE m == ActiveContexts(config, contexts')
<1>1. contexts' \in SUBSET Nat
  BY MatchingType DEF TypeOK, Toggle
<1>2. m \in ServerMessages /\ SetsContexts(m) /\ SetTo(m) = contexts'
  BY <1>1, MessageTypes DEF TypeOK, ActiveContexts, SetsContexts, SetTo
<1>3. ~active' => contexts' \subseteq {0}
  BY DEF Toggle, ClearedContexts
<1>4. SendToServer(<<m>>) /\ UNCHANGED <<clientUp, serverUp, serverContexts>>
  BY DEF Toggle, server_vars
<1> HIDE DEF m
<1> QED
  BY <1>2, <1>3, <1>4, SendAgrees DEF TypeOK

LEMMA AgreeInit == Init => AgreeInv
BY DEF Init, AgreeInv

\* AgreeInv is inductive together with the type and what holds without a server.
LEMMA AgreeKept == TypeOK /\ ContextsInv /\ AgreeInv /\ [Steps]_vars => AgreeInv'
<1> SUFFICES ASSUME TypeOK, ContextsInv, AgreeInv, [Steps]_vars PROVE AgreeInv'
  OBVIOUS
<1>1. ASSUME UNCHANGED <<clientUp, serverUp, serverContexts, toServer, active, contexts>>
      PROVE  AgreeInv'
  BY <1>1 DEF AgreeInv, Agreed
<1>2. ASSUME ~(clientUp' /\ serverUp') PROVE AgreeInv'
  BY <1>2 DEF AgreeInv
<1>3. ASSUME toServer # << >>, toServer' = Tail(toServer),
             UNCHANGED <<clientUp, serverUp, active, contexts>>,
             serverContexts' = IF SetsContexts(Head(toServer)) THEN SetTo(Head(toServer))
                               ELSE serverContexts
      PROVE  AgreeInv'
  <2> SUFFICES ASSUME clientUp, serverUp PROVE AgreeInv'
    BY <1>3 DEF AgreeInv
  <2>1. PICK after : Leaves(toServer, serverContexts, after) /\ Agreed(after)
    BY DEF AgreeInv
  <2>2. Leaves(toServer', serverContexts', after)
    BY <1>3, <2>1, TailLeaves DEF TypeOK
  <2> QED
    BY <1>3, <2>1, <2>2 DEF AgreeInv, Agreed
<1>4. CASE Connect
  <2>1. << >> \in Seq(ServerMessages) /\ config \in Configs /\ focused \in Windows \cup {NoWindow}
    BY DEF TypeOK
  <2>2. << >> \o SentConfig(config, focused) = SentConfig(config, focused)
    BY <2>1, SentConfigType
  <2>3. Leaves(toServer', serverContexts', IF active THEN Matching[config][focused] ELSE {})
    BY <1>4, <2>1, <2>2, SentConfigLeaves DEF Connect
  <2> QED
    BY <1>4, <2>3 DEF Connect, AgreeInv, Agreed, ContextsAfterConfig
<1>5. CASE UpdateContexts
  <2>1. CASE contexts' = contexts
    BY <1>1, <1>5, <2>1 DEF UpdateContexts, server_vars
  <2>2. CASE contexts' # contexts
    <3> DEFINE m == ActiveContexts(config, contexts')
    <3>1. m \in ServerMessages /\ SetsContexts(m) /\ SetTo(m) = contexts'
      BY <1>5, MatchingType, MessageTypes
         DEF TypeOK, UpdateContexts, ActiveContexts, SetsContexts, SetTo
    <3>2. SendToServer(<<m>>) /\ UNCHANGED <<clientUp, serverUp, serverContexts>> /\ active'
      BY <1>5, <2>2 DEF UpdateContexts, server_vars
    <3> HIDE DEF m
    <3> QED
      BY <3>1, <3>2, SendAgrees DEF TypeOK
  <2> QED
    BY <2>1, <2>2
<1>6. CASE ToggleActive
  BY <1>6, ToggleAgrees DEF ToggleActive
<1>7. CASE ReadVirtualKeyState
  BY <1>1, <1>7 DEF ReadVirtualKeyState, server_vars
<1>8. CASE ReadExecuteAction
  <2>1. CASE HasToggleActive[config]
    BY <1>8, <2>1, ToggleAgrees DEF ReadExecuteAction
  <2>2. CASE ~HasToggleActive[config]
    BY <1>1, <1>8, <2>2 DEF ReadExecuteAction, server_vars
  <2> QED
    BY <2>1, <2>2
<1>9. CASE ClientNotices
  BY <1>2, <1>9 DEF ClientNotices
<1>10. ASSUME NEW c \in Configs, ChangeConfig(c) PROVE AgreeInv'
  <2>1. CASE serverUp
    <3> DEFINE after == IF active THEN Matching[c][window] ELSE {}
    <3>1. toServer' = toServer \o SentConfig(c, window)
      BY <1>10, <2>1 DEF ChangeConfig, SendToServer
    <3>2. Leaves(toServer', serverContexts, after)
      BY <3>1, SentConfigLeaves DEF TypeOK
    <3> QED
      BY <1>10, <3>2 DEF ChangeConfig, ContextsAfterConfig, AgreeInv, Agreed, server_vars
  <2>2. CASE ~serverUp
    BY <1>2, <1>10, <2>2 DEF ChangeConfig, server_vars
  <2> QED
    BY <2>1, <2>2
<1>11. ASSUME NEW c \in Configs, SwapRecentFile(c) PROVE AgreeInv'
  BY <1>1, <1>11 DEF SwapRecentFile, server_vars
<1>12. ASSUME NEW c \in Configs, ClientRestarts(c) PROVE AgreeInv'
  BY <1>2, <1>12 DEF ClientRestarts
<1>13. ASSUME NEW key \in SettableKeys, NEW state \in {"Up", "Down", "Not"},
              PassesOn(key, state)
       PROVE AgreeInv'
  <2> DEFINE m == SetVirtualKeyState(config, key, state)
  <2>1. m \in ServerMessages /\ ~SetsContexts(m)
    BY MessageTypes DEF TypeOK, SetVirtualKeyState, SetsContexts
  <2>2. SendToServer(<<m>>) /\ UNCHANGED <<clientUp, serverUp, serverContexts, active, contexts>>
    BY <1>13 DEF PassesOn, client_vars, server_vars
  <2> HIDE DEF m
  <2> QED
    BY <2>1, <2>2, SendAgrees DEF TypeOK
<1>14. CASE ReadConfiguration
  BY <1>3, <1>14 DEF ReadConfiguration, SetsContexts, SetTo, client_vars
<1>15. CASE ReadActiveContexts
  BY <1>3, <1>15 DEF ReadActiveContexts, SetsContexts, SetTo, client_vars
<1>16. CASE ReadSetVirtualKeyState
  BY <1>3, <1>16 DEF ReadSetVirtualKeyState, SetsContexts, client_vars
<1>17. ASSUME NEW key \in VirtualKeys, MappingToggles(key) PROVE AgreeInv'
  BY <1>1, <1>17 DEF MappingToggles, client_vars
<1>18. CASE MappingTriggersAction
  BY <1>1, <1>18 DEF MappingTriggersAction, client_vars, server_vars
<1>19. CASE ServerDrops
  BY <1>2, <1>19 DEF ServerDrops
<1>20. ASSUME NEW w \in Windows, FocusChanges(w) PROVE AgreeInv'
  BY <1>1, <1>20 DEF FocusChanges, client_vars, server_vars
<1>21. CASE UNCHANGED vars
  BY <1>1, <1>21 DEF vars, client_vars, server_vars
<1> QED
  BY <1>4, <1>5, <1>6, <1>7, <1>8, <1>9, <1>10, <1>11, <1>12, <1>13, <1>14, <1>15, <1>16,
     <1>17, <1>18, <1>19, <1>20, <1>21, SetsPassOn DEF Steps, Next

\* AgreeInv is an invariant, inductive together with the type and what holds
\* without a server.
LEMMA AgreeInvariant == Spec => []AgreeInv
BY NextSteps, AgreeInit, AgreeKept, TypeCorrect, ContextsInvariant, PTL DEF Spec

LEMMA LeavesNothing ==
  ASSUME NEW before, NEW after, Leaves(<< >>, before, after)
  PROVE  before = after
<1>1. Len(<< >>) = 0
  OBVIOUS
<1> QED
  BY <1>1 DEF Leaves

\* Once the server read everything, its contexts are those of the client,
\* as long as mappings are active.
THEOREM ContextsAlwaysAgree == Spec => []ContextsAgree
<1>1. AgreeInv => ContextsAgree
  BY LeavesNothing DEF AgreeInv, Agreed, ContextsAgree
<1> QED
  BY <1>1, AgreeInvariant, PTL

\* Once the server read everything, and mappings are not active, no context
\* but toggle-active is.
THEOREM InactiveAlwaysMeansNoMappings == Spec => []InactiveMeansNoMappings
<1>1. AgreeInv => InactiveMeansNoMappings
  BY LeavesNothing DEF AgreeInv, Agreed, InactiveMeansNoMappings
<1> QED
  BY <1>1, AgreeInvariant, PTL

=============================================================================
