--------------------------- MODULE V2SocketProofs ---------------------------
(***************************************************************************)
(* Proofs about V2Socket for every set of sessions, subscribers and sockets.*)
(*                                                                          *)
(* The argument: every handler ends in one of a few private functions, and  *)
(* each of them re-establishes LinkOK (the typed connection state with its  *)
(* invariant) for whatever registry the handler left, obeys DropLaw (a      *)
(* ready epoch ends only with a recorded drop, and a recorded drop is       *)
(* cleared only by a new ready epoch) and LossLaw (a drop is recorded only  *)
(* when a socket is lost).  The history variables then give the theorems on *)
(* gaps.                                                                    *)
(***************************************************************************)
EXTENDS V2SocketWindow, TLAPS

\* The parts of the inductive invariant that no run names.
ConnectingHasSocket  == connecting => socket # NoSocket
IntentionalMeansGone == intentional => socket = NoSocket
GapOwed == ~ClosingVisible => (missed # {} => dropped /\ ~Ready)

RegistryType ==
    /\ subs \in [Sessions -> SUBSET Subscribers]
    /\ feed \in FeedStates

LinkType ==
    /\ socket \in Sockets \cup {NoSocket}
    /\ rs \in [Sockets -> ReadyState]
    /\ connecting \in BOOLEAN
    /\ intentional \in BOOLEAN
    /\ timer \in BOOLEAN
    /\ attempts \in 0..BackoffCap
    /\ dropped \in BOOLEAN
    /\ live \in Liveness \cup {NoLive}
    /\ wire \subseteq Channels

LinkInv ==
    /\ NoStrandedSubscriber
    /\ IdleIsQuiet
    /\ AtMostOneLiveSocket
    /\ ConnectingHasSocket
    /\ IntentionalMeansGone

LinkOK == LinkType /\ LinkInv

SocketInv == TypeOK /\ LinkInv /\ GapOwed

DropLaw ==
    HasSubscriptions' => /\ Ready /\ ~Ready' => dropped'
                         /\ dropped /\ ~dropped' => BecomesReady

LossLaw == HasSubscriptions' /\ ~dropped /\ dropped' => SocketLost

StepOK == LinkOK' /\ DropLaw /\ LossLaw

USE SocketAssumption

-----------------------------------------------------------------------------
(* The private functions of the module.                                     *)

LEMMA ActiveChannels == Active' \subseteq Channels /\ Active \subseteq Channels
  BY DEF Active, Channels

LEMMA GoIdleOK ==
  ASSUME LinkOK, ~HasSubscriptions', GoIdle
  PROVE  StepOK
  <1>1. LinkType'
    <2> USE DEF LinkOK, GoIdle, TeardownSocket
    <2>1. rs' \in [Sockets -> ReadyState]
      BY DEF LinkType, ReadyState
    <2>2. attempts' \in 0..BackoffCap
      OBVIOUS
    <2> QED  BY <2>1, <2>2 DEF LinkType
  <1>2. LinkInv'
    <2>1. AtMostOneLiveSocket'
      BY DEF LinkOK, LinkType, LinkInv, GoIdle, TeardownSocket, AtMostOneLiveSocket
    <2> QED
      BY <2>1 DEF LinkInv, GoIdle, TeardownSocket, NoStrandedSubscriber,
         IdleIsQuiet, ConnectingHasSocket, IntentionalMeansGone, NoLive
  <1> QED  BY <1>1, <1>2 DEF StepOK, LinkOK, DropLaw, LossLaw, SocketLost

LEMMA ScheduleOK ==
  ASSUME NEW pending \in BOOLEAN, NEW stopped \in BOOLEAN, LinkType,
         ScheduleReconnect(pending, stopped)
  PROVE  /\ timer' \in BOOLEAN
         /\ attempts' \in 0..BackoffCap
         /\ HasSubscriptions' /\ ~stopped => timer'
         /\ ~HasSubscriptions' => timer' = pending
  <1> USE DEF ScheduleReconnect, LinkType
  <1>1. CASE HasSubscriptions' /\ ~stopped /\ ~pending
    <2>1. timer' = TRUE /\ attempts' \in 0..BackoffCap
      BY <1>1
    <2> QED  BY <2>1, <1>1
  <1>2. CASE ~(HasSubscriptions' /\ ~stopped /\ ~pending)
    <2>1. timer' = pending /\ attempts' \in 0..BackoffCap
      BY <1>2
    <2> QED  BY <2>1, <1>2
  <1> QED  BY <1>1, <1>2

LEMMA FailSocketEpochOK ==
  ASSUME LinkOK, socket # NoSocket, FailSocketEpoch
  PROVE  StepOK
  <1>1. CASE ~HasSubscriptions'
    BY <1>1, GoIdleOK DEF FailSocketEpoch
  <1>2. CASE HasSubscriptions'
    <2> USE <1>2 DEF LinkOK, LinkInv, LinkType
    <2>1. /\ TeardownSocket /\ dropped' = TRUE /\ connecting' = FALSE
          /\ ScheduleReconnect(timer, intentional)
          /\ wire' = {} /\ UNCHANGED intentional
      BY DEF FailSocketEpoch
    <2>2. intentional = FALSE
      BY DEF IntentionalMeansGone
    <2>3. timer' \in BOOLEAN /\ attempts' \in 0..BackoffCap /\ timer'
      BY <2>1, <2>2, ScheduleOK
    <2>4. LinkType'
      BY <2>1, <2>3 DEF TeardownSocket, ReadyState
    <2>5. AtMostOneLiveSocket'
      BY <2>1 DEF TeardownSocket, AtMostOneLiveSocket
    <2>6. LinkInv'
      BY <2>1, <2>2, <2>3, <2>5 DEF TeardownSocket, NoStrandedSubscriber,
         IdleIsQuiet, ConnectingHasSocket, IntentionalMeansGone
    <2>7. DropLaw /\ LossLaw
      BY <2>1 DEF DropLaw, LossLaw, SocketLost, TeardownSocket
    <2> QED  BY <2>4, <2>6, <2>7 DEF StepOK
  <1> QED  BY <1>1, <1>2

LEMMA UnchangedLinkOK ==
  ASSUME LinkOK, UNCHANGED <<socket, rs, connecting, intentional, timer,
                             attempts, dropped, live>>,
         wire' \subseteq Channels,
         HasSubscriptions' <=> HasSubscriptions
  PROVE  StepOK
  <1>1. Ready' <=> Ready
    BY DEF Ready
  <1>2. LinkType' /\ LinkInv'
    BY DEF LinkOK, LinkType, LinkInv, NoStrandedSubscriber, IdleIsQuiet,
       AtMostOneLiveSocket, ConnectingHasSocket, IntentionalMeansGone
  <1> QED  BY <1>1, <1>2 DEF StepOK, LinkOK, DropLaw, LossLaw, SocketLost

\* The same for a step that keeps a ready link and subscribes something.
LEMMA ReadyKeepsLink ==
  ASSUME LinkOK, UNCHANGED <<socket, rs, connecting, intentional, timer,
                             attempts, dropped, live>>,
         wire' \subseteq Channels, Ready, HasSubscriptions'
  PROVE  StepOK
  <1>1. Ready' <=> Ready
    BY DEF Ready
  <1>2. LinkType' /\ LinkInv'
    BY DEF LinkOK, LinkType, LinkInv, NoStrandedSubscriber, IdleIsQuiet,
       AtMostOneLiveSocket, ConnectingHasSocket, IntentionalMeansGone, Ready
  <1> QED  BY <1>1, <1>2 DEF StepOK, LinkOK, DropLaw, LossLaw, SocketLost

LEMMA CloseIfIdleOK ==
  ASSUME LinkOK, NEW U, HasSubscriptions' => HasSubscriptions, CloseIfIdle(U)
  PROVE  StepOK
  <1>1. CASE ~HasSubscriptions'
    BY <1>1, GoIdleOK DEF CloseIfIdle
  <1>2. CASE HasSubscriptions'
    <2>1. wire' \subseteq Channels
      BY <1>2 DEF CloseIfIdle, LinkOK, LinkType
    <2> QED  BY <1>2, <2>1, UnchangedLinkOK DEF CloseIfIdle
  <1> QED  BY <1>1, <1>2

LEMMA ConnectOK ==
  ASSUME LinkOK, NEW pending \in BOOLEAN, HasSubscriptions', Connect(pending)
  PROVE  StepOK
  <1> USE DEF LinkOK, LinkType, LinkInv
  <1>1. CASE \/ socket # NoSocket /\ rs[socket] \in {"open", "connecting"}
             \/ connecting
    <2>1. /\ timer' = pending
          /\ UNCHANGED <<socket, rs, connecting, intentional, attempts, dropped,
                         live, wire>>
      BY <1>1 DEF Connect
    <2>2. socket # NoSocket
      BY <1>1 DEF ConnectingHasSocket
    <2>3. Ready' <=> Ready
      BY <2>1 DEF Ready
    <2>4. LinkType' /\ LinkInv'
      BY <2>1, <2>2 DEF NoStrandedSubscriber, IdleIsQuiet, AtMostOneLiveSocket,
         ConnectingHasSocket, IntentionalMeansGone
    <2> QED  BY <2>1, <2>3, <2>4 DEF StepOK, DropLaw, LossLaw, SocketLost
  <1>2. CASE ~(\/ socket # NoSocket /\ rs[socket] \in {"open", "connecting"}
               \/ connecting)
    <2>1. intentional' = FALSE /\ UNCHANGED <<dropped, live>>
      BY <1>2 DEF Connect
    <2>2. ~Ready
      BY <1>2 DEF Ready
    <2>3. DropLaw /\ LossLaw
      BY <2>1, <2>2 DEF DropLaw, LossLaw, SocketLost
    <2>4. CASE \E s \in Sockets :
                 /\ rs[s] = "closed"
                 /\ socket' = s
                 /\ rs' = [rs EXCEPT ![s] = "connecting"]
                 /\ connecting' = TRUE
                 /\ timer' = pending
                 /\ wire' = {}
                 /\ UNCHANGED attempts
      <3>1. PICK s \in Sockets :
                 /\ rs[s] = "closed"
                 /\ socket' = s
                 /\ rs' = [rs EXCEPT ![s] = "connecting"]
                 /\ connecting' = TRUE
                 /\ timer' = pending
                 /\ wire' = {}
                 /\ UNCHANGED attempts
        BY <2>4
      <3>2. LinkType'
        BY <2>1, <3>1 DEF ReadyState
      <3>3. AtMostOneLiveSocket'
        BY <1>2, <3>1 DEF AtMostOneLiveSocket
      <3>4. LinkInv'
        BY <2>1, <3>1, <3>3 DEF NoStrandedSubscriber, IdleIsQuiet,
           ConnectingHasSocket, IntentionalMeansGone
      <3> QED  BY <2>3, <3>2, <3>4 DEF StepOK
    <2>5. CASE /\ connecting' = FALSE
               /\ ScheduleReconnect(pending, FALSE)
               /\ UNCHANGED <<socket, rs, wire>>
      <3>1. timer' \in BOOLEAN /\ attempts' \in 0..BackoffCap /\ timer'
        BY <2>5, ScheduleOK
      <3>2. LinkType'
        BY <2>1, <2>5, <3>1
      <3>3. LinkInv'
        BY <2>1, <2>5, <3>1 DEF NoStrandedSubscriber, IdleIsQuiet,
           AtMostOneLiveSocket, ConnectingHasSocket, IntentionalMeansGone
      <3> QED  BY <2>3, <3>2, <3>3 DEF StepOK
    <2> QED  BY <1>2, <2>4, <2>5 DEF Connect
  <1> QED  BY <1>1, <1>2

-----------------------------------------------------------------------------
(* The registry after a handler.                                            *)

LEMMA RegistryGrows ==
  ASSUME RegistryType, NEW c \in Sessions, NEW p \in Subscribers,
         subs' = [subs EXCEPT ![c] = @ \cup {p}], UNCHANGED feed
  PROVE  HasSubscriptions'
  <1>1. subs'[c] # {}
    BY DEF RegistryType
  <1> QED  BY <1>1 DEF HasSubscriptions, Active

LEMMA RegistryShrinks ==
  ASSUME RegistryType,
         \A c \in Sessions : subs'[c] \subseteq subs[c],
         feed' = "live" => feed = "live"
  PROVE  HasSubscriptions' => HasSubscriptions
  <1>1. Active' \subseteq Active
    BY DEF Active
  <1> QED  BY <1>1 DEF HasSubscriptions

LEMMA RegistryUnchanged ==
  ASSUME UNCHANGED registry
  PROVE  HasSubscriptions' <=> HasSubscriptions
  BY DEF registry, HasSubscriptions, Active

LEMMA DetachOK ==
  ASSUME LinkOK, NEW c, HasSubscriptions' => HasSubscriptions, Detach(c)
  PROVE  StepOK
  <1>1. PICK sent \in SendOutcomes : CloseIfIdle(IF Ready /\ sent THEN {c} ELSE {})
    BY DEF Detach
  <1> DEFINE U == IF Ready /\ sent THEN {c} ELSE {}
  <1>2. CloseIfIdle(U)
    BY <1>1
  <1> HIDE DEF U
  <1> QED  BY <1>2, CloseIfIdleOK

LEMMA AttachOK ==
  ASSUME LinkOK, NEW c \in Channels, NEW first \in BOOLEAN, HasSubscriptions',
         Attach(c, first)
  PROVE  StepOK
  <1>1. CASE ~Ready
    <2>1. Connect(timer) /\ timer \in BOOLEAN
      BY <1>1 DEF Attach, LinkOK, LinkType
    <2> QED  BY <2>1, ConnectOK
  <1>2. CASE Ready /\ (first => FailSocketEpoch)
    <2>1. socket # NoSocket
      BY <1>2 DEF Ready
    <2>2. CASE first
      BY <1>2, <2>1, <2>2, FailSocketEpochOK
    <2>3. CASE ~first
      <3>1. UNCHANGED link
        BY <1>2, <2>3 DEF Attach
      <3> QED  BY <1>2, <3>1, ReadyKeepsLink DEF link, LinkOK, LinkType
    <2> QED  BY <2>2, <2>3
  <1>3. CASE Ready /\ first /\ ~FailSocketEpoch
    <2>1. /\ wire' = wire \cup {c}
          /\ UNCHANGED <<socket, rs, connecting, intentional, timer, attempts,
                         dropped, live>>
      BY <1>3 DEF Attach
    <2>2. wire' \subseteq Channels
      BY <2>1 DEF LinkOK, LinkType
    <2> QED  BY <1>3, <2>1, <2>2, ReadyKeepsLink
  <1> QED  BY <1>1, <1>2, <1>3

-----------------------------------------------------------------------------
(* The handlers.                                                            *)

StepResult ==
    RegistryType' /\ LinkOK' /\ LossLaw /\ (Closes \/ DropLaw)

LEMMA FeedReactsOK ==
  ASSUME RegistryType, UNCHANGED subs, FeedReacts
  PROVE  RegistryType' /\ (HasSubscriptions' => HasSubscriptions)
  <1>1. feed' = feed \/ feed' = "none"
    BY DEF FeedReacts
  <1>2. RegistryType'
    BY <1>1 DEF RegistryType, FeedStates
  <1>3. /\ \A c \in Sessions : subs'[c] \subseteq subs[c]
        /\ feed' = "live" => feed = "live"
    BY <1>1
  <1> QED  BY <1>2, <1>3, RegistryShrinks

LEMMA CallsOK ==
  ASSUME RegistryType, LinkOK, NEW c \in Sessions, NEW p \in Subscribers,
         SubscribeSession(c, p) \/ CloseSession(c, p)
  PROVE  StepResult
  <1>1. CASE SubscribeSession(c, p)
    <2>1. HasSubscriptions'
      BY <1>1, RegistryGrows DEF SubscribeSession
    <2>2. RegistryType'
      BY <1>1 DEF SubscribeSession, RegistryType
    <2>3. Attach(c, subs[c] = {}) /\ (subs[c] = {}) \in BOOLEAN /\ c \in Channels
      BY <1>1 DEF SubscribeSession, Channels
    <2> DEFINE first == subs[c] = {}
    <2>4. Attach(c, first) /\ first \in BOOLEAN
      BY <2>3
    <2> HIDE DEF first
    <2>5. StepOK
      BY <2>1, <2>3, <2>4, AttachOK
    <2> QED  BY <2>2, <2>5 DEF StepResult, StepOK
  <1>2. CASE CloseSession(c, p)
    <2>1. /\ \A d \in Sessions : subs'[d] \subseteq subs[d]
          /\ feed' = feed /\ RegistryType'
      BY <1>2 DEF CloseSession, RegistryType
    <2>2. HasSubscriptions' => HasSubscriptions
      BY <2>1, RegistryShrinks
    <2>3. CASE Detach(c)
      BY <2>1, <2>2, <2>3, DetachOK DEF StepResult, StepOK
    <2>4. CASE subs'[c] # {} /\ UNCHANGED link
      <3>1. HasSubscriptions'
        BY <2>4 DEF HasSubscriptions, Active
      <3>2. StepOK
        BY <2>2, <2>4, <3>1, UnchangedLinkOK DEF link, LinkOK, LinkType
      <3> QED  BY <2>1, <3>2 DEF StepResult, StepOK
    <2> QED  BY <1>2, <2>3, <2>4 DEF CloseSession
  <1> QED  BY <1>1, <1>2

LEMMA FeedCallsOK ==
  ASSUME RegistryType, LinkOK,
         SubscribeFeed \/ CloseFeed \/ FeedDeliveryFails
  PROVE  StepResult
  <1>1. CASE SubscribeFeed
    <2>1. HasSubscriptions'
      BY <1>1 DEF SubscribeFeed, HasSubscriptions, Active
    <2>2. RegistryType'
      BY <1>1 DEF SubscribeFeed, RegistryType, FeedStates
    <2>3. StepOK
      BY <1>1, <2>1, AttachOK DEF SubscribeFeed, Channels
    <2> QED  BY <2>2, <2>3 DEF StepResult, StepOK
  <1>2. CASE CloseFeed \/ FeedDeliveryFails
    <2>1. Detach(Feed) /\ UNCHANGED subs /\ feed' \in {"none", "failed"}
      BY <1>2 DEF CloseFeed, FeedDeliveryFails
    <2>2. RegistryType'
      BY <2>1 DEF RegistryType, FeedStates
    <2>3. HasSubscriptions' => HasSubscriptions
      BY <2>1, RegistryShrinks
    <2>4. StepOK
      BY <2>1, <2>3, DetachOK
    <2> QED  BY <2>2, <2>4 DEF StepResult, StepOK
  <1> QED  BY <1>1, <1>2

LEMMA ReconnectOK ==
  ASSUME RegistryType, LinkOK, ReconnectFires
  PROVE  StepResult
  <1>1. UNCHANGED registry /\ timer /\ Connect(FALSE)
    BY DEF ReconnectFires
  <1>2. HasSubscriptions
    BY <1>1 DEF LinkOK, LinkInv, IdleIsQuiet
  <1>3. HasSubscriptions'
    BY <1>1, <1>2, RegistryUnchanged
  <1>4. StepOK
    BY <1>1, <1>3, ConnectOK
  <1> QED  BY <1>1, <1>4 DEF StepResult, StepOK, RegistryType, registry

LEMMA OnOpenOK ==
  ASSUME RegistryType, LinkOK, OnOpen
  PROVE  StepResult
  <1>1. CASE FeedReacts /\ FailSocketEpoch
    BY <1>1, FeedReactsOK, FailSocketEpochOK DEF OnOpen, StepResult, StepOK
  <1>2. CASE /\ rs' = [rs EXCEPT ![socket] = "open"]
             /\ connecting' = FALSE
             /\ live' = [socket |-> socket, phase |-> "awaiting-welcome",
                         hb |-> "none", silent |-> FALSE]
             /\ UNCHANGED <<feed, socket, intentional, timer, attempts,
                            dropped, wire>>
    <2>1. UNCHANGED subs /\ socket # NoSocket /\ socket \in Sockets
      BY DEF OnOpen, LinkOK, LinkType
    <2>2. HasSubscriptions' <=> HasSubscriptions
      BY <1>2, <2>1, RegistryUnchanged DEF registry
    <2>3. LinkType'
      BY <1>2, <2>1 DEF LinkOK, LinkType, ReadyState, Liveness
    <2>4. AtMostOneLiveSocket'
      BY <1>2, <2>1 DEF LinkOK, LinkType, LinkInv, AtMostOneLiveSocket
    <2>5. LinkInv'
      BY <1>2, <2>1, <2>2, <2>4 DEF LinkOK, LinkInv, NoStrandedSubscriber,
         IdleIsQuiet, ConnectingHasSocket, IntentionalMeansGone
    <2>6. DropLaw /\ LossLaw
      BY <1>2, <2>1 DEF DropLaw, LossLaw, Ready, OnOpen
    <2> QED  BY <1>2, <2>1, <2>3, <2>5, <2>6 DEF StepResult, LinkOK, RegistryType
  <1> QED  BY <1>1, <1>2 DEF OnOpen

LEMMA WelcomeOK ==
  ASSUME RegistryType, LinkOK, Welcome
  PROVE  StepResult
  <1>1. RegistryType' /\ (HasSubscriptions' => HasSubscriptions)
    BY FeedReactsOK DEF Welcome
  <1>2. socket # NoSocket /\ socket \in Sockets
    BY DEF Welcome, LinkOK, LinkType
  <1>3. CASE FailSocketEpoch
    BY <1>1, <1>2, <1>3, FailSocketEpochOK DEF StepResult, StepOK
  <1>4. CASE ~HasSubscriptions' /\ GoIdle
    BY <1>1, <1>4, GoIdleOK DEF StepResult, StepOK
  <1>5. CASE /\ HasSubscriptions'
             /\ live' = [live EXCEPT !.phase = "ready"]
             /\ attempts' = 0
             /\ dropped' = FALSE
             /\ wire' \in {Active', Active}
             /\ UNCHANGED <<socket, rs, connecting, intentional, timer>>
    <2>1. live \in Liveness /\ live.phase = "awaiting-welcome"
      BY <1>2 DEF Welcome, LinkOK, LinkType, NoLive
    <2>2. live' \in Liveness /\ live'.phase = "ready" /\ live'.socket = live.socket
      BY <1>5, <2>1 DEF Liveness
    <2>3. LinkType'
      <3>1. wire' \subseteq Channels
        BY <1>5, ActiveChannels
      <3>2. attempts' \in 0..BackoffCap
        BY <1>5
      <3> QED  BY <1>5, <2>2, <3>1, <3>2 DEF LinkOK, LinkType
    <2>4. LinkInv'
      BY <1>2, <1>5 DEF LinkOK, LinkInv, NoStrandedSubscriber, IdleIsQuiet,
         AtMostOneLiveSocket, ConnectingHasSocket, IntentionalMeansGone
    <2>5. BecomesReady
      BY <1>2, <1>5, <2>1, <2>2 DEF BecomesReady, Ready, Welcome
    <2>6. DropLaw /\ LossLaw
      BY <1>5, <2>5 DEF DropLaw, LossLaw, BecomesReady
    <2> QED  BY <1>1, <2>3, <2>4, <2>6 DEF StepResult, LinkOK
  <1>6. \/ FailSocketEpoch
        \/ ~HasSubscriptions' /\ GoIdle
        \/ /\ HasSubscriptions'
           /\ live' = [live EXCEPT !.phase = "ready"]
           /\ attempts' = 0
           /\ dropped' = FALSE
           /\ wire' \in {Active', Active}
           /\ UNCHANGED <<socket, rs, connecting, intentional, timer>>
    BY DEF Welcome
  <1> QED  BY <1>3, <1>4, <1>5, <1>6

LEMMA TimeoutsOK ==
  ASSUME RegistryType, LinkOK, WelcomeTimeout \/ WatchdogTick
  PROVE  StepResult
  <1>1. FeedReacts /\ FailSocketEpoch /\ UNCHANGED subs /\ socket # NoSocket
    BY DEF WelcomeTimeout, WatchdogTick, Ready
  <1> QED  BY <1>1, FeedReactsOK, FailSocketEpochOK DEF StepResult, StepOK

LEMMA HeartbeatOK ==
  ASSUME RegistryType, LinkOK,
         SendPing \/ Silence \/ \E isPong \in BOOLEAN : InboundFrame(isPong)
  PROVE  StepResult
  <1>1. /\ UNCHANGED <<registry, socket, rs, connecting, intentional, timer,
                       attempts, dropped, wire>>
        /\ Ready
    BY DEF SendPing, Silence, InboundFrame
  <1>2. live \in Liveness
    BY <1>1 DEF LinkOK, LinkType, Ready, NoLive
  <1>3. /\ live' \in Liveness
        /\ live'.socket = live.socket
        /\ live'.phase = live.phase
    <2>1. CASE SendPing
      BY <1>2, <2>1 DEF SendPing, Liveness
    <2>2. CASE Silence
      BY <1>2, <2>2 DEF Silence, Liveness
    <2>3. CASE \E isPong \in BOOLEAN : InboundFrame(isPong)
      BY <1>2, <2>3 DEF InboundFrame, Liveness
    <2> QED  BY <2>1, <2>2, <2>3
  <1>4. Ready'
    BY <1>1, <1>3 DEF Ready
  <1>5. HasSubscriptions' <=> HasSubscriptions
    BY <1>1, RegistryUnchanged
  <1>6. LinkType'
    BY <1>1, <1>3 DEF LinkOK, LinkType
  <1>7. LinkInv'
    BY <1>1, <1>5 DEF LinkOK, LinkInv, NoStrandedSubscriber, IdleIsQuiet, Ready,
       AtMostOneLiveSocket, ConnectingHasSocket, IntentionalMeansGone
  <1> QED  BY <1>1, <1>4, <1>6, <1>7
           DEF StepResult, LinkOK, DropLaw, LossLaw, RegistryType, registry

LEMMA TerminalOK ==
  ASSUME RegistryType, LinkOK, NEW c \in AgentSessions, Terminal(c)
  PROVE  StepResult
  <1>1. /\ RegistryType'
        /\ \A d \in Sessions : subs'[d] \subseteq subs[d]
        /\ feed' = feed
    BY DEF Terminal, RegistryType
  <1>2. HasSubscriptions' => HasSubscriptions
    BY <1>1, RegistryShrinks
  <1> QED  BY <1>1, <1>2, DetachOK DEF Terminal, StepResult, StepOK

LEMMA ClosingOK ==
  ASSUME RegistryType, LinkOK, NEW s \in Sockets,
         ServerCloses(s) \/ StaleSocketCloses(s)
  PROVE  StepResult
  <1>1. /\ UNCHANGED <<registry, socket, connecting, intentional, timer, attempts,
                       dropped, live, wire>>
        /\ rs' = [rs EXCEPT ![s] = rs'[s]]
        /\ rs'[s] \in {"closing", "closed"}
    BY DEF ServerCloses, StaleSocketCloses, LinkOK, LinkType
  <1>2. HasSubscriptions' <=> HasSubscriptions
    BY <1>1, RegistryUnchanged
  <1>3. LinkType'
    BY <1>1 DEF LinkOK, LinkType, ReadyState
  <1>4. AtMostOneLiveSocket'
    BY <1>1 DEF LinkOK, LinkType, LinkInv, AtMostOneLiveSocket
  <1>5. LinkInv'
    BY <1>1, <1>2, <1>4 DEF LinkOK, LinkInv, NoStrandedSubscriber, IdleIsQuiet,
       ConnectingHasSocket, IntentionalMeansGone
  <1>6. LossLaw /\ (Closes \/ DropLaw)
    <2>1. CASE ServerCloses(s)
      BY <1>1, <2>1 DEF Closes, LossLaw
    <2>2. CASE StaleSocketCloses(s)
      <3>1. Ready' <=> Ready
        BY <1>1, <2>2 DEF Ready, StaleSocketCloses, LinkOK, LinkType
      <3> QED  BY <1>1, <3>1 DEF DropLaw, LossLaw, SocketLost
    <2> QED  BY <2>1, <2>2
  <1> QED  BY <1>1, <1>3, <1>5, <1>6 DEF StepResult, LinkOK, RegistryType, registry

LEMMA OnCloseOK ==
  ASSUME RegistryType, LinkOK, OnClose
  PROVE  StepResult
  <1>1. RegistryType' /\ (HasSubscriptions' => HasSubscriptions)
    BY FeedReactsOK DEF OnClose
  <1>2. /\ socket # NoSocket /\ socket \in Sockets
        /\ socket' = NoSocket
        /\ rs' = [rs EXCEPT ![socket] = "closed"]
        /\ connecting' = FALSE
        /\ wire' = {}
    BY DEF OnClose, LinkOK, LinkType
  <1>3. AtMostOneLiveSocket' /\ rs' \in [Sockets -> ReadyState]
    BY <1>2 DEF LinkOK, LinkType, LinkInv, AtMostOneLiveSocket, ReadyState
  <1>4. CASE HasSubscriptions'
    <2>1. /\ live' = IF live.socket = socket THEN NoLive ELSE live
          /\ dropped' = TRUE
          /\ ScheduleReconnect(timer, intentional)
          /\ UNCHANGED intentional
      BY <1>4 DEF OnClose
    <2>2. intentional = FALSE
      BY <1>2 DEF LinkOK, LinkType, LinkInv, IntentionalMeansGone
    <2>3. timer' \in BOOLEAN /\ attempts' \in 0..BackoffCap /\ timer'
      BY <1>4, <2>1, <2>2, ScheduleOK DEF LinkOK, LinkType
    <2>4. LinkType'
      BY <1>2, <1>3, <2>1, <2>2, <2>3 DEF LinkOK, LinkType
    <2>5. LinkInv'
      BY <1>2, <1>3, <1>4, <2>2, <2>1, <2>3 DEF LinkInv, NoStrandedSubscriber,
         IdleIsQuiet, ConnectingHasSocket, IntentionalMeansGone
    <2>6. DropLaw /\ LossLaw
      BY <1>2, <2>1 DEF DropLaw, LossLaw, SocketLost
    <2> QED  BY <1>1, <2>4, <2>5, <2>6 DEF StepResult, LinkOK
  <1>5. CASE ~HasSubscriptions'
    <2>1. /\ live' = NoLive /\ dropped' = FALSE /\ timer' = FALSE
          /\ attempts' = 0 /\ intentional' = TRUE
      BY <1>5 DEF OnClose
    <2>2. attempts' \in 0..BackoffCap
      BY <2>1
    <2>3. LinkType'
      BY <1>2, <1>3, <2>1, <2>2 DEF LinkType
    <2>4. LinkInv'
      BY <1>2, <1>3, <1>5, <2>1 DEF LinkInv, NoStrandedSubscriber, IdleIsQuiet,
         ConnectingHasSocket, IntentionalMeansGone, NoLive
    <2> QED  BY <1>1, <1>5, <2>3, <2>4 DEF StepResult, LinkOK, DropLaw, LossLaw, SocketLost
  <1> QED  BY <1>4, <1>5

LEMMA NextStep ==
  ASSUME RegistryType, LinkOK, Next
  PROVE  StepResult /\ History
  <1>1. History
    BY DEF Next, SubscribeSession, CloseSession, SubscribeFeed, CloseFeed,
       ReconnectFires, OnOpen, Welcome, WelcomeTimeout, SendPing, InboundFrame,
       Silence, WatchdogTick, Terminal, FeedDeliveryFails, ServerCloses, OnClose,
       StaleSocketCloses
  <1>2. StepResult
    BY CallsOK, FeedCallsOK, ReconnectOK, OnOpenOK, WelcomeOK, TimeoutsOK,
       HeartbeatOK, TerminalOK, ClosingOK, OnCloseOK DEF Next
  <1> QED  BY <1>1, <1>2

-----------------------------------------------------------------------------
(* The history variables.                                                   *)

LEMMA HistoryType ==
  ASSUME History
  PROVE  missed' \subseteq Channels /\ troubled' \in BOOLEAN
  <1>1. missed' \subseteq Active'
    BY DEF History
  <1> QED  BY <1>1, ActiveChannels DEF History

LEMMA GapStep ==
  ASSUME GapOwed, History, Closes \/ DropLaw
  PROVE  GapOwed'
  <1> SUFFICES ASSUME ~ClosingVisible, missed' # {}
               PROVE  dropped' /\ ~Ready'
    BY DEF GapOwed
  <1>1. HasSubscriptions'
    <2>1. missed' \subseteq Active'
      BY DEF History
    <2> QED  BY <2>1 DEF HasSubscriptions
  <1>2. ~BecomesReady
    BY DEF History, GapOwed
  <1>3. missed # {} \/ (Ready /\ ~Ready')
    BY <1>2 DEF History
  <1>4. DropLaw
    BY DEF Closes, ServerCloses
  <1>5. CASE missed # {}
    BY <1>1, <1>2, <1>4, <1>5 DEF GapOwed, DropLaw, BecomesReady
  <1>6. CASE Ready /\ ~Ready'
    BY <1>1, <1>4, <1>6 DEF DropLaw
  <1> QED  BY <1>3, <1>5, <1>6

LEMMA SocketInvInit == Init => SocketInv
  <1> SUFFICES ASSUME Init PROVE SocketInv
    OBVIOUS
  <1> USE DEF Init
  <1>1. TypeOK
    <2>1. rs \in [Sockets -> ReadyState] /\ subs \in [Sessions -> SUBSET Subscribers]
      BY DEF ReadyState
    <2>2. attempts \in 0..BackoffCap
      OBVIOUS
    <2> QED  BY <2>1, <2>2 DEF TypeOK, FeedStates
  <1>2. Active = {}
    BY DEF Active
  <1>3. LinkInv
    BY <1>2 DEF LinkInv, NoStrandedSubscriber, IdleIsQuiet, AtMostOneLiveSocket,
       ConnectingHasSocket, IntentionalMeansGone, HasSubscriptions
  <1> QED  BY <1>1, <1>3 DEF SocketInv, GapOwed

LEMMA TypeParts == TypeOK <=> /\ RegistryType /\ LinkType
                              /\ missed \subseteq Channels
                              /\ troubled \in BOOLEAN
  BY DEF TypeOK, RegistryType, LinkType

LEMMA SocketInvStep == SocketInv /\ [Next]_vars => SocketInv'
  <1> SUFFICES ASSUME SocketInv, [Next]_vars
               PROVE  SocketInv'
    OBVIOUS
  <1>1. CASE Next
    <2>1. StepResult /\ History
      BY <1>1, NextStep, TypeParts DEF SocketInv, LinkOK
    <2>2. TypeOK'
      BY <2>1, HistoryType DEF StepResult, LinkOK, TypeOK, RegistryType, LinkType
    <2>3. GapOwed'
      BY <2>1, GapStep DEF SocketInv, StepResult
    <2> QED  BY <2>1, <2>2, <2>3 DEF SocketInv, StepResult, LinkOK
  <1>2. CASE UNCHANGED vars
    BY <1>2 DEF vars, registry, link, history, SocketInv, TypeOK, LinkInv, GapOwed,
       NoStrandedSubscriber, IdleIsQuiet, AtMostOneLiveSocket, ConnectingHasSocket,
       IntentionalMeansGone, HasSubscriptions, Active, Ready
  <1> QED  BY <1>1, <1>2

\* The connection machine keeps its types for every registry and socket pool.
THEOREM TypeCorrect == Spec => []TypeOK
  <1>1. SocketInv => TypeOK
    BY DEF SocketInv
  <1> QED  BY <1>1, SocketInvInit, SocketInvStep, PTL DEF Spec

\* No call, timer, drop or callback order strands a subscriber, leaves anything
\* running on an idle page, or keeps a second connection alive.
THEOREM ConnectionSafety ==
    Spec => []ConnectionLaw
  <1>1. SocketInv => ConnectionLaw
    BY DEF SocketInv, LinkInv, ConnectionLaw
  <1> QED  BY <1>1, SocketInvInit, SocketInvStep, PTL DEF Spec

\* As long as the page cannot act while the socket is CLOSING, every interrupted
\* channel is announced before it is live again.
THEOREM GapsAreAnnounced ==
  ASSUME ~ClosingVisible
  PROVE  Spec => []GapAnnounced
  <1>1. SocketInv => GapAnnounced
    BY DEF SocketInv, GapOwed, GapAnnounced
  <1> QED  BY <1>1, SocketInvInit, SocketInvStep, PTL DEF Spec

\* A recorded drop always belongs to a socket lost since the page was idle.
DropIsFresh == dropped => troubled

LEMMA FreshStep == SocketInv /\ DropIsFresh /\ [Next]_vars => DropIsFresh'
  <1> SUFFICES ASSUME SocketInv, DropIsFresh, [Next]_vars, dropped'
               PROVE  troubled'
    BY DEF DropIsFresh
  <1>1. CASE Next
    <2>1. StepResult /\ History
      BY <1>1, NextStep, TypeParts DEF SocketInv, LinkOK
    <2>2. HasSubscriptions'
      BY <2>1 DEF StepResult, LinkOK, LinkInv, IdleIsQuiet
    <2>3. ~dropped => SocketLost
      BY <2>1, <2>2, <1>1 DEF StepResult, LossLaw
    <2> QED  BY <2>1, <2>2, <2>3 DEF History, DropIsFresh
  <1>2. CASE UNCHANGED vars
    BY <1>2 DEF vars, link, history, DropIsFresh
  <1> QED  BY <1>1, <1>2

\* Listeners are told of a reconnect only if a socket was lost since the page
\* was last idle, for every interleaving.
THEOREM ReconnectsAreReal == Spec => AnnouncedOnlyAfterLoss
  <1>1. Init => SocketInv /\ DropIsFresh
    BY SocketInvInit DEF Init, DropIsFresh
  <1>2. SocketInv /\ DropIsFresh /\ [Next]_vars => (SocketInv /\ DropIsFresh)'
    BY SocketInvStep, FreshStep
  <1>3. DropIsFresh /\ [Next]_vars => [Announces => troubled]_vars
    BY DEF DropIsFresh, Announces
  <1> QED  BY <1>1, <1>2, <1>3, PTL DEF Spec, AnnouncedOnlyAfterLoss
-----------------------------------------------------------------------------
(* V2Socket implements LiveLink.                                            *)

\* Only Welcome makes an epoch ready, and it forgets the drop it announced.
ReadyLaw == Ready' => /\ socket' = socket
                      /\ dropped' => Ready /\ dropped

LEMMA GoneNotReady == socket' = NoSocket => ReadyLaw
  BY DEF ReadyLaw, Ready

LEMMA SameLinkReadyLaw ==
  UNCHANGED <<socket, rs, dropped, live>> => ReadyLaw
  BY DEF ReadyLaw, Ready

LEMMA FailReadyLaw == FailSocketEpoch \/ GoIdle => ReadyLaw
  BY GoneNotReady DEF FailSocketEpoch, GoIdle, TeardownSocket

LEMMA ConnectReadyLaw ==
  ASSUME LinkType, NEW pending, Connect(pending)
  PROVE  ReadyLaw
  <1>1. CASE UNCHANGED <<socket, rs, dropped, live>>
    BY <1>1, SameLinkReadyLaw
  <1>2. CASE \E s \in Sockets : socket' = s /\ rs' = [rs EXCEPT ![s] = "connecting"]
    BY <1>2 DEF LinkType, ReadyLaw, Ready
  <1> QED  BY <1>1, <1>2 DEF Connect

LEMMA DetachReadyLaw ==
  ASSUME NEW c, Detach(c)
  PROVE  ReadyLaw
  BY SameLinkReadyLaw, FailReadyLaw DEF Detach, CloseIfIdle

LEMMA AttachReadyLaw ==
  ASSUME LinkType, NEW c, NEW first, Attach(c, first)
  PROVE  ReadyLaw
  <1>1. \/ Connect(timer)
        \/ UNCHANGED <<socket, rs, dropped, live>>
        \/ FailSocketEpoch
    BY DEF Attach, link
  <1> QED  BY <1>1, ConnectReadyLaw, SameLinkReadyLaw, FailReadyLaw

LEMMA ReadyStep ==
  ASSUME LinkType, Next
  PROVE  ReadyLaw
  <1>1. CASE \E c \in Sessions, p \in Subscribers :
               SubscribeSession(c, p) \/ CloseSession(c, p)
    BY <1>1, AttachReadyLaw, DetachReadyLaw, SameLinkReadyLaw
       DEF SubscribeSession, CloseSession, link
  <1>2. CASE SubscribeFeed \/ CloseFeed \/ FeedDeliveryFails
             \/ \E c \in AgentSessions : Terminal(c)
    BY <1>2, AttachReadyLaw, DetachReadyLaw
       DEF SubscribeFeed, CloseFeed, FeedDeliveryFails, Terminal
  <1>3. CASE ReconnectFires
    BY <1>3, ConnectReadyLaw DEF ReconnectFires
  <1>4. CASE OnOpen
    <2>1. CASE FailSocketEpoch
      BY <2>1, FailReadyLaw
    <2>2. CASE live' = [socket |-> socket, phase |-> "awaiting-welcome",
                        hb |-> "none", silent |-> FALSE]
      BY <2>2 DEF ReadyLaw, Ready
    <2> QED  BY <1>4, <2>1, <2>2 DEF OnOpen
  <1>5. CASE Welcome
    <2>1. CASE FailSocketEpoch \/ GoIdle
      BY <2>1, FailReadyLaw
    <2>2. CASE dropped' = FALSE /\ UNCHANGED socket
      BY <2>2 DEF ReadyLaw
    <2> QED  BY <1>5, <2>1, <2>2 DEF Welcome
  <1>6. CASE WelcomeTimeout \/ WatchdogTick
    BY <1>6, FailReadyLaw DEF WelcomeTimeout, WatchdogTick
  <1>7. CASE SendPing \/ Silence \/ \E isPong \in BOOLEAN : InboundFrame(isPong)
    BY <1>7 DEF SendPing, Silence, InboundFrame, ReadyLaw
  <1>8. CASE \E s \in Sockets : ServerCloses(s) \/ StaleSocketCloses(s)
    <2>1. PICK s \in Sockets : ServerCloses(s) \/ StaleSocketCloses(s)
      BY <1>8
    <2>2. /\ UNCHANGED <<socket, dropped, live>>
          /\ rs' = [rs EXCEPT ![s] = rs'[s]] /\ rs'[s] # "open"
      BY <2>1 DEF ServerCloses, StaleSocketCloses, LinkType
    <2> QED  BY <2>2 DEF LinkType, ReadyLaw, Ready
  <1>9. CASE OnClose
    BY <1>9, GoneNotReady DEF OnClose
  <1> QED  BY <1>1, <1>2, <1>3, <1>4, <1>5, <1>6, <1>7, <1>8, <1>9 DEF Next

\* A ready epoch has no drop left to announce.
ReadyIsClean == Ready => ~dropped

LEMMA CleanStep == SocketInv /\ ReadyIsClean /\ [Next]_vars => ReadyIsClean'
  <1> SUFFICES ASSUME SocketInv, ReadyIsClean, [Next]_vars
               PROVE  ReadyIsClean'
    OBVIOUS
  <1>1. CASE Next
    BY <1>1, ReadyStep, TypeParts DEF SocketInv, ReadyLaw, ReadyIsClean
  <1>2. CASE UNCHANGED vars
    BY <1>2 DEF vars, link, ReadyIsClean, Ready
  <1> QED  BY <1>1, <1>2

\* Whether idle or not, what a LiveLink of the same name would do.
LEMMA LiveLinkStep ==
  ASSUME Next => DropLaw, SocketInv, ReadyIsClean, [Next]_vars
  PROVE  [Link!Next]_(Link!link)
  <1>1. CASE Next
    <2>1. LinkInv /\ LinkInv' /\ DropLaw /\ LossLaw
      BY <1>1, NextStep, TypeParts DEF SocketInv, StepResult, LinkOK
    <2>2. ReadyLaw /\ dropped \in BOOLEAN /\ dropped' \in BOOLEAN
      BY <1>1, ReadyStep, NextStep, TypeParts
         DEF SocketInv, StepResult, LinkOK, LinkType
    <2>3. /\ ~HasSubscriptions => ~Ready /\ ~dropped
          /\ ~HasSubscriptions' => ~Ready' /\ ~dropped'
      BY <2>1 DEF LinkInv, IdleIsQuiet, Ready
    <2>4. CASE ~HasSubscriptions /\ HasSubscriptions'
      <3>1. socket = NoSocket
        BY <2>1, <2>4 DEF LinkInv, IdleIsQuiet
      <3>2. ~Ready' /\ ~dropped'
        BY <2>1, <2>2, <2>3, <2>4, <3>1 DEF ReadyLaw, LossLaw, SocketLost, Ready
      <3> QED  BY <2>2, <2>3, <2>4, <3>2 DEF Link!Next, Link!Want
    <2>5. CASE HasSubscriptions /\ ~HasSubscriptions'
      BY <2>2, <2>3, <2>5 DEF Link!Next, Link!Quit
    <2>6. CASE HasSubscriptions /\ HasSubscriptions'
      <3>1. Ready' => ~dropped'
        BY <1>1, CleanStep DEF ReadyIsClean
      <3>2. CASE Ready /\ Ready'
        <4>1. UNCHANGED HasSubscriptions /\ UNCHANGED Ready
          BY <2>6, <3>2 DEF HasSubscriptions, Ready
        <4> QED  BY <2>2, <3>1, <3>2, <4>1 DEF ReadyIsClean, Link!link
      <3>3. CASE Ready /\ ~Ready'
        BY <2>1, <2>2, <2>6, <3>3 DEF DropLaw, Link!Next, Link!GoDown
      <3>4. CASE ~Ready /\ Ready'
        BY <2>2, <2>6, <3>1, <3>4 DEF Link!Next, Link!ComeUp
      <3>5. CASE ~Ready /\ ~Ready'
        <4>1. UNCHANGED HasSubscriptions /\ UNCHANGED Ready
          BY <2>6, <3>5 DEF HasSubscriptions, Ready
        <4>2. CASE dropped' = dropped
          BY <4>1, <4>2 DEF Link!link
        <4>3. CASE ~dropped /\ dropped' = TRUE
          BY <2>6, <3>5, <4>1, <4>3 DEF Link!Next, Link!Fail
        <4>4. dropped' = dropped \/ (~dropped /\ dropped' = TRUE)
          BY <2>1, <2>2, <2>6, <3>5 DEF DropLaw, BecomesReady
        <4> QED  BY <4>2, <4>3, <4>4
      <3> QED  BY <3>2, <3>3, <3>4, <3>5
    <2>7. CASE ~HasSubscriptions /\ ~HasSubscriptions'
      <3>1. UNCHANGED HasSubscriptions /\ UNCHANGED Ready
        BY <2>3, <2>7 DEF HasSubscriptions, Ready
      <3>2. UNCHANGED dropped
        BY <2>2, <2>3, <2>7
      <3> QED  BY <3>1, <3>2 DEF Link!link
    <2> QED  BY <2>4, <2>5, <2>6, <2>7
  <1>2. CASE UNCHANGED vars
    BY <1>2 DEF vars, registry, link, Link!link, HasSubscriptions, Active, Ready
  <1> QED  BY <1>1, <1>2

\* As long as no call meets a CLOSING socket, the connection machine is a
\* LiveLink: it comes up only with every interruption announced, and announces
\* none that did not happen.
THEOREM LiveLinkImplemented ==
  ASSUME ~ClosingVisible
  PROVE  Spec => ImplementsLiveLink
  <1>1. Init => SocketInv /\ ReadyIsClean
    BY SocketInvInit DEF Init, ReadyIsClean
  <1>2. SocketInv /\ ReadyIsClean /\ [Next]_vars => (SocketInv /\ ReadyIsClean)'
    BY SocketInvStep, CleanStep
  <1>3. Init => Link!Init
    BY DEF Init, Link!Init, HasSubscriptions, Active, Ready
  <1>4. SocketInv /\ ReadyIsClean /\ [Next]_vars => [Link!Next]_(Link!link)
    <2>1. SocketInv /\ Next => DropLaw
      BY NextStep, TypeParts DEF SocketInv, StepResult, LinkOK, Closes, ServerCloses
    <2> QED  BY <2>1, LiveLinkStep
  <1> QED  BY <1>1, <1>2, <1>3, <1>4, PTL DEF Spec, ImplementsLiveLink, Link!Spec
-----------------------------------------------------------------------------
(* The same two promises when the page may act while a socket is CLOSING.   *)

\* As GapOwed, for a page that has not met the window.
WindowGap == window \/ (missed # {} => dropped /\ ~Ready)

WindowInv == SocketInv /\ ReadyIsClean /\ WindowGap

LEMMA WindowOpens ==
  ASSUME SocketInv, WindowNext, HasSubscriptions', ~window'
  PROVE  DropLaw /\ ~window
  <1>1. ~window /\ ~Closes
    BY DEF WindowNext
  <1>2. StepResult
    BY NextStep, TypeParts DEF WindowNext, SocketInv, LinkOK
  <1> QED  BY <1>1, <1>2 DEF StepResult

LEMMA WindowGapStep ==
  ASSUME SocketInv, WindowGap, WindowNext
  PROVE  WindowGap'
  <1> SUFFICES ASSUME ~window', missed' # {}
               PROVE  dropped' /\ ~Ready'
    BY DEF WindowGap
  <1>1. History
    BY NextStep, TypeParts DEF WindowNext, SocketInv, LinkOK
  <1>2. HasSubscriptions'
    <2>1. missed' \subseteq Active'
      BY <1>1 DEF History
    <2> QED  BY <2>1 DEF HasSubscriptions
  <1>3. DropLaw /\ ~window
    BY <1>2, WindowOpens
  <1>4. ~BecomesReady
    BY <1>1, <1>3 DEF History, WindowGap
  <1>5. missed # {} \/ (Ready /\ ~Ready')
    BY <1>1, <1>4 DEF History
  <1>6. CASE missed # {}
    BY <1>2, <1>3, <1>4, <1>6 DEF WindowGap, DropLaw, BecomesReady
  <1>7. CASE Ready /\ ~Ready'
    BY <1>2, <1>3, <1>7 DEF DropLaw
  <1> QED  BY <1>5, <1>6, <1>7

LEMMA WindowInvStep == WindowInv /\ [WindowNext]_windowVars => WindowInv'
  <1> SUFFICES ASSUME WindowInv, [WindowNext]_windowVars
               PROVE  WindowInv'
    OBVIOUS
  <1>1. [Next]_vars
    BY DEF WindowNext, windowVars
  <1>2. SocketInv' /\ ReadyIsClean'
    BY <1>1, SocketInvStep, CleanStep DEF WindowInv
  <1>3. CASE WindowNext
    BY <1>2, <1>3, WindowGapStep DEF WindowInv
  <1>4. CASE UNCHANGED windowVars
    BY <1>2, <1>4 DEF windowVars, vars, link, history, WindowInv, WindowGap, Ready
  <1> QED  BY <1>3, <1>4

LEMMA WindowInvInit == WindowInit => WindowInv
  BY SocketInvInit DEF WindowInit, Init, WindowInv, WindowGap, ReadyIsClean

\* Apart from the window in which a CLOSING socket may be replaced, every
\* interrupted channel is announced before it is live again.
THEOREM GapsElseAnnounced == WindowSpec => []GapAnnouncedElse
  <1>1. WindowInv => GapAnnouncedElse
    BY DEF WindowInv, WindowGap, GapAnnouncedElse, GapAnnounced
  <1> QED  BY <1>1, WindowInvInit, WindowInvStep, PTL DEF WindowSpec

\* Until the page meets that window, the connection machine is a LiveLink.
THEOREM LiveLinkElseImplemented == WindowSpec => LiveLinkElse
  <1>1. WindowInit => Link!Init
    BY DEF WindowInit, Init, Link!Init, HasSubscriptions, Active, Ready
  <1>2. WindowInv /\ [WindowNext]_windowVars => [window' \/ Link!Next]_(Link!link)
    <2> SUFFICES ASSUME WindowInv, [WindowNext]_windowVars, ~window'
                 PROVE  [Link!Next]_(Link!link)
      OBVIOUS
    <2>1. [Next]_vars /\ SocketInv /\ ReadyIsClean
      BY DEF WindowNext, windowVars, WindowInv
    <2>2. CASE WindowNext /\ HasSubscriptions'
      BY <2>1, <2>2, WindowOpens, LiveLinkStep
    <2>3. CASE WindowNext /\ ~HasSubscriptions'
      BY <2>1, <2>3, LiveLinkStep DEF DropLaw
    <2>4. CASE UNCHANGED windowVars
      BY <2>4 DEF windowVars, vars, registry, link, Link!link, HasSubscriptions,
         Active, Ready
    <2> QED  BY <2>2, <2>3, <2>4
  <1> QED  BY <1>1, <1>2, WindowInvInit, WindowInvStep, PTL
           DEF WindowSpec, LiveLinkElse
-----------------------------------------------------------------------------
(* What the server serves.                                                  *)

\* The wire of a link that a step leaves ready matches, if it matched and the
\* step moved the registry and the wire together.
LEMMA WireMoves ==
  ASSUME WireMatchesRegistry, Ready' => Ready,
         Active' \ wire' \subseteq Active \ wire,
         SendMayFail \/ wire' \ Active' \subseteq wire \ Active
  PROVE  WireMatchesRegistry'
  BY DEF WireMatchesRegistry

LEMMA GivenUpWire == FailSocketEpoch \/ GoIdle => ~Ready'
  BY DEF FailSocketEpoch, GoIdle, TeardownSocket, Ready

LEMMA ConnectWire ==
  ASSUME LinkType, NEW pending, Connect(pending)
  PROVE  Ready' => Ready /\ wire' = wire
  <1>1. CASE UNCHANGED <<socket, rs, live, wire>>
    BY <1>1 DEF Ready
  <1>2. CASE \E s \in Sockets : socket' = s /\ rs' = [rs EXCEPT ![s] = "connecting"]
    BY <1>2 DEF LinkType, Ready
  <1> QED  BY <1>1, <1>2 DEF Connect

LEMMA AttachWire ==
  ASSUME LinkType, WireMatchesRegistry, NEW c, NEW first \in BOOLEAN, Attach(c, first),
         Active' = Active \cup {c}, ~first => c \in Active
  PROVE  WireMatchesRegistry'
  <1>1. CASE Connect(timer) /\ ~Ready
    BY <1>1, ConnectWire DEF WireMatchesRegistry
  <1>2. CASE FailSocketEpoch
    BY <1>2, GivenUpWire DEF WireMatchesRegistry
  <1>3. CASE Ready /\ ~first /\ UNCHANGED link
    <2>1. Active' = Active /\ wire' = wire
      BY <1>3 DEF link
    <2> QED  BY <1>3, <2>1, WireMoves
  <1>4. CASE Ready /\ wire' = wire \cup {c}
    BY <1>4, WireMoves
  <1> QED  BY <1>1, <1>2, <1>3, <1>4 DEF Attach

\* A channel leaves the registry and, if its frame went out, the wire.
LEMMA DetachWire ==
  ASSUME WireMatchesRegistry, NEW c, Detach(c), Active' = Active \ {c}
  PROVE  WireMatchesRegistry'
  <1>1. PICK sent \in SendOutcomes : CloseIfIdle(IF Ready /\ sent THEN {c} ELSE {})
    BY DEF Detach
  <1>2. CASE GoIdle
    BY <1>2, GivenUpWire DEF WireMatchesRegistry
  <1>3. CASE /\ wire' = wire \ (IF Ready /\ sent THEN {c} ELSE {})
             /\ UNCHANGED <<socket, rs, live>>
    <2>1. Ready' <=> Ready
      BY <1>3 DEF Ready
    <2>2. sent \/ SendMayFail
      BY DEF SendOutcomes
    <2>3. CASE ~Ready
      BY <2>1, <2>3 DEF WireMatchesRegistry
    <2>4. CASE Ready
      <3>1. Active' \ wire' \subseteq Active \ wire
        BY <1>3
      <3>2. SendMayFail \/ wire' \ Active' \subseteq wire \ Active
        BY <1>3, <2>2, <2>4
      <3> QED  BY <2>1, <2>4, <3>1, <3>2, WireMoves
    <2> QED  BY <2>3, <2>4
  <1> QED  BY <1>1, <1>2, <1>3 DEF CloseIfIdle

LEMMA WireStep ==
  ASSUME SocketInv, WireMatchesRegistry, Next
  PROVE  WireMatchesRegistry'
  <1>1. RegistryType /\ LinkType
    BY TypeParts DEF SocketInv
  <1>2. ASSUME NEW c \in Sessions, NEW p \in Subscribers,
               SubscribeSession(c, p) \/ CloseSession(c, p)
        PROVE  WireMatchesRegistry'
    <2>1. CASE SubscribeSession(c, p)
      <3> DEFINE first == subs[c] = {}
      <3>1. Attach(c, first) /\ first \in BOOLEAN
        BY <2>1 DEF SubscribeSession
      <3>2. Active' = Active \cup {c}
        BY <1>1, <2>1 DEF SubscribeSession, RegistryType, Active
      <3>3. ~first => c \in Active
        BY DEF Active
      <3> HIDE DEF first
      <3> QED  BY <1>1, <3>1, <3>2, <3>3, AttachWire
    <2>2. CASE CloseSession(c, p)
      <3>1. CASE subs'[c] = {} /\ Detach(c)
        <4>1. Active' = Active \ {c}
          BY <1>1, <2>2, <3>1 DEF CloseSession, RegistryType, Active
        <4> QED  BY <3>1, <4>1, DetachWire
      <3>2. CASE subs'[c] # {} /\ UNCHANGED link
        <4>1. Active' = Active
          BY <1>1, <2>2, <3>2 DEF CloseSession, RegistryType, Active
        <4>2. UNCHANGED wire /\ (Ready' <=> Ready)
          BY <3>2 DEF link, Ready
        <4> QED  BY <4>1, <4>2, WireMoves
      <3> QED  BY <2>2, <3>1, <3>2 DEF CloseSession
    <2> QED  BY <1>2, <2>1, <2>2
  <1>3. CASE SubscribeFeed
    <2>1. Active' = Active \cup {Feed} /\ Attach(Feed, TRUE)
      BY <1>3 DEF SubscribeFeed, Active
    <2> QED  BY <1>1, <2>1, AttachWire
  <1>4. CASE CloseFeed \/ FeedDeliveryFails
    <2>1. Active' = Active \ {Feed} /\ Detach(Feed)
      BY <1>4 DEF CloseFeed, FeedDeliveryFails, Active
    <2> QED  BY <2>1, DetachWire
  <1>5. ASSUME NEW c \in AgentSessions, Terminal(c)
        PROVE  WireMatchesRegistry'
    <2>1. Active' = Active \ {c} /\ Detach(c)
      BY <1>1, <1>5 DEF Terminal, RegistryType, Active
    <2> QED  BY <2>1, DetachWire
  <1>6. CASE ReconnectFires
    <2>1. Connect(FALSE) /\ Active' = Active
      BY <1>6 DEF ReconnectFires, registry, Active
    <2> QED  BY <1>1, <2>1, ConnectWire DEF WireMatchesRegistry
  <1>7. CASE OnOpen
    <2>1. CASE FailSocketEpoch
      BY <2>1, GivenUpWire DEF WireMatchesRegistry
    <2>2. CASE live' = [socket |-> socket, phase |-> "awaiting-welcome",
                        hb |-> "none", silent |-> FALSE]
      BY <2>2 DEF WireMatchesRegistry, Ready
    <2> QED  BY <1>7, <2>1, <2>2 DEF OnOpen
  <1>8. CASE Welcome
    <2>1. CASE FailSocketEpoch \/ GoIdle
      BY <2>1, GivenUpWire DEF WireMatchesRegistry
    <2>2. ASSUME NEW told \in SendOutcomes, wire' = IF told THEN Active' ELSE Active
          PROVE  WireMatchesRegistry'
      <3>1. Active' \subseteq Active
        BY <1>8 DEF Welcome, FeedReacts, Active
      <3>2. told \/ SendMayFail
        BY DEF SendOutcomes
      <3> QED  BY <2>2, <3>1, <3>2 DEF WireMatchesRegistry
    <2> QED  BY <1>8, <2>1, <2>2 DEF Welcome
  <1>9. CASE WelcomeTimeout \/ WatchdogTick
    BY <1>9, GivenUpWire DEF WelcomeTimeout, WatchdogTick, WireMatchesRegistry
  <1>10. CASE SendPing \/ Silence \/ \E isPong \in BOOLEAN : InboundFrame(isPong)
    <2>1. Ready /\ wire' = wire /\ Active' = Active
      BY <1>10 DEF SendPing, Silence, InboundFrame, registry, Active
    <2> QED  BY <2>1 DEF WireMatchesRegistry
  <1>11. ASSUME NEW s \in Sockets, ServerCloses(s) \/ StaleSocketCloses(s)
         PROVE  WireMatchesRegistry'
    <2>1. wire' = wire /\ Active' = Active
      BY <1>11 DEF ServerCloses, StaleSocketCloses, registry, Active
    <2>2. Ready' => Ready
      BY <1>1, <1>11 DEF ServerCloses, StaleSocketCloses, LinkType, Ready
    <2> QED  BY <2>1, <2>2 DEF WireMatchesRegistry
  <1>12. CASE OnClose
    BY <1>12 DEF OnClose, WireMatchesRegistry, Ready
  <1> QED  BY <1>2, <1>3, <1>4, <1>5, <1>6, <1>7, <1>8, <1>9, <1>10, <1>11, <1>12 DEF Next

\* While the socket is ready the server serves every registered channel, and no
\* other unless a frame was lost, whoever subscribed, left, settled or failed in
\* between (subscribeAll, sendFrame, closeIfIdle).
THEOREM WireAlwaysMatches == Spec => []WireMatchesRegistry
  <1>1. Init => WireMatchesRegistry
    BY DEF Init, WireMatchesRegistry, Ready
  <1>2. SocketInv /\ WireMatchesRegistry /\ [Next]_vars => WireMatchesRegistry'
    <2>1. UNCHANGED vars /\ WireMatchesRegistry => WireMatchesRegistry'
      BY DEF vars, registry, link, WireMatchesRegistry, Ready, Active
    <2> QED  BY <2>1, WireStep
  <1> QED  BY <1>1, <1>2, SocketInvInit, SocketInvStep, PTL DEF Spec
=============================================================================
