------------------------------ MODULE V2Socket ------------------------------
(***************************************************************************)
(* The shared v2 WebSocket of services/chat/v2Stream.ts: one socket for    *)
(* every live channel of the page, opened on the first subscription, closed *)
(* after the last one, and replaced with bounded backoff when an epoch      *)
(* fails.  What travels on a channel is abstracted: see V2Feed and V2Actor. *)
(*                                                                          *)
(* Every handler of the module runs to completion in one turn of the        *)
(* JavaScript event loop, so each handler is one action.                    *)
(***************************************************************************)
EXTENDS Naturals

CONSTANTS
    Sessions,       \* keys of agentChannels, messageChannels, actor*Channels
    AgentSessions,  \* those of them that a `terminal` control may settle
    Feed,           \* the account feed channel
    Subscribers,    \* local subscribers (panes, hooks) of a session channel
    Sockets,        \* WebSocket objects alive in the browser at one time
    NoSocket,       \* `socket === null`
    BackoffCap,     \* attempt at which the delay reaches MAX_BACKOFF_MS
    SendMayFail,    \* whether ws.send may throw
    ClosingVisible  \* whether the page can act while readyState is CLOSING

ASSUME SocketAssumption ==
    /\ AgentSessions \subseteq Sessions
    /\ Feed \notin Sessions
    /\ NoSocket \notin Sockets
    /\ BackoffCap \in Nat
    /\ SendMayFail \in BOOLEAN
    /\ ClosingVisible \in BOOLEAN

VARIABLES
    subs,         \* local subscriber sets of the session registries
    feed,         \* feedChannel: absent, live, or deliveryFailed
    socket,       \* the current WebSocket object
    rs,           \* readyState of every WebSocket object
    connecting,   \* the `connecting` flag
    intentional,  \* intentionalClose
    timer,        \* a reconnectTimer is pending
    attempts,     \* reconnectAttempts, saturated at BackoffCap
    dropped,      \* droppedSinceOpen
    live,         \* socketLiveness
    wire,         \* channels the server serves on the current socket
    missed,       \* history: channels with an interval not yet announced
    troubled      \* history: any socket was lost since the page was idle

registry == <<subs, feed>>
link     == <<socket, rs, connecting, intentional, timer, attempts, dropped,
              live, wire>>
history  == <<missed, troubled>>
vars     == <<registry, link, history>>

Channels   == Sessions \cup {Feed}
FeedStates == {"none", "live", "failed"}
ReadyState == {"connecting", "open", "closing", "closed"}
NoLive     == [socket |-> NoSocket, phase |-> "none", hb |-> "none",
               silent |-> FALSE]
Liveness   == [socket : Sockets, phase : {"awaiting-welcome", "ready"},
               hb : {"none", "pinged", "acked"}, silent : BOOLEAN]

SendOutcomes == IF SendMayFail THEN BOOLEAN ELSE {TRUE}

\* The channels some live registry entry wants (hasSubscriptions iff non-empty).
Active == {c \in Sessions : subs[c] # {}}
            \cup (IF feed = "live" THEN {Feed} ELSE {})

HasSubscriptions == Active # {}

\* isSocketReady(socket)
Ready == /\ socket # NoSocket
         /\ rs[socket] = "open"
         /\ live.socket = socket
         /\ live.phase = "ready"

\* An epoch becomes ready, and the reconnected listeners and the actor and tree
\* gap callbacks run exactly when it follows a drop.
BecomesReady == ~Ready /\ Ready'
Announces    == BecomesReady /\ dropped

\* The current socket object is given up, with or without a replacement.
SocketLost == socket # NoSocket /\ socket' # socket

-----------------------------------------------------------------------------
(* The history variables are functions of the step, whatever the action.    *)

History ==
    /\ missed' = IF BecomesReady
                 THEN IF dropped THEN {} ELSE missed \cap Active'
                 ELSE (missed \cup (IF Ready /\ ~Ready' THEN Active ELSE {}))
                        \cap Active'
    /\ troubled' = (HasSubscriptions' /\ (troubled \/ SocketLost))

Init ==
    /\ subs = [c \in Sessions |-> {}]
    /\ feed = "none"
    /\ socket = NoSocket
    /\ rs = [s \in Sockets |-> "closed"]
    /\ connecting = FALSE
    /\ intentional = FALSE
    /\ timer = FALSE
    /\ attempts = 0
    /\ dropped = FALSE
    /\ live = NoLive
    /\ wire = {}
    /\ missed = {}
    /\ troubled = FALSE

-----------------------------------------------------------------------------
(* The private functions of the module.  Those that read hasSubscriptions() *)
(* read it after the caller changed the registry: HasSubscriptions'.        *)

\* teardownSocket with the clearSocketLiveness of its callers.
TeardownSocket ==
    /\ rs' = [s \in Sockets |-> IF s = socket THEN "closing" ELSE rs[s]]
    /\ socket' = NoSocket
    /\ live' = NoLive

\* Mutant: the delay keeps growing.
ScheduleReconnectUncapped(pending, stopped) ==
    IF HasSubscriptions' /\ ~stopped /\ ~pending
    THEN timer' = TRUE /\ attempts' = attempts + 1
    ELSE timer' = pending /\ UNCHANGED attempts

\* scheduleReconnect, where `pending` says whether a timer is already armed.
ScheduleReconnect(pending, stopped) ==
    IF HasSubscriptions' /\ ~stopped /\ ~pending
    THEN /\ timer' = TRUE
         /\ attempts' = IF attempts < BackoffCap THEN attempts + 1 ELSE attempts
    ELSE /\ timer' = pending
         /\ UNCHANGED attempts

\* Mutant: idle teardown forgets the drop marker.
GoIdleKeepsDrop ==
    /\ TeardownSocket
    /\ intentional' = TRUE
    /\ timer' = FALSE
    /\ connecting' = FALSE
    /\ attempts' = 0
    /\ wire' = {}
    /\ UNCHANGED dropped

\* The body of closeIfIdle once nothing is subscribed.
GoIdle ==
    /\ TeardownSocket
    /\ intentional' = TRUE
    /\ timer' = FALSE
    /\ connecting' = FALSE
    /\ attempts' = 0
    /\ dropped' = FALSE
    /\ wire' = {}

\* closeIfIdle after the frames in `unsubscribed` were handed to the socket.
CloseIfIdle(unsubscribed) ==
    IF HasSubscriptions'
    THEN /\ wire' = wire \ unsubscribed
         /\ UNCHANGED <<socket, rs, connecting, intentional, timer, attempts,
                        dropped, live>>
    ELSE GoIdle

\* Mutants: a failed epoch stays `connecting`, or does not record the drop.
FailEpochKeepsConnecting ==
    IF HasSubscriptions'
    THEN /\ TeardownSocket
         /\ dropped' = TRUE
         /\ ScheduleReconnect(timer, intentional)
         /\ wire' = {}
         /\ UNCHANGED <<intentional, connecting>>
    ELSE GoIdle

FailEpochSilently ==
    IF HasSubscriptions'
    THEN /\ TeardownSocket
         /\ connecting' = FALSE
         /\ ScheduleReconnect(timer, intentional)
         /\ wire' = {}
         /\ UNCHANGED <<intentional, dropped>>
    ELSE GoIdle

\* failSocketEpoch.  A feed owner that closes its subscription inside onError
\* and leaves nothing subscribed has already brought the module to idle.
FailSocketEpoch ==
    IF HasSubscriptions'
    THEN /\ TeardownSocket
         /\ dropped' = TRUE
         /\ connecting' = FALSE
         /\ ScheduleReconnect(timer, intentional)
         /\ wire' = {}
         /\ UNCHANGED intentional
    ELSE GoIdle

\* Mutant: a constructor that throws leaves `connecting` set.
ConnectThrowStaysConnecting(pending) ==
    IF \/ ~HasSubscriptions'
       \/ socket # NoSocket /\ rs[socket] \in {"open", "connecting"}
       \/ connecting
    THEN /\ timer' = pending
         /\ UNCHANGED <<socket, rs, connecting, intentional, attempts, dropped,
                        live, wire>>
    ELSE /\ intentional' = FALSE
         /\ connecting' = TRUE
         /\ UNCHANGED <<dropped, live>>
         /\ \/ \E s \in Sockets :
                 /\ rs[s] = "closed"
                 /\ socket' = s
                 /\ rs' = [rs EXCEPT ![s] = "connecting"]
                 /\ timer' = pending
                 /\ wire' = {}
                 /\ UNCHANGED attempts
            \/ /\ ScheduleReconnect(pending, FALSE)
               /\ UNCHANGED <<socket, rs, wire>>

\* connect: nothing to do, a new socket, or a constructor that throws.  The feed's
\* onError, called before the retry is scheduled, is taken to return, and the page
\* to have WebSocket: a handler that throws would leave no retry behind.
Connect(pending) ==
    IF \/ ~HasSubscriptions'
       \/ socket # NoSocket /\ rs[socket] \in {"open", "connecting"}
       \/ connecting
    THEN /\ timer' = pending
         /\ UNCHANGED <<socket, rs, connecting, intentional, attempts, dropped,
                        live, wire>>
    ELSE /\ intentional' = FALSE
         /\ UNCHANGED <<dropped, live>>
         /\ \/ \E s \in Sockets :
                 /\ rs[s] = "closed"
                 /\ socket' = s
                 /\ rs' = [rs EXCEPT ![s] = "connecting"]
                 /\ connecting' = TRUE
                 /\ timer' = pending
                 /\ wire' = {}
                 /\ UNCHANGED attempts
            \/ /\ connecting' = FALSE
               /\ ScheduleReconnect(pending, FALSE)
               /\ UNCHANGED <<socket, rs, wire>>

\* The tail of every subscribe*: on a ready socket the first local subscriber
\* of a channel sends one frame, otherwise the socket is (re)opened.
Attach(c, first) ==
    IF ~Ready THEN Connect(timer)
    ELSE IF ~first THEN UNCHANGED link
    ELSE \E sent \in SendOutcomes :
           IF sent
           THEN /\ wire' = wire \cup {c}
                /\ UNCHANGED <<socket, rs, connecting, intentional, timer,
                               attempts, dropped, live>>
           ELSE FailSocketEpoch

\* The tail of every close(): only a ready socket is told.
Detach(c) ==
    \E sent \in SendOutcomes :
        CloseIfIdle(IF Ready /\ sent THEN {c} ELSE {})

\* A feed callback (onOpen, onError) may close the feed it was given.
FeedReacts == \/ UNCHANGED feed
              \/ feed # "none" /\ feed' = "none"

-----------------------------------------------------------------------------
(* Calls of the application.                                                *)

\* subscribeAgent, subscribeMessages, subscribeActor, subscribeActorTree
SubscribeSession(c, p) ==
    /\ p \notin subs[c]
    /\ subs' = [subs EXCEPT ![c] = @ \cup {p}]
    /\ UNCHANGED feed
    /\ Attach(c, subs[c] = {})
    /\ History

\* Mutant: every local subscriber that leaves unsubscribes the wire channel.
CloseSessionEagerly(c, p) ==
    /\ p \in subs[c]
    /\ subs' = [subs EXCEPT ![c] = @ \ {p}]
    /\ UNCHANGED feed
    /\ Detach(c)
    /\ History

\* close() of one local subscriber: the last one leaves the wire channel.
CloseSession(c, p) ==
    /\ p \in subs[c]
    /\ subs' = [subs EXCEPT ![c] = @ \ {p}]
    /\ UNCHANGED feed
    /\ IF subs'[c] = {} THEN Detach(c) ELSE UNCHANGED link
    /\ History

\* subscribeFeed replaces whatever feed channel there was.
SubscribeFeed ==
    /\ feed' = "live"
    /\ UNCHANGED subs
    /\ Attach(Feed, TRUE)
    /\ History

CloseFeed ==
    /\ feed # "none"
    /\ feed' = "none"
    /\ UNCHANGED subs
    /\ Detach(Feed)
    /\ History

-----------------------------------------------------------------------------
(* Timers and browser callbacks.                                            *)

ReconnectFires ==
    /\ timer
    /\ UNCHANGED registry
    /\ Connect(FALSE)
    /\ History

\* onopen and the hello it sends.  The handlers of a socket that is no longer
\* current return at once, so only the current socket has actions.
OnOpen ==
    /\ socket # NoSocket
    /\ rs[socket] = "connecting"
    /\ UNCHANGED subs
    /\ \E sent \in SendOutcomes :
         IF sent
         THEN /\ rs' = [rs EXCEPT ![socket] = "open"]
              /\ connecting' = FALSE
              /\ live' = [socket |-> socket, phase |-> "awaiting-welcome",
                          hb |-> "none", silent |-> FALSE]
              /\ UNCHANGED <<feed, socket, intentional, timer, attempts,
                             dropped, wire>>
         ELSE /\ FeedReacts
              /\ FailSocketEpoch
    /\ History

\* Mutant: the drop is announced but not forgotten.
WelcomeKeepsDrop ==
    /\ socket # NoSocket
    /\ rs[socket] = "open"
    /\ live.socket = socket
    /\ live.phase = "awaiting-welcome"
    /\ live' = [live EXCEPT !.phase = "ready"]
    /\ attempts' = 0
    /\ wire' = Active
    /\ UNCHANGED <<registry, socket, rs, connecting, intentional, timer, dropped>>
    /\ History

\* acknowledgeWelcome: subscribeAll, the ready phase, then the feed's onOpen.
Welcome ==
    /\ socket # NoSocket
    /\ rs[socket] = "open"
    /\ live.socket = socket
    /\ live.phase = "awaiting-welcome"
    /\ UNCHANGED subs
    /\ FeedReacts
    /\ \E sent \in SendOutcomes, told \in SendOutcomes :
         IF ~sent THEN FailSocketEpoch
         ELSE /\ feed = "failed" => feed' = "failed"
              /\ IF HasSubscriptions'
                 THEN /\ live' = [live EXCEPT !.phase = "ready"]
                      /\ attempts' = 0
                      /\ dropped' = FALSE
                      /\ wire' = IF told THEN Active' ELSE Active
                      /\ UNCHANGED <<socket, rs, connecting, intentional, timer>>
                 ELSE GoIdle
    /\ History

WelcomeTimeout ==
    /\ socket # NoSocket
    /\ live.socket = socket
    /\ live.phase = "awaiting-welcome"
    /\ UNCHANGED subs
    /\ FeedReacts
    /\ FailSocketEpoch
    /\ History

\* The heartbeat interval hands a ping to the ready socket.
SendPing ==
    /\ Ready
    /\ live.hb = "none"
    /\ live' = [live EXCEPT !.hb = "pinged"]
    /\ UNCHANGED <<registry, socket, rs, connecting, intentional, timer,
                   attempts, dropped, wire>>
    /\ History

\* Any inbound frame refreshes lastFrameAt; a pong after a ping proves the
\* heartbeat contract for this epoch.
InboundFrame(isPong) ==
    /\ Ready
    /\ live' = [live EXCEPT !.silent = FALSE,
                            !.hb = IF isPong /\ @ = "pinged" THEN "acked" ELSE @]
    /\ UNCHANGED <<registry, socket, rs, connecting, intentional, timer,
                   attempts, dropped, wire>>
    /\ History

\* HEARTBEAT_STALE_MS pass without an inbound frame.
Silence ==
    /\ Ready
    /\ live' = [live EXCEPT !.silent = TRUE]
    /\ UNCHANGED <<registry, socket, rs, connecting, intentional, timer,
                   attempts, dropped, wire>>
    /\ History

\* watchdogTick, from its interval or from the page becoming visible.
WatchdogTick ==
    /\ Ready
    /\ live.hb = "acked"
    /\ live.silent
    /\ UNCHANGED subs
    /\ FeedReacts
    /\ FailSocketEpoch
    /\ History

\* A `terminal` control settles every local subscriber of an agent channel.
Terminal(c) ==
    /\ Ready
    /\ subs[c] # {}
    /\ subs' = [subs EXCEPT ![c] = {}]
    /\ UNCHANGED feed
    /\ Detach(c)
    /\ History

\* failFeedDelivery: the feed alone is isolated, its owner may react.
FeedDeliveryFails ==
    /\ Ready
    /\ feed = "live"
    /\ feed' \in {"failed", "none"}
    /\ UNCHANGED subs
    /\ Detach(Feed)
    /\ History

\* The closing handshake starts: readyState is CLOSING until onclose is queued.
ServerCloses(s) ==
    /\ ClosingVisible
    /\ rs[s] = "open"
    /\ rs' = [rs EXCEPT ![s] = "closing"]
    /\ UNCHANGED <<registry, socket, connecting, intentional, timer, attempts,
                   dropped, live, wire>>
    /\ History

\* onclose of the current socket, whatever state it was in.
OnClose ==
    /\ socket # NoSocket
    /\ socket' = NoSocket
    /\ rs' = [rs EXCEPT ![socket] = "closed"]
    /\ connecting' = FALSE
    /\ wire' = {}
    /\ UNCHANGED subs
    /\ FeedReacts
    /\ IF HasSubscriptions'
       THEN /\ live' = IF live.socket = socket THEN NoLive ELSE live
            /\ dropped' = TRUE
            /\ ScheduleReconnect(timer, intentional)
            /\ UNCHANGED intentional
       ELSE /\ live' = NoLive
            /\ dropped' = FALSE
            /\ timer' = FALSE
            /\ attempts' = 0
            /\ intentional' = TRUE
    /\ History

\* The browser finishes closing a socket the module already gave up.
StaleSocketCloses(s) ==
    /\ s # socket
    /\ rs[s] = "closing"
    /\ rs' = [rs EXCEPT ![s] = "closed"]
    /\ UNCHANGED <<registry, socket, connecting, intentional, timer, attempts,
                   dropped, live, wire>>
    /\ History

-----------------------------------------------------------------------------
Next ==
    \/ \E c \in Sessions, p \in Subscribers :
         SubscribeSession(c, p) \/ CloseSession(c, p)
    \/ SubscribeFeed
    \/ CloseFeed
    \/ ReconnectFires
    \/ OnOpen
    \/ Welcome
    \/ WelcomeTimeout
    \/ SendPing
    \/ \E isPong \in BOOLEAN : InboundFrame(isPong)
    \/ Silence
    \/ WatchdogTick
    \/ \E c \in AgentSessions : Terminal(c)
    \/ FeedDeliveryFails
    \/ \E s \in Sockets : ServerCloses(s)
    \/ OnClose
    \/ \E s \in Sockets : StaleSocketCloses(s)

Spec == Init /\ [][Next]_vars

\* Browser timers fire and a closing socket reports its close.  The network is
\* only assumed not to fail forever: a handshake and a welcome that stay
\* possible again and again succeed in the end, and so does the constructor.
Fairness ==
    /\ WF_vars(ReconnectFires)
    /\ WF_vars(WelcomeTimeout)
    /\ WF_vars(WatchdogTick)
    /\ WF_vars(socket # NoSocket /\ rs[socket] # "open" /\ OnClose)
    /\ \A s \in Sockets : WF_vars(StaleSocketCloses(s))
    /\ SF_vars(ReconnectFires /\ socket' # NoSocket)
    /\ SF_vars(OnOpen /\ live'.phase = "awaiting-welcome")
    /\ SF_vars(Welcome /\ live'.phase = "ready")

FairSpec == Spec /\ Fairness

-----------------------------------------------------------------------------
(* Properties.                                                              *)

TypeOK ==
    /\ subs \in [Sessions -> SUBSET Subscribers]
    /\ feed \in FeedStates
    /\ socket \in Sockets \cup {NoSocket}
    /\ rs \in [Sockets -> ReadyState]
    /\ connecting \in BOOLEAN
    /\ intentional \in BOOLEAN
    /\ timer \in BOOLEAN
    /\ attempts \in 0..BackoffCap
    /\ dropped \in BOOLEAN
    /\ live \in Liveness \cup {NoLive}
    /\ wire \subseteq Channels
    /\ missed \subseteq Channels
    /\ troubled \in BOOLEAN

\* No interleaving of calls, drops and timers leaves a subscriber with neither a
\* socket nor a pending reconnect: nothing else would ever serve it.
NoStrandedSubscriber == HasSubscriptions => timer \/ socket # NoSocket

\* When the last subscriber leaves, by whichever path, no socket, liveness
\* epoch, reconnect timer or drop marker survives (closeIfIdle).
IdleIsQuiet ==
    ~HasSubscriptions => /\ socket = NoSocket /\ live = NoLive
                         /\ ~timer /\ ~connecting /\ ~dropped

\* A socket that can still open or deliver is the current one: a replacement
\* never leaves an older connection running beside it.
AtMostOneLiveSocket ==
    \A s \in Sockets : rs[s] \in {"connecting", "open"} => s = socket

\* Whatever the order of calls, timers and closes, the connection machine keeps
\* its law: no subscriber is stranded, no work outlives the last one, and no
\* second connection runs beside the current one.
ConnectionLaw == NoStrandedSubscriber /\ IdleIsQuiet /\ AtMostOneLiveSocket

\* On a ready socket the server serves every registered channel, and only those
\* unless an unsubscribe frame was lost ("one frame per wire channel").
WireMatchesRegistry ==
    Ready => /\ Active \subseteq wire
             /\ SendMayFail \/ wire \subseteq Active

\* No channel is live again after an interruption before the consumers that
\* reconcile lost agent events were told of it (onReconnected, v2Stream.ts:421).
GapAnnounced == Ready => missed = {}

\* Listeners are told of a reconnect only if a socket was lost since the page
\* was last idle: an old drop is not carried over (v2Stream.ts:871).
AnnouncedOnlyAfterLoss == [][Announces => troubled]_vars

\* What the module promises is what it does, when no call meets a CLOSING socket:
\* whatever goes wrong underneath, the link its consumers see is a LiveLink.
Link == INSTANCE LiveLink WITH wanted <- HasSubscriptions, up <- Ready, owed <- dropped

ImplementsLiveLink == Link!Spec

\* A page with subscribers is served in the end, whatever the interleaving of
\* timeouts, failed sends and drops, unless it unsubscribes.
SubscribersServed == HasSubscriptions ~> (Ready \/ ~HasSubscriptions)
=============================================================================
