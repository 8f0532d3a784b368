# Formal models of the Lotus live client

This directory holds TLA+ models, TLC configurations and TLAPS proofs about the
browser client in `src/` (React and TypeScript).  The client talks to one
Bamboo agent server.  Durable state lives on the server; what the client has to
get right is *when* to believe what it was told: frames arrive late, sockets are
replaced, snapshots race with live events, and callbacks of one component run in
the middle of another.

All of it runs on one JavaScript event loop.  A handler (a call, a timer, a
socket callback, the code between two `await`s) runs to completion, so each
handler is one action; an `await`, a timer or a frame in flight is where another
action may come in between.

## The system

| Component | Source | State | Operations | What is hard |
|---|---|---|---|---|
| Live socket | `services/chat/v2Stream.ts` | current socket and its epoch, reconnect timer and backoff, channel registries | subscribe/close per channel, hello/welcome, heartbeat, watchdog, reconnect | callbacks of replaced sockets, partial sends, drops between any two steps |
| Account feed | `v2Stream.ts` (feed channel), `accountFeed.ts` | resume cursor, subscription epoch, reset floor, durable cursor in localStorage | subscribe, apply event, apply reset, delivery failure, restart | replay against lost progress, handler failures, several page lifetimes sharing one cursor |
| Actor channel | `v2Stream.ts` (actor channel), `actorChannel.ts` | cursor, producer epoch, pending resume proof | subscribe with resume, event, reset, `replay_complete`, gap | proving that a retained numeric cursor still names the same producer history |
| Actor tree | `v2Stream.ts` (tree channel), `useActorSnapshot.ts`, `actorSnapshot.ts`, `actorTopology.ts` | shared wire cursor, last control, one in-flight REST read | subscribe with cursor, directive, snapshot load | a read that answers after a newer directive |
| Visible Actor subscriptions | `visibleActorSubscriptions.ts` | leases, snapshots, channel epoch, terminal recovery | sync the visible set, event, snapshot, reconnect, retry | asynchronous snapshot against terminal replay and reconnect |
| Message transcript | `messageTranscript.ts` | ordered parts of one message | event, snapshot, reset | duplicates, gaps, snapshot older than the stream |
| Continuous retry fence | `lib/continuousRetryFence.ts`, `hooks/useChat.ts` | a receipt per session in `sessionStorage`, a guard in `localStorage`, stop fences per session and per pane in memory | reserve, confirm, give back; stop, resume | ACKs that arrive late, without identity or never; a Stop that waits while a successor starts; storage that refuses writes; reloads |
| Completed answer handoff | `lib/completedAnswerHandoff*.ts`, `hooks/useChat.ts` | answers that finished before the history has them, the leases of their runs | retain, confirm, expire, invalidate | the pane leaves, the history lags, a clear comes in between |
| Guidance queue | `hooks/useGuidanceQueue.ts` | queue of guidance texts and the one in flight | enqueue, edit, remove, drain | a send that fails after the queue moved on |
| Live bootstrap retry | `liveBootstrapRetry.ts`, `hooks/useLiveBootstrapRetry.ts` | the retry deadline of one session | schedule, fire, cancel | session switches while a request is in flight |
| Server bootstrap | `services/bootstrap/serverBootstrap.ts`, `App` | classification of the bootstrap document | request, password, verify | contradictory documents must fail closed |
| Session list refresh | `shared/store/appStore/index.ts`, `slices/chatSessionSlice*`, `services/chat/accountFeed.ts` | the list, the selected session, the read in flight, its throttle window and waiters, the tree workers | boot, poll, feed, forced and reset refresh, open, delete | shared reads that began before what they are to show, waiters nobody settles, deleted sessions coming back |
| Conversation history and clear | `slices/chatSessionSlice.ts`, `services/chat/conversationClear.ts` | the messages shown, the current read, the clear operation, the replacement owed | read, retry, clear, verify, reconcile | late answers, uncertain writes, `session_cleared` during an operation |
| Execution state | `slices/executionStateSlice/*` | phase per session | summaries; live events (tests only) | late summaries against live events |
| Chat runs | `hooks/useChat.ts`, `AgentService.ts` | the run of the open session | send, stop, retry, resume | cancellation against completion |
| Browser session | `hooks/useBrowserSession.ts` | controlled browser lease and frames | open, resume, close | lease loss during a request |
| Storage | `services/storage/*` | IndexedDB stores | migrate, read, write | partial migration |
| HTTP transport | `services/api/transport.ts` | auth epoch | request, retry, 401 | reauthentication races |
| Supervisor scope, tickets, work board | `services/supervisorScope/*`, `services/tickets/*`, related hooks | cached reads | poll, decide | stale reads |
| Settings, providers, MCP, plugins, notification, metrics, memory clients | `services/{config,mcp,plugin,notification,metrics,memory,...}` | none or a form | REST calls | - |
| User interface, i18n, export, theming | `components/`, `pages/`, `shared/i18n`, `lib/export`, `shared/theme` | view state | rendering | - |

## How the parts interact

- All live channels share **one** WebSocket.  `v2Stream.ts` owns it; a consumer
  calls `subscribe*` and gets callbacks, and a callback may call `subscribe*` or
  `close()` again before the handler that ran it is done.
- The wire loses everything in flight with the socket.  After a reconnect every
  channel is subscribed again from the cursor its registry keeps, and consumers
  that cannot resume are told of a gap (`onReconnected`, `onGap`).
- A live frame never carries the truth by itself: the account feed, the Actor
  tree and the transcript each *read* it by REST, so that a read in flight races
  with the frames that asked for it.
- `localStorage` is shared by the tabs of a profile; the account feed keeps its
  durable cursor there.  A tab reads the cursor and then writes it
  (`accountFeed.ts:62-64`); another tab may write it in between.
- The gateway is external.  It is modelled by what the client relies on: frames
  of one socket arrive in order, a subscribe is answered from the cursor it
  names or with a reset, and a REST answer is a state the server was in between
  the request and the answer.

## Plan

| # | Module | Models | Composes / implements | Status |
|---|---|---|---|---|
| 1 | `V2Socket`, `V2SocketWindow` | the connection machine | implements `LiveLink` | done, proved |
| 2 | `V2Feed` | the account feed over a socket that comes and goes | socket reduced to `ready` | done, proved |
| 3 | `VisibleActor` | leases, recovery, terminal replay | - | done, proved |
| 4 | `V2Actor` | the Actor channel and its resume proof | its readers | done, proved |
| 5 | `ActorTree` | the tree channel with the snapshot views | channel + hook + REST | done, proved |
| 6 | `Transcript` | one child transcript | hook + channel + REST | done, proved |
| 7 | `SessionList` | the session list and every path that reads it again | store + feed + poll + REST + delete | done, proved |
| 8 | `RetryFence` | which run a Stop may reach | storage + fences of the panes + Execute and its ACKs | done, proved |
| 9 | `Conversation` | one conversation: reads, clears, finished answers | store + registry + pane + feed + REST | done, proved |

`Execution` was planned as well and is left out: the half of the reducer with
generations, settle timeouts and live events has no caller outside its tests, and
what the application uses is a pure merge of a session summary into a phase.

Every invariant and every action property of a passing run is a theorem now.
Still worth proving, in the order of their value: the safety half of
`TerminalDelivered` (while a terminal replay is owed, something is under way or
`retry()` will start it); the same for `Converges` (a list that is behind has a
read, a timer or the poll ahead of it).

## Modules

### `V2Socket`, `V2SocketWindow`, `LiveLink`, `MCV2Socket`

State: the registries reduced to the set of local subscribers of each channel
(`subs`, `feed`), the module variables of `v2Stream.ts:411-426` (`socket`,
`connecting`, `intentional`, `timer`, `attempts`, `dropped`, `live`), the
`readyState` of every socket object ever made (`rs`; a closed one may be used
again, which stands for a new object) and the channels the server serves
(`wire`).  `missed` and `troubled` are history.

The private functions of the module are operators (`TeardownSocket`,
`ScheduleReconnect`, `FailSocketEpoch`, `GoIdle`, `CloseIfIdle`, `Connect`), and
each public call, timer or callback is an action that uses them in the code's
order.  `hasSubscriptions()` is read where the code reads it: after the handler
changed the registry (`HasSubscriptions'`).  Time is dropped: a timer that is
armed may fire.  A send may fail (`SendMayFail`) at any of the points the code
checks, and `ClosingVisible` says whether the application can act between the
start of a closing handshake and its `onclose`.  Frames that change no
connection state are `InboundFrame`.

`LiveLink` is what consumers are promised: a link that is up or down while
somebody wants it, and owes an announcement whenever it was lost.  `V2Socket`
implements it with `wanted <- HasSubscriptions`, `up <- Ready`,
`owed <- dropped`.

`V2SocketWindow` adds a history variable, `window`: since the page was last idle,
the current socket was CLOSING while a call could see it.  The properties that
this window refutes (`GapAnnounced`, and being a `LiveLink`) are stated there for
everything else: `GapAnnouncedElse`, `LiveLinkElse`.

One fact the abstraction makes visible: the *first* time a page comes up after a
failed first attempt is announced as a reconnect too (`LiveLink!Fail`,
`v2Stream.ts:1293-1309`), although no consumer had anything to lose.

### `V2Feed`

State: the server's journal as a number (`head`), what it no longer retains
(`pruned`), commands and frames in flight, the `FeedChannel` record, the session
fetch that the boot or a reset started with what the server had when it was asked
(`asked`), the set of changes the page reflects (`know`) and the durable cursor
(`stored`).  Actions: one per branch of the feed part of `handleFrame` (ignored,
applied, applied but the handler throws, reset, reset whose handler throws),
subscribe and close, a drop, a ready epoch, another page of the profile that
applies or resets, and the end and start of a page lifetime.

A change is two steps: `ApplyChange` hands it to the store and reads the durable
cursor (`writing`), `StoreCursor` writes it.  Between the two the page may go
away, and another page may write or clear the cursor.  The cursor may therefore
move *backwards* although the comment at `accountFeed.ts:60-61` rules that out; a
page that resumes from a lower cursor applies some changes again and misses none.
What the cursor may never do is cover a change that no page of the profile has
applied (`CursorCovered`, with the history variables `seen` and `skipped`).  Of
another page the model takes it that a change it stores, and all below, it had
applied or fetched.

A reset that answers cursor 0 is dropped (`isFeedCursor` wants a positive
`from_seq`, `v2Stream.ts:386`): a page that subscribed without a cursor and whose
first changes were no longer retained starts behind them, and refetches nothing.
What it showed before is its boot fetch, or that of the reset that took its
cursor to 0.  `unheard` marks such a page, and `NoSilentGap` and `ChangesArrive`
except on it the changes that were gone when it asked (`skipped`), and no others.

`Restarts` says when an owner may close its feed and make a new one.  The
application never does (`stopAccountFeed` has no caller); the run goes further and
lets it do so while the socket is down.  On a live socket (`Restarts = "live"`) a
new subscription takes the frames that the old one left in flight, because the
protocol names no subscription (`v2Stream.ts:1329`): there `NoSilentGap` is false.

The comment at `accountFeed.ts:238-239` calls a delivery error transient; the
code isolates the feed until the page is loaded again (`failFeedDelivery`).
`ChangesArrive` therefore excepts a channel in that state.

### `VisibleActor`

One `ActorEntry` with its panes.  Each promise the code captures an epoch for is
a flag that says whether it is still of the current epoch.  `reconnect()` may
be called at any time.  When it comes during a terminal replay it moves the epoch
on, the `finally` at `visibleActorSubscriptions.ts:313` then never clears
`terminalRecovery`, and `retry()` returns at `:295` for ever: the run
`visible_reconnect` shows it.  The history field `cut` marks an entry this
happened to, until its attempt changes or its authorization is lost; `Served` and
`TerminalDelivered` except it.  (No component of the application drives the
manager yet; its port and its tests do.)

A pane whose actor left the tree and came
back keeps its entry in `needsTerminalReplay` although the new channel serves it.
`publish()` runs callbacks between a recovery and its terminal mark; a callback
that calls `acquire()` there would open a channel that stays open after the end.

### `V2Actor`

One actor channel with the readers that share it.  Frames name the producer
epoch they belong to, as the protocol's do.  The server may be old or new: it
may prove a replay, prove it wrongly, or take the number without looking at the
epoch, and a restart begins a new epoch whose numbers coincide with the old
ones.  `prefix` is the history the properties compare the cursor with.  A drop
(`Disconnected`) takes every pending resume with its socket, and announces a gap
when an anchored prefix had been received in part (`v2Stream.ts:678-685`).

### `ActorTree`

The tree channel and `useActorSnapshot` together: a view reads by REST, and its
effect subscribes anew with the cursor of what it shows, so that the shared
channel cursor, each view's required cursor and each read in flight are all
related.  The microtask of `queueRefresh` is part of the step that queues it.
Commands are kept by the last one in flight: an earlier one adds nothing but an
older answer.

Seen while modelling:

- A view that joins behind the shared cursor gets a gap whose requirement is its
  own cursor (`useActorSnapshot.ts:229`).  A read sent before the join can end
  that gap, and the queued read after it is not retried when it fails; the view
  then shows its error until the next revision.
- `gapNotified` stays set after a reconnect until a directive is accepted, so a
  malformed directive in that window is swallowed although the views have
  cleared their warning (`v2Stream.ts:1115`): they then show an old tree and say
  nothing, until the next directive is accepted or the channel is subscribed
  anew.  The history variable `swallowed` says that the directive of the last
  revision came that way, and `FreshOrWarned` excepts it; without the exception
  TLC finds `ViewLaw` violated at once.
- A view that requires `null` (a directive said the tree has no cursor) keeps
  its warning until it is closed.

### `Transcript`

`messageTranscript.ts` is a set of pure functions on one record, and the model
has an operator for each; `useSubagentTranscript.ts` decides when the history is
read.  All versions of a message are prefixes of one text, so a text is a
number of characters.  `reconcileRevision` is only ever compared with the value
a read captured; the model keeps, with the read in flight, whether it still is.
The other half of `applyDelta` and of `preferLiveContent` (bytes that
contradict what is shown) is left out, as is `is_delta` (the hook never passes
`since_message_id`) and unmounting (it only stops the world).

Seen while proving: a snapshot is accepted whatever its version
(`messageTranscript.ts:105-128`), and one that answers a subscription goes before
the events that queued since the registration.  When a new runner starts between
the two, the frames of the old generation (its commit, the snapshot of the new
one) arrive *behind* the snapshot of the new one, and text that it brought can
go.  Whether a gateway does this the client cannot tell; the history variable
`mixed` remembers that it happened, and `TextStays` is stated while it has not.
Two frames in flight are too few for it, which is why the run has three.
`CommittedShown` does not depend on it: a pane at rest is right in any case.

### `SessionList`, `MCSessionList`

The server's sessions (roots and children, with their message index reduced to a
version), and what a page makes of them: the list, the selected session, the
throttle window of `refreshChats`, the read in flight and who waits for it, the
debounce of the feed, and one worker per tree.  A read answers with the state
the server was in at some time while it was in flight.  `refreshChats`,
`refreshChatsNow` and `SettleRead` are operators; the actions are their callers:
the boot, the poll, a feed change and its debounce, the reconnect, the reset, an
opened link, the pane effect that loads a tree, and `deleteSession`.  The feed is
started before `loadChats`, so it may be reset, and announce a reconnect, before
the boot is answered.  `selectSession` checks nothing: a link selects a session
that is not listed, or was deleted, before the list is read (`openSession.ts:115`).
`seen` records whether what is selected was listed since it was selected.

Seen while modelling:

- A feed reset forces a refresh (`accountFeed.ts:84-98`).  While a read is in
  flight, `executeForcedRefreshChats` waits for it and, when it *fails*, rejects
  without a read of its own (`refreshChats.ts:556-560`).  The next poll heals it.
- A child opened by a link stays selected although neither it nor its root is in
  the list, when it was deleted elsewhere or its tree is not read.  `ListWellFormed`
  is therefore about a selected child that was listed.

### `RetryFence`, `MCRetryFence`

One session in one tab: the receipt, the shared guard, the remembered ACKs, the
fence of the session and the one of each pane, and each Execute with what the
page keeps to handle its answer.  A run is named by the operation that started
it.  A fence is identified by what it was made for, and `prior` is the session's
fence that was there at that time, because the code compares object identity.  A
Stop is three steps: it is asked for, the capability is read (any other action
may come first), and it is sent or rejected; `MaySend` is what each fence checks
at that last moment.  Storage may refuse each write, when a receipt is made,
confirmed or given back; another tab is `GuardAppears`.  A pane that is unmounted
leaves the fences of its old instance to the answers that it still awaits
(`Unmounted`), which may hand the session's fence back all the same.

Seen while modelling, and therefore excepted in `StopHitsItsRun`: against a
server without exact Stops, a start that could *not* write its receipt (the user
was told `identity_unsaved`) is invisible to a fence restored from an older
receipt, whose session-wide Stop then reaches the unreserved run.  The exception
is exactly this: a fence that was not made with its Execute, and an operation
that could not reserve.

### `Conversation`

One session in one pane.  A conversation is a generation (it is cleared as a
whole), a number of turns and the set of turns whose answer is saved.  A history
read is current until another one starts or its token is taken away; `reads`
holds the current one only, so that *discarded* means that nothing of it is
applied.  `clear.step` is the `await` the clear operation is at, `intent` the
module's `replacementRequired`, `deferredClears` and `acknowledgedClears`.  The
completed-answer registry is `records`, and the lease of the pane's run is in
`pane`.

Seen while modelling:

- `session_cleared` carries no revision, so a delayed one also withdraws an
  answer that finished after the clear (`AnswerStays` excepts it; the comment at
  `chatSessionSlice.ts:100` says so).
- A `session_cleared` of the page's own clear that arrives during verification
  takes the verification's token: a clear that succeeded reads
  `readback_failed` until the user asks to verify again.
- `session_cleared` that is lost in a feed reset leaves the open conversation
  with the erased messages: the reset reads the list, not the conversation.
  The model delivers every such event, late.
- An answer the registry dropped for its age or number can never be confirmed;
  the pane that shows it keeps its text beside the history's
  (`AnswerOnce` excepts it, `pane.lapsed`).

## Runs

| Run | Question | States | Bounds, and why they are enough |
|---|---|---|---|
| `socket` | Can any order of calls, failing sends, timers, drops and the CLOSING window strand a subscriber, leave something running on an idle page, or keep two connections alive? Does the wire match the registry, are subscribers served in the end, and is only that window able to swallow an announcement? | 199,145 | two subscribers (one leaves while one stays), an agent and a message session and the feed, two sockets (one that is CLOSING, and its replacement; an object whose close event ran may serve again) |
| `socket_closing` | *violation* of `GapAnnounced` | counterexample | the CLOSING window, one subscriber |
| `feed` | Is a change ever passed over or handed over twice, across drops, replays, resets, throwing handlers, other tabs and page lifetimes? Does the durable cursor ever cover what nobody applied? Does everything arrive? | 677,619 | three changes: one below the cursor, one at it, one after; resets and prunes at each |
| `visible` | Is only authorized, current content asked for, and is no held lease forgotten? | 2,319 | two panes (early and late), three attempts (the shown one, its successor, and one for a stale answer) |
| `visible_reconnect` | *violation* of `PendingForRetry` | counterexample | two panes, one attempt |
| `actor` | Does a certified cursor name the history the readers saw, and is no event lost without a warning? | 139,407 | two readers, two producer epochs, three events of each, so that numbers of both coincide |
| `tree` | Does a view at rest show the current tree or say that it may not? | 2,526,405 | two views, one whose reads fail; two durable scopes with two revisions |
| `transcript` | Does text on show ever shrink, and is what was committed what is shown in the end? | 6,604,605 | two messages, so that a second generation follows the first; two characters, so that a lost delta leaves a hole; three frames in flight, so that a commit and the next runner's snapshot can wait behind the answer to a subscription |
| `session_list` | Does the list stay well formed, and become what the server has, whatever is polled, pushed, forced, reset, opened, deleted or failing? | 643,105 | two roots (one is deleted while the other stays), one child, one change and one other event beyond those the page causes itself |
| `retry_fence` | Can the receipt fall behind the newest run, or a Stop reach a run it was not made for? | 2,034,563 (with symmetry) | three operations (the one to be stopped, its successor, and one that is given back in between), two panes, one Stop under way (Stops of different fences share nothing) |
| `conversation` | Does what is shown ever go back, is a clear forgotten or claimed too early, is a finished answer lost or shown twice? | 638,704 | two clears (one here, one elsewhere) and two turns, of which later generations have fewer |
| `transcript_discard` | *violation* of `DiscardedGone` | counterexample | one message |

`CHECK_DEADLOCK FALSE` is set for `visible` (after `dispose()` the manager does
nothing any more) and for `session_list`, `retry_fence` and `conversation`: there
the page may come to rest once the bounded changes, Executes or turns are used up.

The three violations are disagreements between the code and its own words, each
quoted under `findings` in `PROJECT.json`:

- *socket_closing*: `connect()` takes a CLOSING socket for none
  (`v2Stream.ts:1212`).  A subscription made in that window replaces the socket,
  whose `onclose` is then ignored, and no listener learns of the interruption.
- *visible_reconnect*: a `reconnect()` during a terminal replay leaves its flag
  set (`visibleActorSubscriptions.ts:133`, `:313`), so that the explicit retry its
  comment at `:311` keeps the panes pending for does nothing.
- *transcript_discard*: a `discarded` event moves no revision
  (`messageTranscript.ts:143`), so a history answer from before the rollback is
  applied as current and the message is back, with nothing left to remove it.

## Fairness

- `V2Socket`: an armed timer fires, a queued `onclose` runs (weak fairness: the
  event loop).  A constructor, a handshake and a welcome that can succeed again
  and again succeed in the end (strong fairness): without it a server that
  always fails would refute liveness.  Nothing forces a call of the application.
- `V2Feed`: the handlers of frames in flight, the server's answer and delivery,
  `setItem` after `getItem`, the session fetch and the ready epoch are weakly fair.  `ChangesArrive` has
  the premise `<>[]ready`: a socket that drops for ever delivers nothing.
- `VisibleActor`: a promise settles (weak).  Nobody is bound to call `retry()`:
  `TerminalDelivered` ends with the snapshot, or with a failure that the next
  `retry()` would take up.
- `V2Actor`: the server takes a command, a frame in flight is delivered, the
  replay timer fires (weak), under `<>[]ready`.
- `SessionList`: the poll runs, the throttle window ends, requests are answered
  and their answers handled, waiting effects run (all weak: the event loop and a
  server that answers).  The feed is *not* fair: `Converges` holds without it, by
  the poll alone.  Requests that fail are among the bounded events, so that in the
  end they stop failing.
- `RetryFence` and `Conversation` state no liveness: users, networks and tabs may
  stop anywhere, and what must hold then is safety.
- `ActorTree` and `Transcript` state no liveness.  Their properties about rest
  (`AtRest`) say what must hold when nothing is left to happen, which needs no
  fairness.

## Proofs

`V2SocketProofs` holds for every set of sessions, subscribers and sockets and
every backoff cap, under `SocketAssumption` alone.  The inductive invariant is
`SocketInv`: the types, the three safety properties, and three facts no run
names.  `ConnectingHasSocket` (the flag `connecting` is set only while there is
a socket) is needed because `connect()` does nothing when it is set;
`IntentionalMeansGone` because `scheduleReconnect` does nothing after an
intentional close, so that a drop with `intentionalClose` left set would strand
its subscribers; `GapOwed` ties the history of missed channels to `dropped`.

The proof follows the code: a lemma for each private function says that it
re-establishes the invariant for whatever registry its caller left, one lemma
per handler reduces it to those, and two laws of a step (`DropLaw`, `LossLaw`)
carry what the history variables need.

- `TypeCorrect`, `ConnectionSafety`: unconditional.
- `GapsElseAnnounced`, `LiveLinkElseImplemented`: unconditional as well, over
  `V2SocketWindow`.  The step from the socket's laws is that a socket replaced
  without an announcement is one that was CLOSING while the page was not idle, so
  that `window` holds from there until the page is idle again, when nothing is
  owed.
- `GapsAreAnnounced`, `LiveLinkImplemented`: the same without any window, under
  `~ClosingVisible`; with the window they are false (run `socket_closing`).
- `ReconnectsAreReal`: an action property, unconditional.

The two refinements need one more invariant, `ReadyIsClean`: a ready epoch
has no drop left to announce.  `WireAlwaysMatches` is inductive beside
`SocketInv`: the server learns of a channel in the step that changes the
registry, or in the welcome that subscribes them all.

The first half of `ChatPaneProofs`, about `RetryFence`, holds for every number of
panes, Executes and Stops, under `BoundsAssumption` alone.  Its invariant `RetryInv` is about what the page keeps
for the answers it still awaits.  An operation remembers the receipt and the two
fences it replaced, and an answer may give them back much later, so they must be
fit for that from the moment they are put aside:

- `PriorNeverBehind`: the receipt put aside covers every earlier operation that
  reserved one and may run.  With it, giving back keeps `ReceiptNeverBehind`: only
  the operation that did not start lay above the receipt it had replaced.
- `SharedNewest` and `ReplacedNewest`: no newer operation may run beside a fence
  that was made with its Execute, and none between the fence that an Execute
  replaced and that Execute.
- `FenceOK` and `ReceiptOK`: evidence names only operations in `StartedOps`,
  which grows.  (`MayRun` shrinks, and evidence that could be taken back would let
  a Stop name a run that never was.)

`Keeps` says what every step keeps of the Executes sent so far; what a step leaves
alone follows from it.  `MaySendHits` is then a case for each kind of fence, and
`StopHitsAlways` the theorem on the specification.

`V2FeedProofs` holds for every number of changes, under `FeedAssumption` and
`NoneAssumption` (null is no object).  `NoSilentGapAlways`, `HandedOnceAlways` and `CursorCoveredAlways` also
assume `Restarts # "live"`, which is true of the application.  Their invariant
`FeedInv` is about what is in flight.  Of one subscription there is only its
subscribe (`AskedFor`) or an optional reset followed by consecutive changes
(`InFlightOK`).  `Before` is the change before the first of them: the page has
an account of all up to there, the profile has applied them or they were gone,
the owner was handed nothing after it, and the floor that a reset leaves is not
above it.  While a change is being stored (`HandlingOK`) the first frame is the
one that was handed over.  An event that the channel ignores is therefore one that
its own cursor covers, and never one that the floor hides.

`VisibleActorProofs` holds for every set of panes and every number of attempts,
under `VisibleAssumption`.  `sync()` runs after the topology changed, so what it
relies on may not mention the topology: `Consistent` is that part of the
invariant, and `sync()` makes the rest (`InScope`, `ServedIn`) true from it, for
whatever topology it finds.  A replay flag with no
replay under way is there only after a `reconnect()` (`cut`), which `ServedAlways`
excepts as `Served` does.

`V2ActorProofs` holds for every set of readers and all bounds, under
`ActorAssumption` and `NoneAssumption`.  A socket outlives no producer and no resume a socket, so that
all frames in flight are of the current epoch.  A certified cursor is true
because of events and resets that came before its proof, on this socket or on an
earlier one.  `ActorInv` therefore says of every anchored channel what its cursor
is worth should the producer still be in the anchored epoch (`EpochIsTrue`), and
of every pending resume what its reset is worth, and that the readers have its
anchored prefix while nothing came since (`ResumeIsTrue`).  `DisconnectedOK` is what
a drop leaves of both: an epoch is kept only where that prefix stands alone.

`NoSilentLossAlways` has an invariant of its own beside that one, `NewsInv`, which
looks the other way: not at what a cursor is worth but at what is still to come.
The frames in flight end with what tells the producer's last number
(`DownInOrder`), the last command in flight is what the channel wants
(`CommandsInOrder`), a channel whose history is complete has told or warned every
reader (`PrefixTold`), and one that has told no gap awaits what it lacks
(`AwaitsOK`).  `NoneAssumption` says that null is neither a channel
nor a pending resume.

`ActorTreeProofs` holds for every set of views, scopes and revisions, under
`TreeAssumption` and `ValuesAssumption` (null, undefined and a read not yet
answered are no cursors, and null is no object).  The wire drops a directive that
the shared cursor covers, or that repeats what the channel was told last; what a
view was not told is therefore not found on the wire but in what the channel and
the other views know.  `TreeInv` says so three times: `ViewOK` for each view (what
it requires has a read or a warning), `ListenerOK` for each listener against the
shared cursor, and `HearsOfTree` for the channel against the server: while no
frame in flight brings the news of the server's tree, every listener knows of it
(`Knows`), by what it shows, by the read it awaits or by its warning.  What makes
this inductive is that the reads of a view are sequential, so that a later read
never has an older answer (`ViewBase`).  `NeverBack` and `GapEndsWithProof` follow
from the same invariant, step by step.  `HearsOfTree` is stated while the
last directive was not `swallowed` (see above); the rest of the invariant, and the
other theorems, do not depend on it.

The second half of `ChatPaneProofs`, about `Transcript`, holds for every set of
messages and all bounds, under `TranscriptAssumption`.  `TranscriptInv` is about
the frames in flight, since what they will do to the pane depends on what comes
before them:

- `FramesOK`: the answer to a subscription is the first frame, and a `discarded`
  in flight is of a message that was rolled back.
- `ReadsOK` and `RestOK`: a read that is no longer current has another one owed,
  and on a committed generation the last frame in flight settles it; when nothing
  is in flight nothing streams, and a current answer is the durable history.
  `CommittedShownAlways` follows from these, with any mix of generations.
- `NewOK` and `BoundsOK`: nothing mentions a message before it is made, and
  neither the pane nor a frame has more of it than the server.
- `KeptOK`: what was kept of a committed generation is durable, and an answer that
  may retire it contains it; what a frame in flight will settle, with all that the
  frames before it bring, is durable already.
- `RegisteredOK`, `RunnerOK` and `StreamsOK`: without `mixed`, a runner's snapshot
  finds nothing streaming, and an event that will be applied to a message finds
  nothing kept of it (`Unkept`) or is stale when it arrives (`Stale`), so that
  live text never hides longer text that was kept.

`TextStaysAlways` needs them all: only a frame and a response change what is shown,
and `ShownGrows` reduces both to the history and the replay of one message.

`SessionListProofs` holds for every set of roots, every finite set of children and
all bounds, under the assumptions of the module (`RootOfAssumption`,
`SessionsAssumption`, `NoneAssumption`, `BoundsAssumption`).  A read, a boot, a
worker and a deletion all apply what was true when they were answered.  The
invariant `ListInv` holds on to one thing, that a deleted session does not come
back: everything an answer brings was on the server once (`KnownOK`), so a root
that an answer lacks and the page lists is gone for good (`AnswerOK`), and the root
of a selected child that was listed and is not any more (`seen`) is gone as well
(`SelectionOK`).  `crossed`,
a history variable, excepts the refresh that `loadChats` took over.

`ConversationProofs` holds for every number of clears and turns, under
`BoundsAssumption` alone, and proves all five properties of the module.  The
argument is an order (`Upto`): what is shown, then what a read that still counts
has in hand, then the server.  Applying a read can therefore only move the page
forward (`NextUpto`, from which `NeverBackwards` and `AnswerStays` follow).  The
order is inductive because at most one read counts at a time, and because an event
of a clear takes away every read that may have missed it (`ReadsOK`:
`r.snap.gen + feed >= srv.gen`).  `AnswersOK` adds what the registry relies on: a
verification exists only while the operation is verifying, and nothing is sent
meanwhile, so that the question of every answer handed over is in the snapshot
that is verified; a verified empty conversation withdraws only what was cleared.

Only model-checked: liveness (`SubscribersServed`, `ChangesArrive`,
`TerminalDelivered`, `OwedIsServed`, `Converges`), since `ENABLED` and fairness are
beyond the prover.

## Not modelled

Authentication, storage, rendering and the REST clients have no state machine of
their own (see the table); they are most of the repository's lines, and the
models therefore stand for a small share of it.  Of `useChat.ts`, sending with
attachments, regenerate and edit, passive observation of runs driven elsewhere,
failed and cancelled settlements and compression feedback are left out; of the
conversation, managed bindings, staged sessions, token-usage fences, truncation
and the deletion of single messages; of the session list, the contents of a row,
pagination, locally created sessions and `restoreSession`.  Of the socket's
protocol, the parsing of frames is the choice between an accepted and a malformed
frame; a handler of the account feed that throws inside `connect()`
(`v2Stream.ts:1246`: it sets a flag in the store), and a page without `WebSocket`,
are left out.  Byte contents, message layout, times and the lengths of delays are
left out everywhere.

Some hazards have properties that are checked only outside a named case, because in
it the code does what the property rules out (`hazards` in `PROJECT.json` gives each):
the swallowed tree gap at `v2Stream.ts:1115` and a view that joins behind the shared
cursor (`ViewLaw`), a feed replaced on a live socket (`NoSilentGap`), `reconnect()`
during a terminal replay (`Served`, `TerminalDelivered`), an operation that could not
reserve its receipt (`StopHitsItsRun`), and a clear that is reported as failed although
it was performed (no property).
