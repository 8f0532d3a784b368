------------------------------- MODULE V2Feed -------------------------------
(***************************************************************************)
(* The account feed: the feed channel of services/chat/v2Stream.ts together *)
(* with its owner services/chat/accountFeed.ts, in one page lifetime after  *)
(* another.  The other pages (tabs) of the browser profile run the same     *)
(* code; what this page sees of them is what they do to the durable cursor  *)
(* in localStorage, which all of them share, between any two of its steps.  *)
(*                                                                          *)
(* The server is external.  It numbers changes 1, 2, ...; it serves a       *)
(* subscribe from any point not above the requested cursor that it still    *)
(* retains, and answers one it no longer retains with feed_reset.  Frames   *)
(* of one socket arrive in order and are lost with the socket.              *)
(***************************************************************************)
EXTENDS Naturals, Sequences, FiniteSetsExt

CONSTANTS
    MaxSeq,            \* bound on the number of changes
    None,              \* JavaScript null
    Restarts           \* when the owner may close its subscription and make a
                       \* new one within a page: "never" (the application: it
                       \* has no caller of stopAccountFeed), "offline" or
                       \* "live" (the API and its tests)

ASSUME FeedAssumption ==
    /\ MaxSeq \in Nat \ {0}
    /\ None \notin Nat
    /\ Restarts \in {"never", "offline", "live"}

VARIABLES
    head,     \* server: number of the latest change
    pruned,   \* server: changes up to this one are no longer retained
    pos,      \* server: last change sent on the page's socket, None if idle
    up,       \* feed commands in flight to the server
    down,     \* feed frames in flight to the page
    ready,    \* isSocketReady()
    chan,     \* feedChannel, None while the page is closed
    writing,  \* onChange between its getItem and its setItem, or None
    refetch,  \* the authoritative session fetch of the boot or of a reset
    asked,    \* what the server had committed when that fetch was asked for
    know,     \* changes the page certainly reflects
    last,     \* history: highest change this channel handed to its owner
    repeated, \* history: a change was handed twice to the owner of a channel
    leapt,    \* history: the page resumed from a cursor another page moved on
    unheard,  \* history: the page dropped a reset because its cursor was 0
    seen,     \* history: changes that some page of the profile has applied
    skipped,  \* history: changes up to this one were gone when asked for
    stored    \* localStorage lotus_account_feed_cursor_v1, 0 when absent

server  == <<head, pruned, pos>>
wire    == <<up, down>>
fetch   == <<refetch, asked>>
history == <<last, repeated, leapt, unheard>>
profile == <<seen, skipped, stored>>
vars    == <<server, wire, ready, chan, writing, fetch, know, history, profile>>

Seqs == 1..MaxSeq

Channel == [since : 0..MaxSeq, deliveryFailed : BOOLEAN,
            subscribedSince : 0..MaxSeq \cup {None},
            acceptedInSubscription : BOOLEAN,
            resetHandledInSubscription : BOOLEAN,
            postResetFloor : 0..MaxSeq \cup {None}]

\* null is no object.
ASSUME NoneAssumption == None \notin Channel

Command == [type : {"subscribe", "unsubscribe"}, since : 0..MaxSeq]
Frame   == [type : {"event", "reset"}, seq : 0..MaxSeq]

Subscribe(n)   == [type |-> "subscribe", since |-> n]
Unsubscribe    == [type |-> "unsubscribe", since |-> 0]
ChangeFrame(n) == [type |-> "event", seq |-> n]
ResetFrame(n)  == [type |-> "reset", seq |-> n]

FreshChannel(since) ==
    [since |-> since, deliveryFailed |-> FALSE, subscribedSince |-> None,
     acceptedInSubscription |-> FALSE, resetHandledInSubscription |-> FALSE,
     postResetFloor |-> None]

\* Mutant: the new subscription still counts the old one's reset.
SubscribedKeepsEpoch(c) == [c EXCEPT !.subscribedSince = c.since]

\* sendFeedSubscribe: the epoch fields restart with the cursor sent.
Subscribed(c) == [c EXCEPT !.subscribedSince = c.since,
                           !.acceptedInSubscription = FALSE,
                           !.resetHandledInSubscription = FALSE]

Open      == chan # None
Listening == Open /\ ~chan.deliveryFailed /\ chan.subscribedSince # None

\* The page's event loop is between two callbacks.
Idle == writing = None

Init ==
    /\ head = 0 /\ pruned = 0 /\ pos = None
    /\ up = <<>> /\ down = <<>>
    /\ ready = FALSE /\ chan = None /\ writing = None
    /\ refetch = "none" /\ asked = 0
    /\ know = {}
    /\ last = 0 /\ repeated = FALSE
    /\ leapt = FALSE /\ unheard = FALSE
    /\ seen = {} /\ skipped = 0 /\ stored = 0

-----------------------------------------------------------------------------
(* The server.                                                              *)

Commit ==
    /\ head < MaxSeq
    /\ head' = head + 1
    /\ UNCHANGED <<pruned, pos, wire, ready, chan, writing, fetch, know, history, profile>>

\* Retention never drops what an open subscription has not been sent.
Prune ==
    /\ pruned < head
    /\ pos # None => pos > pruned
    /\ pruned' = pruned + 1
    /\ UNCHANGED <<head, pos, wire, ready, chan, writing, fetch, know, history, profile>>

ServerReceives ==
    /\ up # <<>>
    /\ up' = Tail(up)
    /\ LET cmd == Head(up) IN
       \/ /\ cmd.type = "unsubscribe"
          /\ pos' = None
          /\ UNCHANGED <<down, skipped>>
       \/ /\ cmd.type = "subscribe" /\ cmd.since >= pruned
          /\ \E from \in pruned..cmd.since : pos' = from
          /\ UNCHANGED <<down, skipped>>
       \/ /\ cmd.type = "subscribe" /\ cmd.since < pruned
          /\ \E from \in {pruned, head} :
               /\ pos' = from
               /\ skipped' = Max({skipped, from})
          /\ down' = Append(down, ResetFrame(cmd.since))
    /\ UNCHANGED <<head, pruned, ready, chan, writing, fetch, know, history, seen, stored>>

ServerSends ==
    /\ pos # None
    /\ pos < head
    /\ pos' = pos + 1
    /\ down' = Append(down, ChangeFrame(pos + 1))
    /\ UNCHANGED <<head, pruned, up, ready, chan, writing, fetch, know, history, profile>>

-----------------------------------------------------------------------------
(* The other pages.                                                         *)

\* Another page applied a change the server committed and stores its number.
\* Its writeCursor compared the number with a cursor it read earlier, so that
\* what is stored by now may be anything.
OtherPageApplies ==
    /\ \E seq \in 1..head : /\ stored' = seq
                            /\ seen' = seen \cup (1..seq)
    /\ UNCHANGED <<server, wire, ready, chan, writing, fetch, know, history, skipped>>

\* Another page accepted the reset of a cursor that is no longer retained.
OtherPageResets ==
    /\ pruned > 0
    /\ stored' = 0
    /\ UNCHANGED <<server, wire, ready, chan, writing, fetch, know, history, seen, skipped>>

-----------------------------------------------------------------------------
(* The page and its socket.                                                 *)

\* The store asks for the whole session list.
AskList == refetch' = "pending" /\ asked' = head

\* startAccountFeed subscribes with the stored cursor, and the store loads the
\* list that the page starts with.  The socket is not ready yet.
OpenPage ==
    /\ ~Open
    /\ chan' = FreshChannel(stored)
    /\ AskList
    /\ UNCHANGED <<server, wire, ready, writing, know, history, profile>>

\* What the socket takes with it.
LoseSocket ==
    /\ ready' = FALSE
    /\ pos' = None
    /\ up' = <<>>
    /\ down' = <<>>

\* The page goes away, perhaps between a change it applied and the write of its
\* cursor; only localStorage survives.
ClosePage ==
    /\ Open
    /\ LoseSocket
    /\ chan' = None
    /\ writing' = None
    /\ refetch' = "none" /\ asked' = 0
    /\ know' = {}
    /\ last' = 0
    /\ leapt' = FALSE /\ unheard' = FALSE
    /\ UNCHANGED <<head, pruned, repeated, profile>>

\* acknowledgeWelcome: subscribeAll includes a feed that has not failed.
BecomeReady ==
    /\ Open /\ Idle
    /\ ~ready
    /\ ready' = TRUE
    /\ IF chan.deliveryFailed THEN UNCHANGED <<chan, up>>
       ELSE /\ chan' = Subscribed(chan)
            /\ up' = Append(up, Subscribe(chan.since))
    /\ UNCHANGED <<server, down, writing, fetch, know, history, profile>>

\* The socket epoch fails or closes.
Drop ==
    /\ ready /\ Idle
    /\ LoseSocket
    /\ chan' = [chan EXCEPT !.subscribedSince = None]
    /\ UNCHANGED <<head, pruned, writing, fetch, know, history, profile>>

\* The owner closes its subscription and makes a new one from the stored cursor.
Restart ==
    /\ Open /\ Idle
    /\ \/ Restarts = "live"
       \/ Restarts = "offline" /\ ~ready
    /\ last' = 0
    /\ leapt' = (leapt \/ (stored > chan.since /\ ~(1..stored \subseteq know)))
    /\ IF ready
       THEN /\ chan' = Subscribed(FreshChannel(stored))
            /\ Len(up) < 3   \* bound on commands in flight
            /\ up' = up \o <<Unsubscribe, Subscribe(stored)>>
       ELSE /\ chan' = FreshChannel(stored)
            /\ UNCHANGED up
    /\ UNCHANGED <<server, down, ready, writing, fetch, know, repeated, unheard, profile>>

\* The answer shows at least what was committed when it was asked for.
RefetchSucceeds ==
    /\ Idle
    /\ refetch = "pending"
    /\ refetch' = "none" /\ asked' = 0
    /\ know' = know \cup (1..asked)
    /\ UNCHANGED <<server, wire, ready, chan, writing, history, profile>>

\* A failed fetch is only logged.
RefetchFails ==
    /\ Idle
    /\ refetch = "pending"
    /\ refetch' = "failed" /\ asked' = 0
    /\ UNCHANGED <<server, wire, ready, chan, writing, know, history, profile>>

-----------------------------------------------------------------------------
(* handleFrame, branch `feed`.                                              *)

TakesFrame == Idle /\ down # <<>>

Pop == down' = Tail(down)

\* failFeedDelivery: the feed alone stops, from channel state c, until Restart.
FailDelivery(c) ==
    /\ chan' = [c EXCEPT !.deliveryFailed = TRUE, !.subscribedSince = None]
    /\ up' = Append(up, Unsubscribe)

\* Frames of an isolated feed, resets that are not the first answer to exactly
\* this subscription, and resets of cursor 0, which feedResetCursorFromFrame
\* does not take for a cursor, are dropped.
ResetApplies(from) ==
    /\ from > 0
    /\ from = chan.subscribedSince
    /\ ~chan.acceptedInSubscription
    /\ ~chan.resetHandledInSubscription

\* Mutant: a live event only has to exceed the reset floor.
AcceptanceFloorOfReset(c) == IF c.postResetFloor = None THEN 0 ELSE c.postResetFloor

\* A live event must exceed the cursor and, after a reset, the old cursor.
AcceptanceFloor(c) ==
    IF c.postResetFloor = None THEN c.since ELSE Max({c.since, c.postResetFloor})

IgnoreFrame ==
    /\ TakesFrame
    /\ LET f == Head(down) IN
       /\ Listening => \/ f.type = "reset" /\ ~ResetApplies(f.seq)
                       \/ f.type = "event" /\ f.seq <= AcceptanceFloor(chan)
       /\ unheard' = (unheard \/ (/\ Listening /\ f = ResetFrame(0)
                                  /\ chan.subscribedSince = 0))
    /\ Pop
    /\ UNCHANGED <<server, up, ready, chan, writing, fetch, know, last, repeated,
                   leapt, profile>>

\* Mutant: the absent stored cursor is read back as null, not as 0.
ApplyResetNull ==
    /\ TakesFrame /\ Listening
    /\ Head(down).type = "reset" /\ ResetApplies(Head(down).seq)
    /\ chan' = [chan EXCEPT !.since = 0]
    /\ Pop
    /\ stored' = None
    /\ UNCHANGED <<server, up, ready, writing, fetch, know, history, seen, skipped>>

\* onReset: clear the durable cursor, then force one authoritative fetch.
ApplyReset ==
    /\ TakesFrame /\ Listening
    /\ LET f == Head(down) IN
       /\ f.type = "reset" /\ ResetApplies(f.seq)
       /\ chan' = [chan EXCEPT !.since = 0,
                               !.resetHandledInSubscription = TRUE,
                               !.postResetFloor = f.seq]
    /\ Pop
    /\ stored' = 0
    /\ AskList
    /\ UNCHANGED <<server, up, ready, writing, know, history, seen, skipped>>

\* The reset handler throws: the cursor is kept and the feed is isolated.
ResetThrows ==
    /\ TakesFrame /\ Listening
    /\ Head(down).type = "reset" /\ ResetApplies(Head(down).seq)
    /\ FailDelivery(chan)
    /\ Pop
    /\ UNCHANGED <<server, ready, writing, fetch, know, history, profile>>

\* Mutant: the cursor is written before the change is applied.
ApplyChangeAfterStore ==
    /\ TakesFrame /\ Listening
    /\ LET f == Head(down) IN
       /\ f.type = "event" /\ f.seq > AcceptanceFloor(chan)
       /\ stored' = f.seq
    /\ writing' = stored
    /\ UNCHANGED <<server, wire, ready, chan, fetch, know, history, seen, skipped>>

\* onChange applies the change to the store; its writeCursor reads the stored
\* cursor.  Another page may write it before this one does.
ApplyChange ==
    /\ TakesFrame /\ Listening
    /\ LET f == Head(down) IN
       /\ f.type = "event" /\ f.seq > AcceptanceFloor(chan)
       /\ know' = know \cup {f.seq}
       /\ seen' = seen \cup {f.seq}
       /\ repeated' = (repeated \/ f.seq <= last)
       /\ last' = Max({last, f.seq})
    /\ writing' = stored
    /\ UNCHANGED <<server, wire, ready, chan, fetch, leapt, unheard, skipped, stored>>

\* writeCursor stores the change if it is above what was read; with that
\* onChange returns, and the channel advances its own cursor.
StoreCursor ==
    /\ ~Idle
    /\ LET f == Head(down) IN
       /\ stored' = IF f.seq > writing THEN f.seq ELSE stored
       /\ chan' = [chan EXCEPT !.since = f.seq,
                               !.acceptedInSubscription = TRUE,
                               !.postResetFloor = None]
    /\ writing' = None
    /\ Pop
    /\ UNCHANGED <<server, up, ready, fetch, know, history, seen, skipped>>

\* Mutant: the cursor is advanced before the handler ran.
ChangeThrowsAcknowledged ==
    /\ TakesFrame /\ Listening
    /\ LET f == Head(down) IN
       /\ f.type = "event" /\ f.seq > AcceptanceFloor(chan)
       /\ FailDelivery([chan EXCEPT !.since = f.seq])
    /\ Pop
    /\ UNCHANGED <<server, ready, writing, fetch, know, history, profile>>

\* onChange throws before the change took effect.
ChangeThrows ==
    /\ TakesFrame /\ Listening
    /\ LET f == Head(down) IN
       /\ f.type = "event" /\ f.seq > AcceptanceFloor(chan)
       /\ FailDelivery(chan)
    /\ Pop
    /\ UNCHANGED <<server, ready, writing, fetch, know, history, profile>>

-----------------------------------------------------------------------------
Next ==
    \/ Commit \/ Prune \/ OtherPageApplies \/ OtherPageResets
    \/ OpenPage \/ ClosePage \/ BecomeReady \/ Drop \/ Restart
    \/ ServerReceives \/ ServerSends
    \/ RefetchSucceeds \/ RefetchFails
    \/ IgnoreFrame \/ ApplyReset \/ ResetThrows
    \/ ApplyChange \/ StoreCursor \/ ChangeThrows

Spec == Init /\ [][Next]_vars

\* The event loop, the reconnect timer (V2Socket) and the server keep working.
Fairness ==
    /\ WF_vars(BecomeReady)
    /\ WF_vars(ServerReceives)
    /\ WF_vars(ServerSends)
    /\ WF_vars(IgnoreFrame)
    /\ WF_vars(ApplyReset)
    /\ WF_vars(ApplyChange)
    /\ WF_vars(StoreCursor)
    /\ WF_vars(RefetchSucceeds \/ RefetchFails)

FairSpec == Spec /\ Fairness

-----------------------------------------------------------------------------
(* Properties.                                                              *)

TypeOK ==
    /\ head \in 0..MaxSeq /\ pruned \in 0..head /\ stored \in 0..MaxSeq
    /\ pos \in 0..MaxSeq \cup {None}
    /\ up \in Seq(Command)
    /\ down \in Seq(Frame)
    /\ ready \in BOOLEAN
    /\ chan \in Channel \cup {None}
    /\ writing \in 0..MaxSeq \cup {None}
    /\ refetch \in {"none", "pending", "failed"} /\ asked \in 0..head
    /\ know \subseteq Seqs /\ seen \subseteq Seqs
    /\ last \in 0..MaxSeq /\ skipped \in 0..MaxSeq
    /\ repeated \in BOOLEAN /\ leapt \in BOOLEAN /\ unheard \in BOOLEAN

\* The page reflects change n, or will when the fetch under way is answered, or
\* could not learn of it: it was gone when the page subscribed without a cursor.
Accounted(n) ==
    \/ n \in know
    \/ refetch = "pending" /\ n <= asked
    \/ unheard /\ n <= skipped

\* The cursor a page would resume from never passes a change the page has no
\* account of, through drops, replays, resets and failing handlers, unless an
\* authoritative fetch failed or the page restarted its feed from a cursor that
\* another page had moved on (v2Stream.ts:1023-1087).
NoSilentGap ==
    Open /\ refetch # "failed" /\ ~leapt =>
        \A n \in 1..chan.since : Accounted(n)

\* One subscription hands each change to its owner at most once, although the
\* server replays from wherever it likes after every reconnect.
HandedOnce == ~repeated

\* The durable cursor covers only changes that some page of the profile has
\* applied or that the server had dropped when it was asked for them: a handler
\* that throws, a page that goes away between applying a change and storing its
\* number, and the unsynchronised writes of other pages may have changes applied
\* again but lose none (accountFeed.ts:248-252, 57-68).
CursorCovered ==
    \A n \in 1..stored : n \in seen \/ n <= skipped

\* On a page whose socket stays up in the end, every committed change arrives,
\* however often the socket dropped and the feed was reset before, unless a
\* handler threw, an authoritative fetch failed, the change was gone when the
\* page subscribed without a cursor, or the page leapt.
ChangesArrive ==
    <>[]ready =>
        \A n \in Seqs :
            (n <= head) ~> (\/ n \in know
                            \/ unheard /\ n <= skipped
                            \/ Open /\ chan.deliveryFailed
                            \/ refetch = "failed"
                            \/ leapt)
=============================================================================
