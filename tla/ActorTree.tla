----------------------------- MODULE ActorTree ------------------------------
(***************************************************************************)
(* One Root tree: the `tree.` channel of services/chat/v2Stream.ts and the   *)
(* views that read the tree with hooks/useActorSnapshot.ts.                  *)
(*                                                                          *)
(* The channel carries directives, never state: a view reads the snapshot by *)
(* REST, and its effect subscribes anew with the cursor of what it shows.    *)
(* All views share one channel cursor, and a directive that the shared       *)
(* cursor covers is dropped, so a view that is behind it must know already.  *)
(*                                                                          *)
(* The microtask of queueRefresh runs before any other task, and is part of  *)
(* the step that queues it.  An aborted read has no effect and is left out.  *)
(* The Worker gap of a selected Actor is V2Actor's matter; lease expiry only *)
(* asks for a read.                                                          *)
(* The server is external: REST reads are linearizable and every snapshot    *)
(* has a cursor.                                                             *)
(***************************************************************************)
EXTENDS Naturals, Sequences

CONSTANTS
    Views,         \* components that show this Root
    Flaky,         \* the views whose reads may fail (bound)
    MaxScope,      \* bound on durable scopes
    MaxRevision,   \* bound on revisions, one less in each later scope
    MaxFrames,     \* bound on directives in flight
    None,          \* JavaScript null
    Undefined,     \* JavaScript undefined
    Unread         \* a read that the server has not answered

ASSUME TreeAssumption ==
    /\ Flaky \subseteq Views
    /\ MaxScope \in Nat \ {0} /\ MaxRevision \in Nat \ {0}
    /\ MaxFrames \in Nat \ {0}

VARIABLES
    tree,        \* server: cursor of the tree, <<scope, revision>>
    serving,     \* server: the socket is subscribed
    up,          \* the last command in flight, the answer to an earlier one adds nothing
    down,        \* directives in flight
    ready,       \* isSocketReady()
    dropped,     \* droppedSinceOpen
    chan,        \* the ActorTreeChannel, None while there is none
    view,        \* the hook's state in each view
    swallowed    \* history: the last revision came as a directive nobody is told of

link == <<serving, up, down, ready, dropped>>
vars == <<tree, link, chan, view, swallowed>>

Cursors == (1..MaxScope) \X (1..MaxRevision)

\* actorTreeCursorCovers, treeCursorCovers; null covers nothing.
Covers(observed, required) ==
    /\ observed \in Cursors /\ required \in Cursors
    /\ observed[1] = required[1] /\ observed[2] >= required[2]

\* "initial" is treated as "changed" is.
Directive == [reason : {"gap", "changed"}, cursor : Cursors]
Malformed == [reason |-> "malformed", cursor |-> None]

Subscribe(c) == [type |-> "subscribe_tree", cursor |-> c]
Unsubscribe  == [type |-> "unsubscribe", cursor |-> None]

Channel == [cursor : Cursors \cup {None}, gapNotified : BOOLEAN,
            lastControl : Directive \cup {None}]

\* sub: the cursor the effect subscribed with; req: the read in flight, Unread or
\* the cursor of the answer; required: Undefined while there is no tree gap.
View == [active : BOOLEAN, snap : Cursors \cup {None}, sub : Cursors \cup {None},
         req : Cursors \cup {None, Unread}, trailing : BOOLEAN, timer : BOOLEAN,
         required : Cursors \cup {Undefined, None},
         gap : {"no", "transport", "regression"}, error : BOOLEAN]

\* null and undefined are no objects, and an answer is neither.
ASSUME ValuesAssumption ==
    /\ None # Undefined /\ None # Unread
    /\ {None, Undefined, Unread} \cap Cursors = {}
    /\ None \notin Directive /\ None \notin Channel
    /\ None # Unsubscribe /\ \A c \in Cursors \cup {None} : None # Subscribe(c)

Closed == [active |-> FALSE, snap |-> None, sub |-> None, req |-> None,
           trailing |-> FALSE, timer |-> FALSE,
           required |-> Undefined, gap |-> "no", error |-> FALSE]

Init ==
    /\ tree = <<1, 1>> /\ serving = FALSE
    /\ up = None /\ down = <<>>
    /\ ready = FALSE /\ dropped = FALSE
    /\ chan = None
    /\ view = [v \in Views |-> Closed]
    /\ swallowed = FALSE

Listeners == {v \in Views : view[v].sub # None}

-----------------------------------------------------------------------------
(* The server.                                                              *)

\* The directive of a new revision may be one that treeControlFromFrame rejects;
\* while a gap is noted, such a directive tells nobody.
Advance ==
    /\ \/ tree[1] + tree[2] <= MaxRevision /\ tree' = <<tree[1], tree[2] + 1>>
       \/ tree[1] < MaxScope /\ tree' = <<tree[1] + 1, 1>>
    /\ IF serving
       THEN /\ Len(down) < MaxFrames
            /\ \/ /\ down' = Append(down, [reason |-> "changed", cursor |-> tree'])
                  /\ swallowed' = FALSE
               \/ /\ down' = Append(down, Malformed)
                  /\ swallowed' = (chan # None /\ chan.gapNotified)
       ELSE UNCHANGED <<down, swallowed>>
    /\ UNCHANGED <<serving, up, ready, dropped, chan, view>>

\* A subscription that is not current is answered with a directive, which may find
\* a gap; a current one with none or with a redundant one.
ServerReceives ==
    /\ up # None
    /\ up' = None /\ swallowed' = FALSE
    /\ serving' = (up # Unsubscribe)
    /\ \/ up = Unsubscribe /\ UNCHANGED down
       \/ up = Subscribe(tree) /\ UNCHANGED down
       \/ /\ up # Unsubscribe
          /\ Len(down) < MaxFrames
          /\ \E reason \in IF up = Subscribe(tree) THEN {"changed"} ELSE {"changed", "gap"} :
                down' = Append(down, [reason |-> reason, cursor |-> tree])
    /\ UNCHANGED <<tree, ready, dropped, chan, view>>

-----------------------------------------------------------------------------
(* useActorSnapshot: reads.                                                 *)

\* refresh: the read in flight, if any, is aborted.
StartRead(w) == [w EXCEPT !.req = Unread, !.timer = FALSE, !.error = FALSE]

\* queueRefresh: one read at a time, and at most one after it.
Ask(w) == IF w.req = None THEN StartRead(w) ELSE [w EXCEPT !.trailing = TRUE]

\* Mutant: the trailing read is never made.
FinishedForgetting(w) == [w EXCEPT !.req = None]

\* finally: a directive that came during the read asks for another one.
Finished(w) ==
    LET done == [w EXCEPT !.req = None, !.trailing = FALSE] IN
    IF w.trailing THEN Ask(done) ELSE done

Set(v, w) == view' = [view EXCEPT ![v] = w]
Local     == UNCHANGED <<tree, link, chan, swallowed>>

Open(v)    == ~view[v].active /\ Set(v, StartRead([Closed EXCEPT !.active = TRUE])) /\ Local

\* A manual refresh, or a changed count of descendants.
Refresh(v) == view[v].active /\ Set(v, StartRead(view[v])) /\ Local

RetryFires(v) ==
    /\ view[v].timer
    /\ Set(v, Ask([view[v] EXCEPT !.timer = FALSE]))
    /\ Local

ServerReads(v) ==
    /\ view[v].req = Unread
    /\ Set(v, [view[v] EXCEPT !.req = tree])
    /\ Local

\* Mutant: any answer ends the gap.
AcceptedAsProof(w, next) ==
    [w EXCEPT !.snap = next, !.required = Undefined, !.error = FALSE, !.gap = "no"]

\* A snapshot ends the gap only if it covers what was required.
Accepted(w, next) ==
    LET required == IF Covers(next, w.required) THEN Undefined ELSE w.required IN
    [w EXCEPT !.snap = next, !.required = required, !.error = FALSE,
              !.gap = IF required = Undefined THEN "no" ELSE "transport"]

\* Mutant: whatever arrives is shown.
ReadSucceedsUnfenced(v) ==
    /\ view[v].req \in Cursors
    /\ Set(v, Finished(Accepted(view[v], view[v].req)))
    /\ Local

ReadSucceeds(v) ==
    /\ view[v].req \in Cursors
    /\ LET w    == view[v]
           next == w.req IN
       Set(v, Finished(IF w.snap # None /\ ~Covers(next, w.snap)
                       THEN [w EXCEPT !.gap = "regression", !.error = FALSE]
                       ELSE Accepted(w, next)))
    /\ Local

\* During a gap a retryable failure keeps the tree and is retried; otherwise only
\* a transport failure leaves it usable.
Failed(w, kind) ==
    IF w.snap # None /\ w.required # Undefined /\ kind # "fatal"
    THEN [w EXCEPT !.error = TRUE, !.gap = "transport", !.timer = TRUE]
    ELSE [w EXCEPT !.error = TRUE, !.snap = IF kind = "retryable" THEN @ ELSE None]

ReadFails(v) ==
    /\ v \in Flaky /\ view[v].req = Unread
    /\ \E kind \in {"retryable", "conflict", "fatal"} :
          Set(v, Finished(Failed(view[v], kind)))
    /\ Local

-----------------------------------------------------------------------------
(* useActorSnapshot: directives.                                            *)

\* The requirement after a directive: the greater cursor, null if they conflict.
Merged(required, cursor) ==
    CASE required = Undefined \/ Covers(cursor, required) -> cursor
      [] Covers(required, cursor)                        -> required
      [] OTHER                                           -> None

\* requireTreeSnapshot.
Require(w, cursor, gap) ==
    LET reading == w.req # None /\ Covers(w.required, cursor)
        noted   == [w EXCEPT !.required = Merged(@, cursor),
                             !.gap = IF gap THEN "transport" ELSE @] IN
    IF ~gap /\ Covers(w.snap, cursor) THEN w
    ELSE IF ~gap /\ reading THEN noted ELSE Ask(noted)

Told(w, control) == Require(w, control.cursor, control.reason = "gap")
ToldGap(w)       == Require(w, w.snap, TRUE)

-----------------------------------------------------------------------------
(* The subscription of a view, and the socket.                              *)

\* close of a subscription: views, channel and command after it.
Leaving(v) ==
    LET last == Listeners = {v} IN
    [views |-> [view EXCEPT ![v].sub = None],
     chan  |-> IF last THEN None ELSE chan,
     send  |-> IF last THEN Unsubscribe ELSE None]

\* Mutant: other views are not told that the shared cursor moved.
JoiningUntold(v, s) ==
    LET c    == view[v].snap
        old  == s.chan
        mine == [s.views[v] EXCEPT !.sub = c]
        new  == [cursor |-> c, gapNotified |-> FALSE, lastControl |-> None] IN
    IF old = None \/ (old # None => Covers(c, old.cursor))
    THEN [views |-> [s.views EXCEPT ![v] = mine], chan |-> new, send |-> Subscribe(c)]
    ELSE [views |-> [s.views EXCEPT ![v] = ToldGap(mine)], chan |-> old, send |-> s.send]

\* subscribeActorTree with the cursor of the view's snapshot.
Joining(v, s) ==
    LET c    == view[v].snap
        old  == s.chan
        mine == [s.views[v] EXCEPT !.sub = c]
        fresh(cursor, gap) == [cursor |-> cursor, gapNotified |-> gap, lastControl |-> None]
        with(me, ch, send) == [views |-> [s.views EXCEPT ![v] = me], chan |-> ch,
                               send |-> send]
        greeted == IF old.gapNotified THEN ToldGap(mine)
                   ELSE IF old.lastControl # None THEN Told(mine, old.lastControl)
                   ELSE mine
        others == [u \in Views |-> IF u = v THEN mine
                                   ELSE IF s.views[u].sub # None THEN Require(s.views[u], c, FALSE)
                                   ELSE s.views[u]]
    IN IF old = None THEN with(mine, fresh(c, FALSE), Subscribe(c))
       ELSE IF old.cursor = c THEN with(greeted, old, None)
       ELSE IF old.cursor = None \/ Covers(c, old.cursor)
       THEN [views |-> others, chan |-> fresh(c, FALSE), send |-> Subscribe(c)]
       ELSE IF Covers(old.cursor, c) THEN with(ToldGap(mine), old, None)
       ELSE with(ToldGap(mine), fresh(None, TRUE), Subscribe(None))

Become(s) ==
    /\ view' = s.views /\ chan' = s.chan
    /\ up' = IF ready /\ s.send # None THEN s.send ELSE up
    /\ UNCHANGED <<tree, serving, down, ready, dropped, swallowed>>

\* The effect of a render that shows another cursor, or none: cleanup and setup.
Resubscribe(v) ==
    LET w    == view[v]
        left == IF w.sub = None THEN [views |-> view, chan |-> chan, send |-> None]
                ELSE Leaving(v) IN
    /\ w.sub # w.snap
    /\ Become(IF w.snap = None THEN left ELSE Joining(v, left))

\* The view closes: cancel and the effect's cleanup.
Close(v) ==
    LET left == Leaving(v)
        s    == IF view[v].sub = None THEN [views |-> view, chan |-> chan, send |-> None]
                ELSE left IN
    /\ view[v].active
    /\ Become([s EXCEPT !.views[v] = Closed])

\* acknowledgeWelcome: subscribeAll, and after a drop a gap for every view.
BecomeReady ==
    /\ ~ready
    /\ ready' = TRUE /\ dropped' = FALSE
    /\ IF chan = None THEN UNCHANGED <<chan, up, view>>
       ELSE /\ up' = Subscribe(chan.cursor)
            /\ IF dropped
               THEN /\ chan' = [chan EXCEPT !.lastControl = None, !.gapNotified = TRUE]
                    /\ view' = [v \in Views |-> IF v \in Listeners THEN ToldGap(view[v])
                                                ELSE view[v]]
               ELSE UNCHANGED <<chan, view>>
    /\ UNCHANGED <<tree, serving, down, swallowed>>

Drop ==
    /\ ready
    /\ ready' = FALSE /\ dropped' = TRUE
    /\ serving' = FALSE /\ up' = None /\ down' = <<>>
    /\ UNCHANGED <<tree, chan, view, swallowed>>

-----------------------------------------------------------------------------
(* handleFrame, branch `tree.`.                                             *)

Received == down # <<>> /\ down' = Tail(down)
            /\ UNCHANGED <<tree, serving, up, ready, dropped, swallowed>>

Orphan == Received /\ chan = None /\ UNCHANGED <<chan, view>>

OnMalformed ==
    /\ Received /\ chan # None
    /\ Head(down) = Malformed
    /\ IF chan.gapNotified THEN UNCHANGED <<chan, view>>
       ELSE /\ chan' = [chan EXCEPT !.gapNotified = TRUE]
            /\ view' = [v \in Views |-> IF v \in Listeners THEN ToldGap(view[v]) ELSE view[v]]

OnControl ==
    /\ Received /\ chan # None
    /\ Head(down) # Malformed
    /\ LET f == Head(down) IN
       IF Covers(chan.cursor, f.cursor) \/ chan.lastControl = f
       THEN UNCHANGED <<chan, view>>
       ELSE /\ chan' = [chan EXCEPT !.lastControl = f, !.gapNotified = FALSE]
            /\ view' = [v \in Views |-> IF v \in Listeners THEN Told(view[v], f) ELSE view[v]]

Deliver == Orphan \/ OnMalformed \/ OnControl

-----------------------------------------------------------------------------
Hook(v) ==
    \/ Open(v) \/ Close(v) \/ Refresh(v)
    \/ RetryFires(v) \/ Resubscribe(v)
    \/ ServerReads(v) \/ ReadSucceeds(v) \/ ReadFails(v)

Next ==
    \/ \E v \in Views : Hook(v)
    \/ Advance \/ ServerReceives
    \/ BecomeReady \/ Drop
    \/ Deliver

Spec == Init /\ [][Next]_vars

-----------------------------------------------------------------------------
(* Properties.                                                              *)

\* Types; a read is owed after the flight only while there is a flight.
TypeOK ==
    /\ tree \in Cursors /\ serving \in BOOLEAN
    /\ up \in {None, Unsubscribe} \cup {Subscribe(c) : c \in Cursors \cup {None}}
    /\ down \in Seq(Directive \cup {Malformed})
    /\ ready \in BOOLEAN /\ dropped \in BOOLEAN /\ swallowed \in BOOLEAN
    /\ chan \in Channel \cup {None}
    /\ view \in [Views -> View]
    /\ \A v \in Views : view[v].trailing => view[v].req # None

Warned(v) == view[v].error \/ view[v].gap # "no"

\* Nothing more will happen by itself.
AtRest(v) ==
    /\ view[v].active /\ view[v].req = None /\ ~view[v].timer
    /\ view[v].sub = view[v].snap
    /\ ready /\ up = None /\ down = <<>>

\* A view at rest shows the current tree or says that it may not
\* (useActorSnapshot.ts:208-226, v2Stream.ts:1121-1125), unless the directive of the
\* last revision was rejected while the channel's gap was already noted.
FreshOrWarned ==
    \A v \in Views : AtRest(v) => view[v].snap = tree \/ Warned(v) \/ swallowed

\* A listener subscribed with less than the shared cursor knows that it is: the wire will not tell it
\* again (v2Stream.ts:1535-1542).
BehindKnowsIt ==
    chan # None =>
        (chan.cursor # None => \A v \in Listeners :
            \/ view[v].sub # view[v].snap \/ Covers(view[v].snap, chan.cursor)
            \/ view[v].required # Undefined
            \/ view[v].req # None \/ Warned(v))

\* While a view stays open, a tree on show is replaced only by one that covers it
\* (useActorSnapshot.ts:82-87).
NeverBack ==
    [][\A v \in Views : view[v].snap # None /\ view'[v].snap # None
                            => Covers(view'[v].snap, view[v].snap)]_vars

\* A transport gap is taken back only by a snapshot that covers the required
\* cursor (useActorSnapshot.ts:17, 90-93).
GapEndsWithProof ==
    [][\A v \in Views :
          view[v].gap = "transport" /\ view'[v].gap = "no" /\ view'[v].active
              => Covers(view'[v].snap, view[v].required)]_vars

\* A read that can prove a gap repaired is not given up: at rest a view that shows
\* a tree requires no cursor the server's tree covers, unless another scope stands
\* in the way (useActorSnapshot.ts:101-116).
NothingOwedAtRest ==
    \A v \in Views :
        AtRest(v) => \/ ~Covers(tree, view[v].required)
                     \/ view[v].snap = None \/ view[v].gap = "regression"

\* What the views promise together: at rest a view is current or says that it may
\* not be, one that joined behind the shared cursor knows it, and no read that
\* could repair a gap was given up.
ViewLaw == FreshOrWarned /\ BehindKnowsIt /\ NothingOwedAtRest
=============================================================================
