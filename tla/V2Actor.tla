------------------------------ MODULE V2Actor ------------------------------
(***************************************************************************)
(* One actor channel of services/chat/v2Stream.ts: the shared cursor of its  *)
(* subscribers, the resume it asks for on every socket, and the proof        *)
(* (actor_replay_complete) that the retained cursor still names the same     *)
(* producer history.                                                        *)
(*                                                                          *)
(* Events carry no content: a subscriber (hooks/useActorSnapshot.ts) reads   *)
(* the authoritative snapshot whenever it is told anything, and keeps the    *)
(* warning of a gap until it subscribes anew.                               *)
(*                                                                          *)
(* The server is external.  A restart of its process closes the socket and   *)
(* begins a new producer epoch whose numbers may coincide with the old ones. *)
(* It may prove what it replays, or be older and prove nothing; it may reset *)
(* a resume, or take the number without looking at the epoch.                *)
(***************************************************************************)
EXTENDS Naturals, Sequences

CONSTANTS
    Readers,       \* subscribers of the channel
    MaxEpoch,      \* bound on producer epochs
    MaxCount,      \* bound on events of one epoch
    MaxCommands,   \* bound on commands in flight
    MaxFrames,     \* bound on frames in flight
    None           \* JavaScript null

ASSUME ActorAssumption ==
    /\ MaxEpoch \in Nat \ {0} /\ MaxCount \in Nat \ {0}
    /\ MaxCommands \in Nat \ {0} /\ MaxFrames \in Nat \ {0}
    /\ None \notin Nat

VARIABLES
    epoch,       \* server: epoch of the producer
    count,       \* server: number of its last event
    serving,     \* server: the socket is subscribed
    up, down,    \* commands and frames in flight
    ready,       \* isSocketReady()
    dropped,     \* droppedSinceOpen
    readers,     \* channel.subscribers
    chan,        \* the ActorChannel, None while there is none
    informed,    \* history: readers told something since the producer last spoke
    warned,      \* readers whose gap warning is latched
    prefix       \* history: epoch and number up to which the readers were handed
                 \* every event since the last reset, <<0, 0>> if there is a hole

server == <<epoch, count, serving>>
told   == <<informed, warned>>
vars   == <<server, up, down, ready, dropped, readers, chan, told, prefix>>

Epochs == 1..MaxEpoch
Counts == 1..MaxCount
Hole   == <<0, 0>>

Resume == [anchorEpoch : Epochs \cup {None}, anchorCursor : Counts \cup {None},
           awaitingReset : BOOLEAN, resetCursor : Counts \cup {None},
           failed : BOOLEAN]

Channel == [cursor : Counts \cup {None}, gapNotified : BOOLEAN,
            lastControl : BOOLEAN, epoch : Epochs \cup {None},
            resume : Resume \cup {None}]

\* null is no object.
ASSUME NoneAssumption == None \notin Resume /\ None \notin Channel

\* Mutant: a new channel resumes from number 0.
FreshChannelFromZero == [cursor |-> 0, gapNotified |-> FALSE, lastControl |-> FALSE,
                         epoch |-> None, resume |-> None]

FreshChannel == [cursor |-> None, gapNotified |-> FALSE, lastControl |-> FALSE,
                 epoch |-> None, resume |-> None]

\* Frames name the epoch they are of (`of`) for the properties; only a proof
\* carries it on the wire.
Event(n)           == [type |-> "event", of |-> epoch, seq |-> n, from |-> None]
Garbled            == [type |-> "garbled", of |-> epoch, seq |-> count, from |-> None]
Control(reason, n) == [type |-> reason, of |-> epoch, seq |-> n, from |-> None]
Proof(from)        == [type |-> "proof", of |-> epoch, seq |-> count, from |-> from]
Subscribe(c)       == [type |-> "subscribe", since |-> c.cursor, epoch |-> c.epoch]
Unsubscribe        == [type |-> "unsubscribe", since |-> None, epoch |-> None]

FrameTypes == {"event", "garbled", "initial", "gap", "proof"}

Init ==
    /\ epoch = 1 /\ count = 1 /\ serving = FALSE
    /\ up = <<>> /\ down = <<>>
    /\ ready = FALSE /\ dropped = FALSE
    /\ readers = {} /\ chan = None
    /\ informed = {} /\ warned = {}
    /\ prefix = Hole

-----------------------------------------------------------------------------
(* The server.                                                              *)

\* A live event; the parser of this client may reject it, or the server asks for
\* a snapshot in its place.
Produce ==
    /\ count < MaxCount
    /\ count' = count + 1
    /\ informed' = {}
    /\ \/ /\ serving /\ Len(down) < MaxFrames
          /\ \E f \in {Event(count + 1), Garbled, Control("gap", count + 1)} :
                 down' = Append(down, f)
       \/ ~serving /\ UNCHANGED down
    /\ UNCHANGED <<epoch, serving, up, ready, dropped, readers, chan, warned, prefix>>

Replay(since) == [i \in 1..(count - since) |-> Event(since + i)]

\* The answers to a subscribe: a replay from the number, if it names retained
\* events, or a reset; with the proof of what was done, or without.
Answers(cmd) ==
    LET ends(from) == {<<>>, <<Proof(from)>>}
        resets     == {<<Control(reason, count)>> \o e :
                         reason \in {"initial", "gap"}, e \in ends(None)}
        replays    == IF cmd.since = None THEN {}
                      ELSE IF cmd.since > count THEN {}
                      ELSE {Replay(cmd.since) \o e : e \in ends(cmd.since)}
    IN resets \cup replays

ServerReceives ==
    /\ up # <<>>
    /\ up' = Tail(up)
    /\ \/ /\ Head(up).type = "unsubscribe"
          /\ serving' = FALSE
          /\ UNCHANGED down
       \/ /\ Head(up).type = "subscribe"
          /\ serving' = TRUE
          /\ \E frames \in Answers(Head(up)) :
                /\ Len(down \o frames) <= MaxFrames
                /\ down' = down \o frames
    /\ UNCHANGED <<epoch, count, ready, dropped, readers, chan, told, prefix>>

-----------------------------------------------------------------------------
(* What the readers are told.                                               *)

TellNobody == UNCHANGED told

\* onEvent, onControl or onGap for the readers in S; gap latches the warning.
Tell(S, gap) ==
    /\ informed' = informed \cup S
    /\ warned' = IF gap THEN warned \cup S ELSE warned

\* notifyActorGap, on the channel; the readers are told unless they were.
GapNoted(c) ==
    [c EXCEPT !.epoch = None, !.gapNotified = TRUE,
              !.resume = IF @ = None THEN None ELSE [@ EXCEPT !.failed = TRUE]]

TellGap(c, S) == IF c.gapNotified THEN TellNobody ELSE Tell(S, TRUE)

-----------------------------------------------------------------------------
(* Subscribing and the socket.                                              *)

\* sendActorSubscribe.
Resumed(c) ==
    [c EXCEPT !.resume = [anchorEpoch |-> c.epoch, anchorCursor |-> c.cursor,
                          awaitingReset |-> TRUE, resetCursor |-> None,
                          failed |-> FALSE]]

\* The resume in flight can be proved, and has a timer.
Anchored(c) == /\ c.resume # None
               /\ c.resume # None => None \notin {c.resume.anchorEpoch, c.resume.anchorCursor}

\* Mutant: a late reader is told the last control, not the gap.
GreetByControl(r) == IF chan.lastControl THEN Tell({r}, FALSE) ELSE TellNobody

\* A late reader is told what the channel already knows.
Greet(r) == IF chan.gapNotified THEN Tell({r}, TRUE)
            ELSE IF chan.lastControl THEN Tell({r}, FALSE)
            ELSE TellNobody

\* subscribeActor.
Join(r) ==
    /\ r \notin readers
    /\ readers' = readers \cup {r}
    /\ \/ /\ chan = None
          /\ IF ready
             THEN /\ Len(up) < MaxCommands
                  /\ chan' = Resumed(FreshChannel)
                  /\ up' = Append(up, Subscribe(FreshChannel))
             ELSE chan' = FreshChannel /\ UNCHANGED up
          /\ TellNobody
       \/ /\ chan # None
          /\ UNCHANGED <<chan, up>>
          /\ Greet(r)
    /\ UNCHANGED <<server, down, ready, dropped, prefix>>

\* close of one subscription; the channel goes with the last.
Leave(r) ==
    /\ r \in readers
    /\ readers' = readers \ {r}
    /\ informed' = informed \ {r} /\ warned' = warned \ {r}
    /\ IF readers = {r}
       THEN /\ chan' = None
            /\ prefix' = Hole
            /\ IF ready
               THEN Len(up) < MaxCommands /\ up' = Append(up, Unsubscribe)
               ELSE UNCHANGED up
       ELSE UNCHANGED <<chan, up, prefix>>
    /\ UNCHANGED <<server, down, ready, dropped>>

\* acknowledgeWelcome: subscribeAll, and after a drop the snapshot fallback for
\* a channel that cannot ask for a proof.
BecomeReady ==
    /\ ~ready
    /\ ready' = TRUE
    /\ dropped' = FALSE
    /\ IF chan = None THEN UNCHANGED <<chan, up, told>>
       ELSE /\ up' = <<Subscribe(chan)>>
            /\ IF dropped /\ ~Anchored(Resumed(chan))
               THEN /\ chan' = [GapNoted(Resumed(chan)) EXCEPT !.cursor = None,
                                                               !.lastControl = FALSE]
                    /\ TellGap(chan, readers)
               ELSE /\ chan' = Resumed(chan)
                    /\ TellNobody
    /\ UNCHANGED <<server, down, readers, prefix>>

\* Mutant: a prefix received in part counts as proved.
InterruptedNever(c) == FALSE

\* The anchored prefix grew on this socket, and no proof came.
Interrupted(c) == /\ c.resume # None
                  /\ c.resume.anchorEpoch # None
                  /\ c.cursor # c.resume.anchorCursor

\* clearSocketLiveness: no resume outlives its socket, and a prefix received in
\* part has not proved its producer.
Disconnected(c) == [IF Interrupted(c) THEN GapNoted(c) ELSE c EXCEPT !.resume = None]

\* The socket fails, or its server process restarts.
Drop ==
    /\ ready
    /\ ready' = FALSE
    /\ dropped' = TRUE
    /\ serving' = FALSE
    /\ up' = <<>> /\ down' = <<>>
    /\ IF chan = None THEN UNCHANGED chan ELSE chan' = Disconnected(chan)
    /\ LET gap == chan # None /\ Interrupted(chan) /\ ~chan.gapNotified IN
       /\ warned' = IF gap THEN readers ELSE warned
       /\ \/ /\ UNCHANGED <<epoch, count>>
             /\ informed' = IF gap THEN readers ELSE informed
          \/ /\ epoch < MaxEpoch
             /\ epoch' = epoch + 1 /\ count' \in Counts
             /\ informed' = {}
    /\ UNCHANGED <<readers, prefix>>

\* Mutant: the timer only forgets the resume.
ReplayTimeoutSilent ==
    /\ ready /\ chan # None
    /\ Anchored(chan)
    /\ chan' = [chan EXCEPT !.resume = None, !.epoch = None]
    /\ TellNobody
    /\ UNCHANGED <<server, up, down, ready, dropped, readers, prefix>>

\* ACTOR_REPLAY_TIMEOUT_MS passed without a proof.
ReplayTimeout ==
    /\ ready /\ chan # None
    /\ Anchored(chan)
    /\ chan' = GapNoted([chan EXCEPT !.resume = None])
    /\ TellGap(chan, readers)
    /\ UNCHANGED <<server, up, down, ready, dropped, readers, prefix>>

-----------------------------------------------------------------------------
(* handleFrame, branch `actor.`.                                            *)

Pop  == down' = Tail(down)
Took == UNCHANGED <<server, up, ready, dropped, readers>>

Orphan ==
    /\ down # <<>> /\ chan = None
    /\ Pop /\ Took
    /\ UNCHANGED <<chan, told, prefix>>

OnGarbled ==
    /\ down # <<>> /\ chan # None
    /\ Head(down).type = "garbled"
    /\ chan' = GapNoted(chan)
    /\ TellGap(chan, readers)
    /\ Pop /\ Took
    /\ UNCHANGED prefix

\* Mutant: any proof of the right numbers will do.
ContinuousByNumber(c, f) ==
    /\ ~c.resume.failed
    /\ c.resume.anchorEpoch # None
    /\ f.from = c.resume.anchorCursor
    /\ c.resume.resetCursor = None
    /\ f.seq = c.cursor

Continuous(c, f) ==
    /\ ~c.resume.failed
    /\ c.resume.anchorEpoch # None
    /\ f.of = c.resume.anchorEpoch
    /\ f.from = c.resume.anchorCursor
    /\ c.resume.resetCursor = None
    /\ f.seq = c.cursor

Baseline(c, f) ==
    /\ f.from = None
    /\ c.resume.resetCursor # None
    /\ f.seq = c.resume.resetCursor
    /\ f.seq = c.cursor

\* replay_complete: only the pending resume can be proved.
OnProof ==
    /\ down # <<>> /\ chan # None
    /\ LET f == Head(down)
           c == [chan EXCEPT !.resume = None] IN
       /\ f.type = "proof"
       /\ IF chan.resume = None THEN UNCHANGED chan /\ TellNobody
          ELSE IF Continuous(chan, f) \/ Baseline(chan, f)
               THEN chan' = [c EXCEPT !.epoch = f.of] /\ TellNobody
               ELSE chan' = GapNoted(c) /\ TellGap(chan, readers)
    /\ Pop /\ Took
    /\ UNCHANGED prefix

\* A delayed control cannot rewind an observed prefix.
StaleControl(c, f) ==
    /\ c.cursor # None
    /\ c.cursor # None => f.seq <= c.cursor
    /\ c.resume # None => ~c.resume.awaitingReset

\* actor_snapshot_required: the reset of this subscription.
OnControl ==
    /\ down # <<>> /\ chan # None
    /\ LET f == Head(down)
           interrupted == chan.resume # None => chan.resume.anchorEpoch # None
           gapped == chan.resume # None /\ interrupted
           r == IF chan.resume = None THEN None
                ELSE [chan.resume EXCEPT !.awaitingReset = FALSE,
                                         !.resetCursor = f.seq]
           c == [chan EXCEPT !.resume = r] IN
       /\ f.type \in {"initial", "gap"}
       /\ IF StaleControl(chan, f) THEN UNCHANGED <<chan, told, prefix>>
          ELSE /\ chan' = [IF gapped THEN GapNoted(c)
                           ELSE [c EXCEPT !.gapNotified = FALSE]
                             EXCEPT !.cursor = f.seq, !.lastControl = TRUE]
               /\ Tell(readers, f.type = "gap" \/ (gapped /\ ~chan.gapNotified))
               /\ prefix' = <<f.of, f.seq>>
    /\ Pop /\ Took

\* actor_changed.
OnEvent ==
    /\ down # <<>> /\ chan # None
    /\ LET f == Head(down)
           c == [chan EXCEPT !.resume = IF @ = None THEN None
                                        ELSE [@ EXCEPT !.awaitingReset = FALSE]]
           jumps == chan.cursor # None => f.seq > chan.cursor + 1
           fresh == chan.cursor # None => f.seq > chan.cursor IN
       /\ f.type = "event"
       /\ IF ~fresh THEN chan' = c /\ UNCHANGED <<told, prefix>>
          ELSE /\ chan' = [IF jumps THEN GapNoted(c) ELSE c EXCEPT !.cursor = f.seq]
               /\ Tell(readers, jumps /\ ~chan.gapNotified)
               /\ prefix' = IF prefix = <<f.of, f.seq - 1>> THEN <<f.of, f.seq>> ELSE Hole
    /\ Pop /\ Took

Deliver == Orphan \/ OnGarbled \/ OnProof \/ OnControl \/ OnEvent

-----------------------------------------------------------------------------
Next ==
    \/ Produce
    \/ ServerReceives
    \/ \E r \in Readers : Join(r) \/ Leave(r)
    \/ BecomeReady
    \/ Drop
    \/ ReplayTimeout
    \/ Deliver

Spec == Init /\ [][Next]_vars

\* The server answers, frames arrive in order while the socket lives, and the
\* replay timer fires.  Nothing forces a reconnect, an event or a reader.
FairSpec ==
    /\ Spec
    /\ WF_vars(ServerReceives) /\ WF_vars(Deliver) /\ WF_vars(ReplayTimeout)

-----------------------------------------------------------------------------
(* Properties.                                                              *)

TypeOK ==
    /\ epoch \in Epochs /\ count \in Counts /\ serving \in BOOLEAN
    /\ up \in Seq([type : {"subscribe", "unsubscribe"},
                   since : Counts \cup {None}, epoch : Epochs \cup {None}])
    /\ down \in Seq([type : FrameTypes, of : Epochs, seq : Counts,
                     from : Counts \cup {None}])
    /\ ready \in BOOLEAN /\ dropped \in BOOLEAN
    /\ readers \subseteq Readers
    /\ chan \in Channel \cup {None}
    /\ informed \subseteq readers /\ warned \subseteq readers
    /\ prefix \in {Hole} \cup (Epochs \X Counts)

\* A certified cursor tells the truth: once no proof is outstanding, an epoch the
\* channel keeps is the one of its last reset, and every event of that epoch up
\* to the cursor was handed to the readers, across any number of reconnects and
\* restarts of the producer (v2Stream.ts:1142-1150).
CertifiedPrefix ==
    chan # None =>
        (chan.epoch # None /\ chan.resume = None => prefix = <<chan.epoch, chan.cursor>>)

\* Nothing is under way between the channel and the server.
Quiet ==
    /\ ready /\ serving /\ up = <<>> /\ down = <<>>
    /\ chan # None
    /\ chan # None => ~Anchored(chan)

\* No event is lost silently: at rest, every reader was told something after the
\* producer's last event, so that its next read covers it, or shows the warning
\* of a gap.
NoSilentLoss ==
    Quiet => readers \subseteq informed \cup warned

\* On a socket that stays up, a reader that is owed something is told, warned or
\* gone in the end: by the event, a reset, a failed proof or the replay timer.
Owed(r)      == r \in readers /\ r \notin informed \cup warned
OwedIsServed == <>[]ready => \A r \in Readers : [](Owed(r) => <>~Owed(r))

\* Panes that share a channel agree about its gap: a reader that joins later is
\* warned as well (v2Stream.ts:1479-1480).
GapSharedByAll ==
    chan # None => (chan.gapNotified => readers \subseteq warned)
=============================================================================
