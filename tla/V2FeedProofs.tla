---------------------------- MODULE V2FeedProofs ----------------------------
(***************************************************************************)
(* V2Feed, for any number of changes: its types and, for a page that does not *)
(* restart its feed on a live socket, that no change is skipped silently,     *)
(* handed over twice, or covered by the durable cursor without having been    *)
(* applied.                                                                   *)
(*                                                                            *)
(* The proof is about what is in flight.  On one socket the server answers    *)
(* one subscribe, so that the frames to come are an optional reset and then   *)
(* consecutive changes; Before is the change before the first of them, and    *)
(* FeedInv says that the page accounts for all up to there, that the owner    *)
(* was handed nothing after it but the change being applied, and that a       *)
(* reset has not hidden any of it.                                            *)
(******************************************************************************)
EXTENDS V2Feed, SequenceTheorems, TLAPS

ResetFirst == down # <<>> /\ Head(down).type = "reset"

\* The change before the first one in flight.
Before == IF ResetFirst THEN pos - Len(down) + 1 ELSE pos - Len(down)

\* The page has no gap up to n, and nothing up to n is lost to the profile.
Counted(n) == refetch # "failed" /\ ~leapt => \A k \in 1..n : Accounted(k)
Applied(n) == \A k \in 1..n : k \in seen \/ k <= skipped

\* Of a subscription that the server has taken, the frames in flight.
InFlightOK ==
    /\ pos \in 0..head /\ Before \in Nat
    /\ \A i \in 1..Len(down) :
         \/ down[i].type = "event" /\ down[i].seq = pos - Len(down) + i
         \/ down[i].type = "reset" /\ i = 1
    /\ ResetFirst =>
         /\ Head(down).seq = chan.subscribedSince /\ chan.subscribedSince = chan.since
         /\ ~chan.acceptedInSubscription /\ ~chan.resetHandledInSubscription
         /\ Before > chan.since /\ chan.since < pruned /\ Before <= skipped
    /\ chan.postResetFloor # None => Before >= chan.postResetFloor
    /\ Idle => last <= chan.since \/ last <= Before
    /\ ~ResetFirst => Counted(Before)
    /\ Applied(Before)

\* The change whose cursor is not yet written is the first one in flight.
HandlingOK ==
    /\ ~ResetFirst /\ last = Before + 1
    /\ Before + 1 \in know /\ Before + 1 \in seen
    /\ Before + 1 > chan.since

\* Until then, its subscribe is under way with the cursor of the channel.
AskedFor ==
    /\ up = <<Subscribe(chan.since)>> /\ pos = None /\ down = <<>>
    /\ chan.subscribedSince = chan.since
    /\ ~chan.acceptedInSubscription /\ ~chan.resetHandledInSubscription

WireOK ==
    /\ ready => Open
    /\ ~Idle => Listening /\ down # <<>> /\ HandlingOK
    /\ ~ready => pos = None /\ up = <<>> /\ down = <<>> /\ ~Listening
    /\ Listening => AskedFor \/ (up = <<>> /\ InFlightOK)

\* What a page, and the profile, have of the history of the account.
PageOK ==
    /\ ~repeated /\ stored <= head /\ Applied(stored)
    /\ ~Open => last = 0
    /\ Open =>
         /\ chan.since <= head /\ Applied(chan.since)
         /\ chan.postResetFloor # None => chan.postResetFloor < pruned
         /\ Idle => last <= chan.since \/ last < pruned

FeedInv == TypeOK /\ WireOK /\ PageOK /\ NoSilentGap

-----------------------------------------------------------------------------
(* Numbers and cursors.                                                     *)

LEMMA MaxTwo ==
  ASSUME NEW a \in Nat, NEW b \in Nat
  PROVE  Max({a, b}) = IF a >= b THEN a ELSE b
  <1>1. \E x \in {a, b} : \A y \in {a, b} : x >= y
    OBVIOUS
  <1>2. Max({a, b}) \in {a, b} /\ \A y \in {a, b} : Max({a, b}) >= y
    BY <1>1 DEF Max
  <1> QED  BY <1>2

LEMMA Bounds ==
  ASSUME TypeOK
  PROVE  /\ MaxSeq \in Nat /\ None \notin Nat
         /\ head \in Nat /\ pruned \in Nat /\ stored \in Nat /\ last \in Nat
         /\ asked \in Nat /\ asked <= head /\ skipped \in Nat
         /\ writing # None => writing \in Nat
         /\ head <= MaxSeq /\ pruned <= head
         /\ pos # None => pos \in Nat
         /\ chan # None => /\ chan \in Channel /\ chan.since \in Nat
                           /\ chan.subscribedSince # None => chan.subscribedSince \in Nat
                           /\ chan.postResetFloor # None => chan.postResetFloor \in Nat
  BY FeedAssumption DEF TypeOK, Channel

LEMMA FloorOK ==
  ASSUME TypeOK, chan # None
  PROVE  /\ AcceptanceFloor(chan) \in Nat /\ AcceptanceFloor(chan) >= chan.since
         /\ chan.postResetFloor # None => AcceptanceFloor(chan) >= chan.postResetFloor
         /\ AcceptanceFloor(chan) \in {chan.since, chan.postResetFloor}
  BY Bounds, MaxTwo DEF AcceptanceFloor

-----------------------------------------------------------------------------
(* Types.                                                                   *)

\* The assignments the code makes to a channel keep its shape.
LEMMA ChannelsOK ==
  ASSUME TypeOK, NEW n \in 0..MaxSeq
  PROVE  /\ FreshChannel(n) \in Channel /\ Subscribed(FreshChannel(n)) \in Channel
         /\ FreshChannel(n).since = n
         /\ Subscribe(n) \in Command /\ Unsubscribe \in Command
         /\ chan # None => Subscribed(chan) \in Channel
  <1>1. FreshChannel(n) \in Channel /\ FreshChannel(n).since = n
    BY DEF FreshChannel, Channel
  <1>2. ASSUME NEW c \in Channel
        PROVE  Subscribed(c) \in Channel
    BY DEF Subscribed, Channel
  <1>3. Subscribe(n) \in Command /\ Unsubscribe \in Command
    BY Bounds DEF Subscribe, Unsubscribe, Command
  <1> QED  BY <1>1, <1>2, <1>3, Bounds

LEMMA ChangedOK ==
  ASSUME NEW c \in Channel, NEW n \in 0..MaxSeq
  PROVE  /\ [c EXCEPT !.subscribedSince = None] \in Channel
         /\ [c EXCEPT !.deliveryFailed = TRUE, !.subscribedSince = None] \in Channel
         /\ [c EXCEPT !.since = n, !.acceptedInSubscription = TRUE,
                      !.postResetFloor = None] \in Channel
         /\ 0 \in 0..MaxSeq => [c EXCEPT !.since = 0, !.resetHandledInSubscription = TRUE,
                                         !.postResetFloor = n] \in Channel
  BY DEF Channel

LEMMA ServerTypes ==
  ASSUME TypeOK, Commit \/ Prune \/ ServerReceives \/ ServerSends
  PROVE  TypeOK'
  <1>1. CASE Commit \/ Prune
    <2>1. UNCHANGED <<pos, wire, ready, chan, writing, fetch, know, history, profile>>
      BY <1>1 DEF Commit, Prune
    <2>2. head' \in 0..MaxSeq /\ pruned' \in 0..head' /\ asked \in 0..head'
      BY <1>1, Bounds DEF Commit, Prune
    <2> QED  BY <2>1, <2>2 DEF TypeOK, wire, fetch, history, profile
  <1>2. CASE ServerReceives
    <2>1. /\ UNCHANGED <<head, pruned, ready, chan, writing, fetch, know, history, seen, stored>>
          /\ up # <<>> /\ up' = Tail(up)
      BY <1>2 DEF ServerReceives
    <2>2. Head(up) \in Command /\ up' \in Seq(Command)
      BY <2>1 DEF TypeOK
    <2>3. pos' \in 0..MaxSeq \cup {None}
      <3>1. \/ pos' = None
            \/ \E from \in pruned..Head(up).since : pos' = from
            \/ \E from \in {pruned, head} : pos' = from
        BY <1>2 DEF ServerReceives
      <3>2. Head(up).since \in 0..MaxSeq
        BY <2>2 DEF Command
      <3> QED  BY <3>1, <3>2, Bounds
    <2>4. down' \in Seq(Frame)
      <3>1. ResetFrame(Head(up).since) \in Frame
        BY <2>2 DEF ResetFrame, Frame, Command
      <3>2. down' = down \/ down' = Append(down, ResetFrame(Head(up).since))
        BY <1>2 DEF ServerReceives
      <3> QED  BY <3>1, <3>2 DEF TypeOK
    <2>5. skipped' \in 0..MaxSeq
      <3>1. skipped' = skipped \/ \E from \in {pruned, head} : skipped' = Max({skipped, from})
        BY <1>2 DEF ServerReceives
      <3>2. \A from \in {pruned, head} : Max({skipped, from}) \in {skipped, pruned, head}
        BY Bounds, MaxTwo
      <3> QED  BY <3>1, <3>2, Bounds DEF TypeOK
    <2> QED  BY <2>1, <2>2, <2>3, <2>4, <2>5 DEF TypeOK, fetch, history
  <1>3. CASE ServerSends
    <2>1. pos + 1 \in 0..MaxSeq
      BY <1>3, Bounds DEF ServerSends, TypeOK
    <2>2. ChangeFrame(pos + 1) \in Frame
      BY <2>1 DEF ChangeFrame, Frame
    <2> QED  BY <1>3, <2>1, <2>2 DEF ServerSends, TypeOK, fetch, history, profile
  <1> QED  BY <1>1, <1>2, <1>3

LEMMA PageTypes ==
  ASSUME TypeOK, ready => Open,
         \/ OtherPageApplies \/ OtherPageResets \/ OpenPage \/ ClosePage \/ BecomeReady
         \/ Drop \/ Restart \/ RefetchSucceeds \/ RefetchFails
  PROVE  TypeOK'
  <1>1. CASE OtherPageApplies
    <2>1. PICK seq \in 1..head : stored' = seq /\ seen' = seen \cup (1..seq)
      BY <1>1 DEF OtherPageApplies
    <2>2. stored' \in 0..MaxSeq /\ seen' \subseteq Seqs
      BY <2>1, Bounds DEF TypeOK, Seqs
    <2> QED  BY <1>1, <2>2 DEF OtherPageApplies, TypeOK, server, wire, fetch, history
  <1>2. CASE OtherPageResets
    BY <1>2, Bounds DEF OtherPageResets, TypeOK, server, wire, fetch, history
  <1>3. CASE RefetchSucceeds \/ RefetchFails
    <2>1. know' \subseteq Seqs
      <3>1. know' = know \/ know' = know \cup (1..asked)
        BY <1>3 DEF RefetchSucceeds, RefetchFails
      <3>2. 1..asked \subseteq Seqs
        BY Bounds DEF Seqs
      <3> QED  BY <3>1, <3>2 DEF TypeOK
    <2>2. refetch' \in {"none", "pending", "failed"} /\ asked' = 0
      BY <1>3 DEF RefetchSucceeds, RefetchFails
    <2>3. UNCHANGED <<server, wire, ready, chan, writing, history, profile>>
      BY <1>3 DEF RefetchSucceeds, RefetchFails
    <2> QED  BY <2>1, <2>2, <2>3, Bounds DEF TypeOK, server, wire, history, profile
  <1>4. CASE OpenPage
    <2>1. chan' \in Channel
      BY <1>4, ChannelsOK DEF OpenPage, TypeOK
    <2>2. refetch' \in {"none", "pending", "failed"} /\ asked' \in 0..head
      BY <1>4, Bounds DEF OpenPage, AskList
    <2>3. UNCHANGED <<server, wire, ready, writing, know, history, profile>>
      BY <1>4 DEF OpenPage
    <2> QED  BY <2>1, <2>2, <2>3 DEF TypeOK, server, wire, history, profile
  <1>5. CASE ClosePage
    <2>1. up' \in Seq(Command) /\ down' \in Seq(Frame)
      BY <1>5 DEF ClosePage, LoseSocket
    <2>2. /\ ready' \in BOOLEAN /\ leapt' \in BOOLEAN /\ unheard' \in BOOLEAN
          /\ know' \subseteq Seqs
          /\ chan' = None /\ writing' = None /\ pos' = None /\ last' = 0 /\ asked' = 0
          /\ refetch' \in {"none", "pending", "failed"}
      BY <1>5 DEF ClosePage, LoseSocket
    <2>3. UNCHANGED <<head, pruned, repeated, profile>>
      BY <1>5 DEF ClosePage
    <2> QED  BY <2>1, <2>2, <2>3, Bounds DEF TypeOK, profile
  <1>6. CASE Drop
    <2>1. up' \in Seq(Command) /\ down' \in Seq(Frame)
      BY <1>6 DEF Drop, LoseSocket
    <2>2. ready' \in BOOLEAN /\ pos' = None
      BY <1>6 DEF Drop, LoseSocket
    <2>3. chan' \in Channel \cup {None}
      <3>1. chan \in Channel /\ chan' = [chan EXCEPT !.subscribedSince = None]
        BY <1>6 DEF Drop, Open, TypeOK
      <3>2. 0 \in 0..MaxSeq
        BY Bounds
      <3> QED  BY <3>1, <3>2, ChangedOK
    <2>4. UNCHANGED <<head, pruned, writing, fetch, know, history, profile>>
      BY <1>6 DEF Drop
    <2> QED  BY <2>1, <2>2, <2>3, <2>4 DEF TypeOK, fetch, history, profile
  <1>7. CASE BecomeReady
    <2>1. chan # None /\ chan.since \in 0..MaxSeq
      BY <1>7, Bounds DEF BecomeReady, Open, Channel
    <2>2. chan' \in Channel
      <3>1. chan' = chan \/ chan' = Subscribed(chan)
        BY <1>7 DEF BecomeReady
      <3> QED  BY <2>1, <3>1, ChannelsOK, Bounds
    <2>4. up' \in Seq(Command)
      <3>1. up' = up \/ up' = Append(up, Subscribe(chan.since))
        BY <1>7 DEF BecomeReady
      <3>2. Subscribe(chan.since) \in Command
        BY <2>1, ChannelsOK
      <3> QED  BY <3>1, <3>2 DEF TypeOK
    <2>3. /\ ready' \in BOOLEAN
          /\ UNCHANGED <<server, down, writing, fetch, know, history, profile>>
      BY <1>7 DEF BecomeReady
    <2> QED  BY <2>2, <2>3, <2>4 DEF TypeOK, server, fetch, history, profile
  <1>8. CASE Restart
    <2>1. stored \in 0..MaxSeq
      BY DEF TypeOK
    <2>2. chan' \in Channel
      BY <1>8, <2>1, ChannelsOK DEF Restart
    <2>3. up' \in Seq(Command)
      <3>1. Unsubscribe \in Command /\ Subscribe(stored) \in Command
        BY <2>1, ChannelsOK
      <3>2. <<Unsubscribe, Subscribe(stored)>> \in Seq(Command)
        BY <3>1
      <3>3. up' = up \/ up' = up \o <<Unsubscribe, Subscribe(stored)>>
        BY <1>8 DEF Restart
      <3>4. up \in Seq(Command)
        BY DEF TypeOK
      <3> HIDE DEF Command
      <3>5. up \o <<Unsubscribe, Subscribe(stored)>> \in Seq(Command)
        BY <3>2, <3>4, ConcatProperties
      <3> QED  BY <3>3, <3>4, <3>5
    <2>4. /\ last' = 0 /\ leapt' \in BOOLEAN
          /\ UNCHANGED <<server, down, ready, writing, fetch, know, repeated, unheard, profile>>
      BY <1>8 DEF Restart
    <2> QED  BY <2>2, <2>3, <2>4, Bounds DEF TypeOK, server, fetch, profile
  <1> QED  BY <1>1, <1>2, <1>3, <1>4, <1>5, <1>6, <1>7, <1>8

\* Taking a frame.
LEMMA Popped ==
  ASSUME TypeOK, down # <<>>, down' = Tail(down)
  PROVE  /\ down' \in Seq(Frame) /\ Head(down) \in Frame /\ Head(down) = down[1]
         /\ Len(down) \in Nat /\ Len(down') = Len(down) - 1 /\ Len(down) > 0
         /\ \A i \in 1..Len(down') : down'[i] = down[i + 1]
         /\ down' # <<>> => Head(down') = down[2] /\ Len(down) > 1
  BY DEF TypeOK

LEMMA FailTypes ==
  ASSUME TypeOK, NEW c \in Channel, FailDelivery(c)
  PROVE  chan' \in Channel /\ up' \in Seq(Command)
  <1>1. Unsubscribe \in Command
    BY Bounds DEF Unsubscribe, Command
  <1>2. chan' = [c EXCEPT !.deliveryFailed = TRUE, !.subscribedSince = None]
    BY DEF FailDelivery
  <1>3. up' = Append(up, Unsubscribe)
    BY DEF FailDelivery
  <1>4. 0 \in 0..MaxSeq
    BY Bounds
  <1>5. chan' \in Channel
    BY <1>2, <1>4, ChangedOK
  <1> QED  BY <1>1, <1>3, <1>5 DEF TypeOK

LEMMA FrameTypes ==
  ASSUME TypeOK, IgnoreFrame \/ ApplyReset \/ ResetThrows \/ ChangeThrows
  PROVE  TypeOK' /\ (chan # None => chan' # None)
  <1>1. /\ down # <<>> /\ down' = Tail(down) /\ UNCHANGED <<server, ready, writing, know>>
    BY DEF IgnoreFrame, ApplyReset, ResetThrows, ChangeThrows, TakesFrame, Pop
  <1>2. down' \in Seq(Frame) /\ Head(down) \in Frame
    BY <1>1, Popped
  <1>3. Head(down).seq \in 0..MaxSeq /\ Head(down).seq \in Nat
    BY <1>2, Bounds DEF Frame
  <1>4. CASE IgnoreFrame
    <2>1. unheard' \in BOOLEAN
      BY <1>4 DEF IgnoreFrame, TypeOK
    <2> QED  BY <1>1, <1>2, <1>4, <2>1 DEF IgnoreFrame, TypeOK, server, fetch, profile
  <1>5. CASE ApplyReset
    <2>1. chan \in Channel
      BY <1>5, Bounds DEF ApplyReset, Listening, Open
    <2>2. chan' = [chan EXCEPT !.since = 0, !.resetHandledInSubscription = TRUE,
                               !.postResetFloor = Head(down).seq]
      BY <1>5 DEF ApplyReset
    <2>3. chan' \in Channel
      <3>1. 0 \in 0..MaxSeq /\ Head(down).seq \in 0..MaxSeq
        BY <1>3, Bounds
      <3>2. ASSUME NEW n \in 0..MaxSeq
            PROVE  [chan EXCEPT !.since = 0, !.resetHandledInSubscription = TRUE,
                                !.postResetFloor = n] \in Channel
        BY <2>1, <3>1, ChangedOK
      <3> QED  BY <2>2, <3>1, <3>2
    <2>4. refetch' = "pending" /\ asked' = head /\ stored' = 0
      BY <1>5 DEF ApplyReset, AskList
    <2>5. UNCHANGED <<up, history, seen, skipped>>
      BY <1>5 DEF ApplyReset
    <2> QED  BY <1>1, <1>2, <2>3, <2>4, <2>5, NoneAssumption, Bounds DEF TypeOK, server, history
  <1>6. CASE ResetThrows \/ ChangeThrows
    <2>1. chan \in Channel
      BY <1>6, Bounds DEF ResetThrows, ChangeThrows, Listening, Open
    <2>2. chan' \in Channel /\ up' \in Seq(Command)
      BY <1>6, <2>1, FailTypes DEF ResetThrows, ChangeThrows
    <2>3. UNCHANGED <<fetch, history, profile>>
      BY <1>6 DEF ResetThrows, ChangeThrows
    <2> QED  BY <1>1, <1>2, <2>2, <2>3, NoneAssumption DEF TypeOK, server, fetch, history, profile
  <1> QED  BY <1>4, <1>5, <1>6

\* The two steps of a change.
LEMMA ChangeTypes ==
  ASSUME TypeOK, ~Idle => Open /\ down # <<>>, ApplyChange \/ StoreCursor
  PROVE  /\ TypeOK' /\ chan # None /\ chan' # None
         /\ writing' # None => down' # <<>>
  <1>1. chan \in Channel /\ chan # None /\ down # <<>>
    BY Bounds DEF ApplyChange, StoreCursor, TakesFrame, Listening, Open
  <1>2. Head(down) \in Frame /\ Tail(down) \in Seq(Frame)
    BY <1>1 DEF TypeOK
  <1>3. Head(down).seq \in 0..MaxSeq /\ Head(down).seq \in Nat
    BY <1>2, Bounds DEF Frame
  <1>4. CASE ApplyChange
    <2> DEFINE n == Head(down).seq
    <2>1. /\ n > AcceptanceFloor(chan)
          /\ know' = know \cup {n} /\ seen' = seen \cup {n} /\ last' = Max({last, n})
          /\ repeated' = (repeated \/ n <= last) /\ writing' = stored
      BY <1>4 DEF ApplyChange
    <2>2. n \in Seqs
      BY <1>1, <1>3, <2>1, FloorOK, Bounds DEF Seqs
    <2>3. UNCHANGED <<server, wire, ready, chan, fetch, leapt, unheard, skipped, stored>>
      BY <1>4 DEF ApplyChange
    <2> HIDE DEF n
    <2>4. last' \in 0..MaxSeq /\ repeated' \in BOOLEAN
      <3>1. last' \in {last, n} /\ n \in 0..MaxSeq
        BY <2>1, <2>2, Bounds, MaxTwo DEF Seqs
      <3> QED  BY <2>1, <3>1 DEF TypeOK
    <2> QED  BY <1>1, <2>1, <2>2, <2>3, <2>4 DEF TypeOK, server, wire, fetch
  <1>5. CASE StoreCursor
    <2>1. /\ chan' = [chan EXCEPT !.since = Head(down).seq, !.acceptedInSubscription = TRUE,
                                  !.postResetFloor = None]
          /\ stored' = stored \/ stored' = Head(down).seq
          /\ writing' = None /\ down' = Tail(down)
          /\ UNCHANGED <<server, up, ready, fetch, know, history, seen, skipped>>
      BY <1>5 DEF StoreCursor, Pop
    <2>2. chan' \in Channel
      <3>1. ASSUME NEW n \in 0..MaxSeq
            PROVE  [chan EXCEPT !.since = n, !.acceptedInSubscription = TRUE,
                                !.postResetFloor = None] \in Channel
        BY <1>1, ChangedOK
      <3> QED  BY <1>3, <2>1, <3>1
    <2>3. stored' \in 0..MaxSeq
      BY <1>3, <2>1 DEF TypeOK
    <2> QED  BY <1>1, <1>2, <2>1, <2>2, <2>3, NoneAssumption DEF TypeOK, server, fetch, history
  <1> QED  BY <1>4, <1>5

\* What each step leaves of the channel and of the socket.
LEMMA OpenStep ==
  ASSUME TypeOK, ready => Open, ~Idle => Open /\ down # <<>>, Next
  PROVE  (ready' => Open') /\ (~Idle' => Open' /\ down' # <<>>)
  <1>1. CASE Commit \/ Prune \/ OtherPageApplies \/ OtherPageResets
    BY <1>1 DEF Commit, Prune, OtherPageApplies, OtherPageResets, wire, Open, Idle
  <1>2. CASE ServerReceives \/ ServerSends
    <2>1. UNCHANGED <<ready, chan, writing>>
      BY <1>2 DEF ServerReceives, ServerSends
    <2>2. down' = down \/ \E f : down' = Append(down, f)
      BY <1>2 DEF ServerReceives, ServerSends
    <2>3. down # <<>> => down' # <<>>
      BY <2>2 DEF TypeOK
    <2> QED  BY <2>1, <2>3 DEF Open, Idle
  <1>3. CASE OpenPage \/ ClosePage
    <2>1. stored \in 0..MaxSeq
      BY DEF TypeOK
    <2>2. CASE OpenPage
      <3>1. chan' # None /\ writing' = writing
        BY <2>1, <2>2, ChannelsOK, NoneAssumption DEF OpenPage
      <3> QED  BY <2>2, <3>1 DEF OpenPage, Open, Idle
    <2>3. CASE ClosePage
      BY <2>3 DEF ClosePage, LoseSocket, Idle
    <2> QED  BY <1>3, <2>2, <2>3
  <1>4. CASE BecomeReady
    <2>1. chan' = chan \/ chan' = Subscribed(chan)
      BY <1>4 DEF BecomeReady
    <2>2. chan # None /\ 0 \in 0..MaxSeq /\ writing' = None
      BY <1>4, Bounds DEF BecomeReady, Open, Idle
    <2> QED  BY <2>1, <2>2, ChannelsOK, NoneAssumption DEF Open, Idle
  <1>5. CASE Drop
    BY <1>5 DEF Drop, LoseSocket, Idle
  <1>6. CASE Restart
    <2>1. stored \in 0..MaxSeq /\ writing' = None
      BY <1>6 DEF Restart, Idle, TypeOK
    <2> QED  BY <1>6, <2>1, ChannelsOK, NoneAssumption DEF Restart, Open, Idle
  <1>7. CASE RefetchSucceeds \/ RefetchFails
    BY <1>7 DEF RefetchSucceeds, RefetchFails, Open, Idle
  <1>8. CASE IgnoreFrame \/ ApplyReset \/ ResetThrows \/ ChangeThrows
    <2>1. writing' = None /\ UNCHANGED ready
      BY <1>8 DEF IgnoreFrame, ApplyReset, ResetThrows, ChangeThrows, TakesFrame, Idle
    <2> QED  BY <1>8, <2>1, FrameTypes DEF Open, Idle
  <1>9. CASE ApplyChange \/ StoreCursor
    BY <1>9, ChangeTypes DEF Open, Idle
  <1> QED  BY <1>1, <1>2, <1>3, <1>4, <1>5, <1>6, <1>7, <1>8, <1>9 DEF Next

\* A socket is ready, and a change is handled, only while the page is open.
Typed == TypeOK /\ (ready => Open) /\ (~Idle => Open /\ down # <<>>)

LEMMA TypesStep == Typed /\ [Next]_vars => Typed'
  <1> SUFFICES ASSUME Typed, [Next]_vars
               PROVE  Typed'
    OBVIOUS
  <1>1. CASE UNCHANGED vars
    BY <1>1 DEF Typed, TypeOK, vars, server, wire, fetch, history, profile, Open, Idle
  <1>2. CASE Next
    <2>1. TypeOK'
      BY <1>2, ServerTypes, PageTypes, FrameTypes, ChangeTypes DEF Next, Typed
    <2>2. (ready' => Open') /\ (~Idle' => Open' /\ down' # <<>>)
      BY <1>2, OpenStep DEF Typed
    <2> QED  BY <2>1, <2>2 DEF Typed
  <1> QED  BY <1>1, <1>2

LEMMA TypesInit == Init => Typed
  <1> SUFFICES ASSUME Init
               PROVE  Typed
    OBVIOUS
  <1>1. up \in Seq(Command) /\ down \in Seq(Frame)
    BY DEF Init
  <1>2. 0 \in 0..MaxSeq
    BY FeedAssumption
  <1>3. /\ ready \in BOOLEAN /\ repeated \in BOOLEAN /\ leapt \in BOOLEAN /\ unheard \in BOOLEAN
        /\ know \subseteq Seqs /\ seen \subseteq Seqs /\ refetch \in {"none", "pending", "failed"}
    BY DEF Init
  <1>4. /\ head = 0 /\ pruned = 0 /\ stored = 0 /\ last = 0 /\ asked = 0 /\ skipped = 0
        /\ pos = None /\ chan = None /\ writing = None /\ ~ready
    BY DEF Init
  <1> QED  BY <1>1, <1>2, <1>3, <1>4 DEF Typed, TypeOK, Idle

\* Frames, commands, cursors and the channel keep their shapes, whatever is lost,
\* reset or restarted.
THEOREM TypesAlways == Spec => []TypeOK
  <1>1. Typed => TypeOK
    BY DEF Typed
  <1> QED  BY <1>1, TypesInit, TypesStep, PTL DEF Spec

-----------------------------------------------------------------------------
(* What is in flight, and what the page has of it.                          *)

FeedRest == WireOK /\ PageOK /\ NoSilentGap

LEMMA LessNoneOrOne ==
  ASSUME NEW a \in Nat
  PROVE  \A b : (b = 0 => a - b = a) /\ (b = 1 => a - b + 1 = a)
  OBVIOUS

\* Sending a frame.
LEMMA Appended ==
  ASSUME TypeOK, NEW f \in Frame, down' = Append(down, f)
  PROVE  /\ Len(down) \in Nat /\ Len(down') = Len(down) + 1 /\ down' # <<>>
         /\ \A i \in 1..Len(down) : down'[i] = down[i]
         /\ down'[Len(down) + 1] = f
         /\ down # <<>> => Head(down') = Head(down) /\ Len(down) > 0
         /\ down = <<>> => Head(down') = f /\ Len(down) = 0
  BY DEF TypeOK

\* What each assignment to a channel leaves of it.
LEMMA FieldsOf ==
  ASSUME NEW c \in Channel, NEW n \in 0..MaxSeq
  PROVE  /\ Subscribed(c).since = c.since /\ Subscribed(c).subscribedSince = c.since
         /\ ~Subscribed(c).acceptedInSubscription
         /\ ~Subscribed(c).resetHandledInSubscription
         /\ Subscribed(c).postResetFloor = c.postResetFloor
         /\ FreshChannel(n).since = n /\ FreshChannel(n).postResetFloor = None
         /\ FreshChannel(n).subscribedSince = None
  BY DEF Subscribed, FreshChannel, Channel

\* More seen, more known and a longer history keep what there is an account of.
LEMMA CountedMore ==
  ASSUME NEW n \in Nat, TypeOK, leapt' = leapt, skipped' >= skipped, TypeOK',
         know \subseteq know', seen \subseteq seen', unheard => unheard',
         refetch' # "failed" => refetch # "failed",
         refetch = "pending" /\ refetch' # "failed" =>
             \/ refetch' = "pending" /\ asked' >= asked
             \/ 1..asked \subseteq know'
  PROVE  /\ Counted(n) => Counted(n)'
         /\ Applied(n) => Applied(n)'
  <1>1. ASSUME NEW k \in 1..n, refetch' # "failed", Accounted(k)
        PROVE  Accounted(k)'
    <2>1. CASE k \in know \/ (unheard /\ k <= skipped)
      BY <2>1, Bounds DEF Accounted, TypeOK
    <2>2. CASE refetch = "pending" /\ k <= asked
      <3>1. CASE refetch' = "pending" /\ asked' >= asked
        BY <2>2, <3>1, Bounds DEF Accounted, TypeOK
      <3>2. CASE 1..asked \subseteq know'
        <4>1. k \in 1..asked
          BY <2>2, Bounds
        <4> QED  BY <3>2, <4>1 DEF Accounted
      <3> QED  BY <1>1, <2>2, <3>1, <3>2
    <2> QED  BY <1>1, <2>1, <2>2 DEF Accounted
  <1>2. Counted(n) => Counted(n)'
    BY <1>1 DEF Counted
  <1>3. Applied(n) => Applied(n)'
    <2> SUFFICES ASSUME Applied(n), NEW k \in 1..n
                 PROVE  k \in seen' \/ k <= skipped'
      BY DEF Applied
    <2>1. k \in seen \/ k <= skipped
      BY DEF Applied
    <2> QED  BY <2>1, Bounds DEF TypeOK
  <1> QED  BY <1>2, <1>3

\* The server and the other pages move on, or the refetch ends.
LEMMA QuietKeeps ==
  ASSUME TypeOK, FeedRest, TypeOK',
         UNCHANGED <<pos, up, down, ready, chan, writing, last, leapt, unheard, repeated, skipped>>,
         head' >= head, pruned' >= pruned, stored' <= head', Applied(stored)',
         know \subseteq know', seen \subseteq seen',
         refetch' # "failed" => refetch # "failed",
         refetch = "pending" /\ refetch' # "failed" =>
             \/ refetch' = "pending" /\ asked' >= asked
             \/ 1..asked \subseteq know'
  PROVE  FeedRest'
  <1>0. \A n \in Nat : (Counted(n) => Counted(n)') /\ (Applied(n) => Applied(n)')
    BY CountedMore, Bounds
  <1>1. PageOK'
    <2>1. ASSUME Open
          PROVE  /\ chan.since <= head' /\ Applied(chan.since)'
                 /\ chan.postResetFloor # None => chan.postResetFloor < pruned'
                 /\ Idle => last <= chan.since \/ last < pruned'
      <3>1. chan.since \in Nat
        BY <2>1, Bounds DEF Open
      <3> QED  BY <1>0, <2>1, <3>1, Bounds DEF FeedRest, PageOK, Open, TypeOK
    <2> QED  BY <2>1 DEF FeedRest, PageOK, Open, Idle, Applied
  <1>2. NoSilentGap'
    <2> SUFFICES ASSUME Open
                 PROVE  Counted(chan.since)'
      BY DEF NoSilentGap, Open, Counted
    <2>1. chan.since \in Nat /\ Counted(chan.since)
      BY Bounds DEF FeedRest, NoSilentGap, Open, Counted
    <2>2. Counted(chan.since)'
      BY <1>0, <2>1
    <2> QED  BY <2>2
  <1>3. ASSUME Listening, InFlightOK
        PROVE  InFlightOK'
    <2>1. Before' = Before /\ ResetFirst' = ResetFirst
      BY DEF Before, ResetFirst
    <2>2. pos \in Nat /\ Before \in Nat
      BY <1>3, Bounds DEF InFlightOK
    <2>3. Counted(Before) => Counted(Before)'
      <3>1. Counted(Before) => \A k \in 1..Before : refetch' # "failed" /\ ~leapt' => Accounted(k)'
        BY <1>0, <2>2 DEF Counted
      <3> QED  BY <2>1, <3>1 DEF Counted
    <2>4. Applied(Before)'
      <3>1. \A k \in 1..Before : k \in seen' \/ k <= skipped'
        BY <1>0, <1>3, <2>2 DEF Applied, InFlightOK
      <3> QED  BY <2>1, <3>1 DEF Applied
    <2>5. pos \in 0..head'
      BY <1>3, <2>2, Bounds DEF InFlightOK, TypeOK
    <2>6. ResetFirst => chan.since < pruned'
      BY <1>3, Bounds DEF InFlightOK, TypeOK, Listening, Open
    <2> QED  BY <1>3, <2>1, <2>3, <2>4, <2>5, <2>6 DEF InFlightOK, Idle
  <1>4. WireOK'
    <2>1. HandlingOK => HandlingOK'
      BY DEF HandlingOK, Before, ResetFirst
    <2> QED  BY <1>3, <2>1 DEF FeedRest, WireOK, AskedFor, Listening, Open, Idle
  <1> QED  BY <1>1, <1>2, <1>4 DEF FeedRest

LEMMA QuietSteps ==
  ASSUME TypeOK, FeedRest, TypeOK',
         \/ Commit \/ Prune \/ OtherPageApplies \/ OtherPageResets
         \/ RefetchSucceeds \/ RefetchFails
  PROVE  FeedRest'
  <1>1. /\ UNCHANGED <<pos, up, down, ready, chan, writing, last, leapt, unheard, repeated, skipped>>
        /\ head' >= head /\ pruned' >= pruned
    BY Bounds DEF Commit, Prune, OtherPageApplies, OtherPageResets, RefetchSucceeds,
                  RefetchFails, server, wire, history, profile
  <1>2. know \subseteq know' /\ seen \subseteq seen'
    BY DEF Commit, Prune, OtherPageApplies, OtherPageResets, RefetchSucceeds, RefetchFails, profile
  <1>3. stored' <= head' /\ Applied(stored)'
    <2>1. CASE OtherPageApplies
      <3>1. PICK seq \in 1..head : stored' = seq /\ seen' = seen \cup (1..seq)
        BY <2>1 DEF OtherPageApplies
      <3>2. head' = head
        BY <2>1 DEF OtherPageApplies, server
      <3> QED  BY <3>1, <3>2, Bounds DEF Applied
    <2>2. CASE ~OtherPageApplies
      <3>1. (stored' = stored \/ stored' = 0) /\ seen' = seen
        BY <2>2 DEF Commit, Prune, OtherPageResets, RefetchSucceeds, RefetchFails, profile
      <3>2. stored <= head /\ Applied(stored)
        BY DEF FeedRest, PageOK
      <3> QED  BY <1>1, <3>1, <3>2, Bounds DEF TypeOK, Applied
    <2> QED  BY <2>1, <2>2
  <1>4. /\ refetch' # "failed" => refetch # "failed"
        /\ refetch = "pending" /\ refetch' # "failed" =>
             \/ refetch' = "pending" /\ asked' >= asked
             \/ 1..asked \subseteq know'
    BY Bounds DEF Commit, Prune, OtherPageApplies, OtherPageResets, RefetchSucceeds, RefetchFails, fetch
  <1> QED  BY <1>1, <1>2, <1>3, <1>4, QuietKeeps

\* Without a socket nothing is in flight, and only the page's own cursors count.
LEMMA OfflineKeeps ==
  ASSUME TypeOK, FeedRest, TypeOK', writing' = None,
         ~ready', pos' = None, up' = <<>>, down' = <<>>, chan' # None => chan'.subscribedSince = None,
         head' = head, pruned' = pruned, repeated' = repeated, UNCHANGED profile,
         \/ chan' = None /\ last' = 0
         \/ /\ chan' # None /\ chan'.since <= head
            /\ chan'.postResetFloor # None => chan'.postResetFloor < pruned
            /\ last' <= chan'.since \/ last' < pruned
            /\ \A k \in 1..chan'.since : k \in seen \/ k <= skipped
            /\ refetch' # "failed" /\ ~leapt' => \A k \in 1..chan'.since : Accounted(k)'
  PROVE  FeedRest'
  <1>1. ~Listening' /\ Idle'
    BY DEF Listening, Open, Idle
  <1>2. WireOK'
    BY <1>1 DEF WireOK
  <1>3. PageOK'
    BY DEF FeedRest, PageOK, Open, Idle, profile, Applied
  <1>4. NoSilentGap'
    BY DEF NoSilentGap, Open
  <1> QED  BY <1>2, <1>3, <1>4 DEF FeedRest

LEMMA OfflineSteps ==
  ASSUME TypeOK, FeedRest, TypeOK', Restarts # "live",
         OpenPage \/ ClosePage \/ Drop \/ Restart
  PROVE  FeedRest'
  <1>0. /\ stored \in 0..MaxSeq /\ 0 \in 0..MaxSeq /\ stored <= head
        /\ \A k \in 1..stored : k \in seen \/ k <= skipped
    BY Bounds DEF TypeOK, FeedRest, PageOK, Applied
  <1>1. CASE OpenPage
    <2>1. ~ready /\ pos = None /\ up = <<>> /\ down = <<>> /\ last = 0 /\ writing = None
      BY <1>1 DEF OpenPage, FeedRest, WireOK, PageOK, Listening, Idle
    <2>2. /\ chan' = FreshChannel(stored) /\ refetch' = "pending" /\ asked' = head
          /\ UNCHANGED <<server, wire, ready, writing, know, history, profile>>
      BY <1>1 DEF OpenPage, AskList
    <2>3. chan' # None /\ chan'.since = stored /\ chan'.postResetFloor = None /\ chan'.subscribedSince = None
      <3>1. chan' \in Channel
        BY <1>0, <2>2, ChannelsOK
      <3> QED  BY <1>0, <2>2, <3>1, FieldsOf, NoneAssumption
    <2>4. \A k \in 1..chan'.since : Accounted(k)'
      BY <1>0, <2>2, <2>3, Bounds DEF Accounted
    <2>5. last' <= chan'.since
      BY <1>0, <2>1, <2>2, <2>3 DEF history
    <2> QED  BY <1>0, <2>1, <2>2, <2>3, <2>4, <2>5, OfflineKeeps DEF server, wire, history
  <1>2. CASE ClosePage
    BY <1>2, OfflineKeeps DEF ClosePage, LoseSocket
  <1>3. CASE Drop
    <2>1. /\ chan' = [chan EXCEPT !.subscribedSince = None]
          /\ UNCHANGED <<head, pruned, writing, fetch, know, history, profile>> /\ writing = None
      BY <1>3 DEF Drop, Idle
    <2>2. chan # None /\ chan \in Channel
      BY <1>3, Bounds DEF Drop, FeedRest, WireOK, Open
    <2>3. chan' # None /\ chan'.since = chan.since /\ chan'.postResetFloor = chan.postResetFloor
          /\ chan'.subscribedSince = None
      <3>1. chan' \in Channel
        BY <1>0, <2>1, <2>2, ChangedOK
      <3> QED  BY <2>1, <2>2, <3>1, NoneAssumption DEF Channel
    <2>4. ~ready' /\ pos' = None /\ up' = <<>> /\ down' = <<>>
      BY <1>3 DEF Drop, LoseSocket
    <2>5. /\ chan.since <= head
          /\ chan.postResetFloor # None => chan.postResetFloor < pruned
          /\ last <= chan.since \/ last < pruned
          /\ \A k \in 1..chan.since : k \in seen \/ k <= skipped
      BY <2>1, <2>2 DEF FeedRest, PageOK, Open, Idle, Applied
    <2>6. refetch' # "failed" /\ ~leapt' => \A k \in 1..chan'.since : Accounted(k)'
      BY <2>1, <2>2, <2>3 DEF FeedRest, NoSilentGap, Open, Accounted, fetch, history, profile
    <2>7. /\ head' = head /\ pruned' = pruned /\ repeated' = repeated /\ last' = last
          /\ UNCHANGED profile /\ writing' = None
      BY <2>1 DEF history
    <2> QED  BY <2>3, <2>4, <2>5, <2>6, <2>7, OfflineKeeps
  <1>4. CASE Restart
    <2>1. ~ready /\ writing = None
      BY <1>4 DEF Restart, Idle
    <2>2. pos = None /\ up = <<>> /\ down = <<>>
      BY <2>1 DEF FeedRest, WireOK
    <2>3. /\ chan' = FreshChannel(stored) /\ last' = 0 /\ UNCHANGED up
          /\ leapt' = (leapt \/ (stored > chan.since /\ ~(1..stored \subseteq know)))
          /\ UNCHANGED <<server, down, ready, writing, fetch, know, repeated, unheard, profile>>
      BY <1>4, <2>1 DEF Restart
    <2>4. chan' # None /\ chan'.since = stored /\ chan'.postResetFloor = None /\ chan'.subscribedSince = None
      <3>1. chan' \in Channel
        BY <1>0, <2>3, ChannelsOK
      <3> QED  BY <1>0, <2>3, <3>1, FieldsOf, NoneAssumption
    <2>5. ASSUME refetch' # "failed", ~leapt', NEW k \in 1..stored
          PROVE  Accounted(k)'
      <3>1. CASE 1..stored \subseteq know
        BY <2>3, <3>1 DEF Accounted
      <3>2. CASE ~(stored > chan.since)
        <4>1. chan # None /\ chan.since \in Nat /\ ~leapt /\ refetch # "failed"
          BY <1>4, <2>3, <2>5, Bounds DEF Restart, Open, fetch
        <4>2. k \in 1..chan.since
          BY <1>0, <3>2, <4>1, Bounds
        <4>3. Accounted(k)
          BY <4>1, <4>2 DEF FeedRest, NoSilentGap, Open
        <4> QED  BY <2>3, <4>3 DEF Accounted, fetch, profile
      <3> QED  BY <2>3, <2>5, <3>1, <3>2
    <2>6. last' <= chan'.since
      BY <2>3, <2>4, Bounds
    <2>7. /\ ~ready' /\ pos' = None /\ up' = <<>> /\ down' = <<>> /\ writing' = None
          /\ head' = head /\ pruned' = pruned /\ repeated' = repeated /\ UNCHANGED profile
      BY <2>1, <2>2, <2>3 DEF server
    <2> QED  BY <1>0, <2>4, <2>5, <2>6, <2>7, OfflineKeeps
  <1> QED  BY <1>1, <1>2, <1>3, <1>4

\* A step that leaves the cursors and what the page knows alone.
LEMMA PageKeeps ==
  ASSUME TypeOK, FeedRest, WireOK',
         chan # None, chan' # None, chan'.since = chan.since,
         chan'.postResetFloor = chan.postResetFloor,
         UNCHANGED <<server, writing, fetch, know, history, profile>>
  PROVE  FeedRest'
  <1>1. PageOK'
    BY DEF FeedRest, PageOK, Open, Idle, Applied, server, history, profile
  <1>2. NoSilentGap'
    BY DEF FeedRest, NoSilentGap, Open, Accounted, fetch, history, profile
  <1> QED  BY <1>1, <1>2 DEF FeedRest

\* The socket takes the subscribe with the cursor of the channel.
LEMMA ReadyStep ==
  ASSUME TypeOK, FeedRest, TypeOK', BecomeReady
  PROVE  FeedRest'
  <1>1. /\ chan # None /\ chan \in Channel /\ ~ready /\ ready' = TRUE
        /\ UNCHANGED <<server, down, writing, fetch, know, history, profile>> /\ writing = None
    BY Bounds DEF BecomeReady, Open, Idle
  <1>2. pos = None /\ up = <<>> /\ down = <<>>
    BY <1>1 DEF FeedRest, WireOK
  <1>3. CASE chan.deliveryFailed
    <2>1. UNCHANGED <<chan, up>>
      BY <1>3 DEF BecomeReady
    <2>2. ~Listening'
      BY <1>3, <2>1 DEF Listening
    <2>3. WireOK'
      BY <1>1, <2>1, <2>2 DEF WireOK, Open, Idle
    <2> QED  BY <1>1, <2>1, <2>3, PageKeeps
  <1>4. CASE ~chan.deliveryFailed
    <2>1. chan' = Subscribed(chan) /\ up' = Append(up, Subscribe(chan.since))
      BY <1>4 DEF BecomeReady
    <2>2. /\ chan' # None /\ chan'.since = chan.since /\ chan'.subscribedSince = chan.since
          /\ ~chan'.acceptedInSubscription /\ ~chan'.resetHandledInSubscription
          /\ chan'.postResetFloor = chan.postResetFloor
      <3>1. chan' \in Channel /\ 0 \in 0..MaxSeq
        BY <1>1, <2>1, ChannelsOK, Bounds
      <3> QED  BY <1>1, <2>1, <3>1, FieldsOf, NoneAssumption
    <2>3. up' = <<Subscribe(chan'.since)>>
      BY <1>2, <2>1, <2>2
    <2>4. AskedFor'
      BY <1>1, <1>2, <2>2, <2>3 DEF AskedFor, server
    <2>5. WireOK'
      BY <1>1, <2>2, <2>4 DEF WireOK, Open, Idle
    <2> QED  BY <1>1, <2>2, <2>5, PageKeeps
  <1> QED  BY <1>3, <1>4

\* The server answers the subscribe: from a point it retains, or with a reset.
LEMMA ReceivesStep ==
  ASSUME TypeOK, FeedRest, TypeOK', ServerReceives
  PROVE  FeedRest'
  <1>1. /\ UNCHANGED <<head, pruned, ready, chan, writing, fetch, know, history, seen, stored>>
        /\ up # <<>> /\ up' = Tail(up)
    BY DEF ServerReceives
  <1>0. skipped' \in Nat /\ skipped' >= skipped
        /\ \A from \in {pruned, head} : skipped' = Max({skipped, from}) => skipped' >= from
    <2>0. skipped \in Nat /\ skipped' \in Nat /\ pruned \in Nat /\ head \in Nat
      BY Bounds DEF TypeOK
    <2>1. \A from \in {pruned, head} : /\ Max({skipped, from}) >= skipped
                                       /\ Max({skipped, from}) >= from
      BY <2>0, MaxTwo
    <2>2. skipped' = skipped \/ \E from \in {pruned, head} : skipped' = Max({skipped, from})
      BY DEF ServerReceives
    <2>3. skipped' >= skipped
      BY <2>0, <2>1, <2>2
    <2> QED  BY <2>0, <2>1, <2>3
  <1>2. PageOK' /\ NoSilentGap'
    <2>0. /\ leapt' = leapt /\ know' = know /\ seen' = seen /\ unheard' = unheard
          /\ refetch' = refetch /\ asked' = asked
      BY <1>1 DEF history, fetch
    <2>1. \A k \in Nat : /\ k <= skipped => k <= skipped'
                         /\ Accounted(k) => Accounted(k)'
      BY <1>0, <2>0, Bounds DEF Accounted
    <2>2. stored' = stored /\ chan' = chan /\ stored \in Nat /\ (Open => chan.since \in Nat)
      BY <1>1, Bounds DEF Open
    <2>3. \A n \in Nat : Applied(n) => \A k \in 1..n : k \in seen \/ k <= skipped'
      <3> SUFFICES ASSUME NEW n \in Nat, Applied(n), NEW k \in 1..n
                   PROVE  k \in seen \/ k <= skipped'
        OBVIOUS
      <3>1. k \in Nat /\ (k \in seen \/ k <= skipped)
        BY DEF Applied
      <3> QED  BY <2>1, <3>1
    <2>6. Applied(stored) /\ (Open => Applied(chan.since))
      BY DEF FeedRest, PageOK
    <2>4. PageOK'
      <3>1. /\ \A k \in 1..stored : k \in seen' \/ k <= skipped'
            /\ Open => \A k \in 1..chan.since : k \in seen' \/ k <= skipped'
        BY <2>0, <2>2, <2>3, <2>6
      <3>2. Applied(stored)' /\ (Open' => Applied(chan.since)')
        BY <2>2, <3>1 DEF Open, Applied
      <3> QED  BY <1>1, <2>2, <3>2 DEF FeedRest, PageOK, Open, Idle, history
    <2>5. NoSilentGap'
      <3> SUFFICES ASSUME Open', refetch' # "failed", ~leapt', NEW k \in 1..chan'.since
                   PROVE  Accounted(k)'
        BY DEF NoSilentGap
      <3>1. Open /\ refetch # "failed" /\ ~leapt /\ k \in 1..chan.since /\ chan.since \in Nat
        BY <2>0, <2>2 DEF Open
      <3>2. k \in Nat /\ Accounted(k)
        BY <3>1 DEF FeedRest, NoSilentGap
      <3> QED  BY <2>1, <3>2
    <2> QED  BY <2>4, <2>5
  <1>3. ready /\ Open
    BY <1>1 DEF FeedRest, WireOK
  <1>4. ASSUME Listening
        PROVE  up' = <<>> /\ InFlightOK'
    <2>1. AskedFor /\ chan \in Channel /\ chan # None
      BY <1>1, <1>4, Bounds DEF FeedRest, WireOK, Listening, Open
    <2>2. up' = <<>> /\ Head(up) = Subscribe(chan.since)
      BY <1>1, <2>1 DEF AskedFor
    <2>3. Head(up).type = "subscribe" /\ Head(up).since = chan.since /\ down = <<>>
      BY <2>1, <2>2 DEF Subscribe, AskedFor
    <2>0. /\ Head(up).since >= pruned =>
               (\E from \in pruned..Head(up).since : pos' = from) /\ down' = down
          /\ ~(Head(up).since >= pruned) =>
               /\ \E from \in {pruned, head} : pos' = from /\ skipped' = Max({skipped, from})
               /\ down' = Append(down, ResetFrame(Head(up).since))
      <3>1. "subscribe" # "unsubscribe"
        OBVIOUS
      <3>2. Head(up).since \in Nat /\ pruned \in Nat
        BY <2>1, <2>3, Bounds
      <3>3. ~(Head(up).since >= pruned) <=> Head(up).since < pruned
        BY <3>2
      <3> QED  BY <2>3, <3>1, <3>3, Zenon DEF ServerReceives
    <2>4. UNCHANGED <<chan, writing, last, refetch, asked, leapt, unheard, know, seen, head, pruned>>
      BY <1>1 DEF history, fetch
    <2>14. writing = None
      BY <2>3 DEF FeedRest, WireOK, Idle
    <2>5. /\ chan.postResetFloor # None => chan.postResetFloor < pruned
          /\ last <= chan.since \/ last < pruned
          /\ \A k \in 1..chan.since : k \in seen' \/ k <= skipped'
          /\ refetch' # "failed" /\ ~leapt' => \A k \in 1..chan.since : Accounted(k)'
          /\ chan.since <= head
      <3>1. PageOK' /\ NoSilentGap' /\ chan' # None
        BY <1>2, <2>1, <2>4
      <3>2. /\ \A k \in 1..chan'.since : k \in seen' \/ k <= skipped'
            /\ refetch' # "failed" /\ ~leapt' => \A k \in 1..chan'.since : Accounted(k)'
        BY <3>1 DEF PageOK, NoSilentGap, Open, Applied
      <3> QED  BY <2>1, <2>4, <2>14, <3>2 DEF FeedRest, PageOK, Open, Idle
    <2>6. CASE Head(up).since >= pruned
      <3>1. PICK from \in pruned..Head(up).since : pos' = from
        BY <2>0, <2>6
      <3>2. down' = down
        BY <2>0, <2>6
      <3>3. down' = <<>> /\ Len(down') = 0 /\ ~ResetFirst'
        BY <2>3, <3>2 DEF ResetFirst
      <3>4. pos' \in Nat /\ pos' >= pruned /\ pos' <= chan.since
        BY <2>1, <2>3, <3>1, Bounds
      <3>5. Before' = pos'
        <4>1. Before' = pos' - Len(down')
          BY <3>3, Zenon DEF Before
        <4>2. Len(down') = 0 /\ pos' \in Nat
          BY <3>3, <3>4
        <4> QED  BY <4>1, <4>2, LessNoneOrOne, Zenon
      <3>6. Counted(Before)' /\ Applied(Before)'
        <4>1. \A k \in 1..Before' : k \in 1..chan.since
          BY <2>1, <3>4, <3>5, Bounds
        <4> QED  BY <2>5, <4>1 DEF Counted, Applied
      <3>7. pos' \in 0..head'
        BY <2>1, <2>4, <2>5, <3>4, Bounds
      <3>8. last' <= chan'.since \/ last' <= Before'
        BY <2>1, <2>4, <2>5, <3>4, <3>5, Bounds
      <3>9. chan'.postResetFloor # None => Before' >= chan'.postResetFloor
        BY <2>1, <2>4, <2>5, <3>4, <3>5, Bounds
      <3> QED  BY <2>2, <3>3, <3>4, <3>5, <3>6, <3>7, <3>8, <3>9 DEF InFlightOK, Idle
    <2>7. CASE ~(Head(up).since >= pruned)
      <3>1. PICK from \in {pruned, head} : pos' = from /\ skipped' = Max({skipped, from})
        BY <2>0, <2>7
      <3>2. down' = Append(down, ResetFrame(chan.since))
        BY <2>0, <2>7, <2>3
      <3>3. down' = <<ResetFrame(chan.since)>>
        BY <2>3, <3>2
      <3>4. /\ Len(down') = 1 /\ down' # <<>> /\ Head(down') = ResetFrame(chan.since)
            /\ down'[1] = ResetFrame(chan.since)
        BY <3>3
      <3>5. ResetFirst' /\ Head(down').seq = chan.since /\ down'[1].type = "reset"
        BY <3>4 DEF ResetFirst, ResetFrame
      <3>6. pos' \in Nat /\ pos' >= pruned /\ pos' <= head /\ pos' > chan.since
        BY <2>1, <2>3, <2>7, <3>1, Bounds
      <3>7. Before' = pos'
        <4>1. Before' = pos' - Len(down') + 1
          BY <3>5, Zenon DEF Before
        <4>2. Len(down') = 1 /\ pos' \in Nat
          BY <3>4, <3>6
        <4> QED  BY <4>1, <4>2, LessNoneOrOne, Zenon
      <3>8. pos' \in 0..head' /\ chan'.since < pruned' /\ Before' > chan'.since
        BY <2>1, <2>3, <2>4, <2>7, <3>6, <3>7, Bounds
      <3>9. last' <= chan'.since \/ last' <= Before'
        BY <2>1, <2>4, <2>5, <3>6, <3>7, Bounds
      <3>11. Before' <= skipped' /\ Applied(Before)'
        <4>1. Before' <= skipped'
          BY <1>0, <3>1, <3>7
        <4>2. \A k \in 1..Before' : k <= skipped'
          BY <1>0, <3>6, <3>7, <4>1
        <4> QED  BY <4>1, <4>2 DEF Applied
      <3>12. chan'.postResetFloor # None => Before' >= chan'.postResetFloor
        BY <2>1, <2>4, <2>5, <3>6, <3>7, Bounds
      <3>10. /\ Head(down').seq = chan'.subscribedSince /\ chan'.subscribedSince = chan'.since
             /\ ~chan'.acceptedInSubscription /\ ~chan'.resetHandledInSubscription
        BY <2>1, <2>4, <3>5 DEF AskedFor
      <3> QED  BY <3>4, <3>5, <3>6, <3>7, <3>8, <3>9, <3>10, <3>11, <3>12, <2>2 DEF InFlightOK, Idle
    <2> QED  BY <2>6, <2>7
  <1>5. WireOK'
    <2>1. Idle
      <3> SUFFICES ASSUME ~Idle
                   PROVE  FALSE
        OBVIOUS
      <3>1. Listening /\ down # <<>>
        BY DEF FeedRest, WireOK
      <3>2. up = <<>>
        BY <3>1 DEF FeedRest, WireOK, AskedFor
      <3> QED  BY <1>1, <3>2
    <2> QED  BY <1>1, <1>3, <1>4, <2>1 DEF WireOK, Listening, Open, Idle
  <1> QED  BY <1>2, <1>5 DEF FeedRest

\* The server sends the next change.
LEMMA SendsStep ==
  ASSUME TypeOK, FeedRest, TypeOK', ServerSends
  PROVE  FeedRest'
  <1>1. /\ pos # None /\ pos < head /\ pos' = pos + 1
        /\ down' = Append(down, ChangeFrame(pos + 1))
        /\ UNCHANGED <<head, pruned, up, ready, chan, writing, fetch, know, history, profile>>
    BY DEF ServerSends
  <1>2. PageOK' /\ NoSilentGap'
    <2>1. PageOK'
      BY <1>1 DEF FeedRest, PageOK, Open, Idle, Applied, history, profile
    <2>2. NoSilentGap'
      BY <1>1 DEF FeedRest, NoSilentGap, Open, Accounted, fetch, history, profile
    <2> QED  BY <2>1, <2>2
  <1>3. ready /\ Open
    BY <1>1 DEF FeedRest, WireOK
  <1>4. ASSUME Listening
        PROVE  /\ up' = <<>> /\ InFlightOK'
               /\ HandlingOK => HandlingOK'
    <2>1. up = <<>> /\ InFlightOK
      BY <1>1, <1>4 DEF FeedRest, WireOK, AskedFor
    <2>2. pos \in Nat /\ pos + 1 \in 0..head /\ pos + 1 \in 0..MaxSeq
      BY <1>1, Bounds
    <2>3. ChangeFrame(pos + 1) \in Frame /\ ChangeFrame(pos + 1).type = "event"
          /\ ChangeFrame(pos + 1).seq = pos + 1
      BY <2>2 DEF ChangeFrame, Frame
    <2>4. /\ Len(down) \in Nat /\ Len(down') = Len(down) + 1 /\ down' # <<>>
          /\ \A i \in 1..Len(down) : down'[i] = down[i]
          /\ down'[Len(down) + 1] = ChangeFrame(pos + 1)
          /\ down # <<>> => Head(down') = Head(down) /\ Len(down) > 0
          /\ down = <<>> => Head(down') = ChangeFrame(pos + 1) /\ Len(down) = 0
      BY <1>1, <2>3, Appended
    <2>5. ResetFirst' = ResetFirst
      BY <2>3, <2>4 DEF ResetFirst
    <2>6. Before' = Before
      BY <1>1, <2>2, <2>4, <2>5 DEF Before
    <2>7. UNCHANGED <<chan, writing, last, refetch, asked, leapt, unheard, know, seen, skipped, head, pruned>>
      BY <1>1 DEF history, fetch, profile
    <2>8. \A i \in 1..Len(down') :
            \/ down'[i].type = "event" /\ down'[i].seq = pos' - Len(down') + i
            \/ down'[i].type = "reset" /\ i = 1
      <3> TAKE i \in 1..Len(down')
      <3>1. CASE i = Len(down) + 1
        BY <1>1, <2>2, <2>3, <2>4, <3>1
      <3>2. CASE i \in 1..Len(down)
        <4>1. pos' - Len(down') = pos - Len(down)
          BY <1>1, <2>2, <2>4
        <4> QED  BY <2>1, <2>4, <3>2, <4>1 DEF InFlightOK
      <3> QED  BY <2>4, <3>1, <3>2
    <2>9. ResetFirst => Head(down') = Head(down)
      BY <2>4 DEF ResetFirst
    <2>10. pos' \in 0..head'
      BY <1>1, <2>2, <2>7
    <2>11. (Counted(Before) => Counted(Before)') /\ (Applied(Before) => Applied(Before)')
      BY <2>6, <2>7 DEF Counted, Applied, Accounted
    <2>12. InFlightOK'
      BY <1>1, <2>1, <2>5, <2>6, <2>7, <2>8, <2>9, <2>10, <2>11 DEF InFlightOK, Idle
    <2> QED  BY <1>1, <2>1, <2>5, <2>6, <2>7, <2>12 DEF HandlingOK
  <1>5. WireOK'
    <2>1. down # <<>> => down' # <<>>
      BY <1>1 DEF TypeOK
    <2> QED  BY <1>1, <1>3, <1>4, <2>1 DEF FeedRest, WireOK, Listening, Open, Idle
  <1> QED  BY <1>2, <1>5 DEF FeedRest

\* Taking a frame of a subscription leaves only consecutive changes in flight.
LEMMA Taken ==
  ASSUME TypeOK, InFlightOK, down # <<>>, down' = Tail(down), pos' = pos
  PROVE  /\ ~ResetFirst' /\ Before' \in Nat
         /\ \A i \in 1..Len(down') : down'[i].type = "event" /\ down'[i].seq = pos' - Len(down') + i
         /\ ResetFirst => Before' = Before
         /\ ~ResetFirst => /\ Before' = Before + 1
                           /\ Head(down).type = "event" /\ Head(down).seq = Before + 1
  <1>1. /\ Head(down) = down[1] /\ Len(down) \in Nat /\ Len(down') = Len(down) - 1 /\ Len(down) > 0
        /\ \A i \in 1..Len(down') : down'[i] = down[i + 1]
        /\ down' # <<>> => Head(down') = down[2] /\ Len(down) > 1
    BY Popped
  <1>2. pos \in Nat /\ Before \in Nat
    BY Bounds DEF InFlightOK
  <1>3. \A i \in 1..Len(down') : down'[i].type = "event" /\ down'[i].seq = pos' - Len(down') + i
    <2> TAKE i \in 1..Len(down')
    <2>1. i + 1 \in 1..Len(down) /\ i + 1 # 1
      BY <1>1
    <2>2. down[i + 1].type = "event" /\ down[i + 1].seq = pos - Len(down) + (i + 1)
      BY <2>1 DEF InFlightOK
    <2>3. pos - Len(down) + (i + 1) = pos' - Len(down') + i
      BY <1>1, <1>2
    <2> QED  BY <1>1, <2>2, <2>3
  <1>4. ~ResetFirst'
    <2> SUFFICES ASSUME down' # <<>>
                 PROVE  Head(down').type # "reset"
      BY DEF ResetFirst
    <2>1. 2 \in 1..Len(down)
      BY <1>1
    <2>2. down[2].type = "event"
      BY <2>1 DEF InFlightOK
    <2> QED  BY <1>1, <2>2
  <1>5. Before' = pos' - Len(down')
    BY <1>4, Zenon DEF Before
  <1>6. pos' - Len(down') = pos - Len(down) + 1
    BY <1>1, <1>2
  <1>7. ResetFirst => Before' = Before
    BY <1>5, <1>6, Zenon DEF Before
  <1>8. ASSUME ~ResetFirst
        PROVE  /\ Before' = Before + 1
               /\ Head(down).type = "event" /\ Head(down).seq = Before + 1
    <2>1. Before = pos - Len(down)
      BY <1>8, Zenon DEF Before
    <2>2. down[1].type # "reset"
      BY <1>1, <1>8 DEF ResetFirst
    <2>3. 1 \in 1..Len(down)
      BY <1>1
    <2>4. down[1].type = "event" /\ down[1].seq = pos - Len(down) + 1
      BY <2>2, <2>3 DEF InFlightOK
    <2> QED  BY <1>1, <1>5, <1>6, <2>1, <2>4, Zenon
  <1>9. Before' \in Nat
    BY <1>2, <1>7, <1>8
  <1> QED  BY <1>3, <1>4, <1>7, <1>8, <1>9

\* A frame the page does not take: no reset of this subscription, and no change
\* that it does not already reflect.
LEMMA IgnoreStep ==
  ASSUME TypeOK, FeedRest, TypeOK', IgnoreFrame
  PROVE  FeedRest'
  <1>1. /\ down # <<>> /\ down' = Tail(down) /\ writing = None
        /\ UNCHANGED <<server, up, ready, chan, writing, fetch, know, last, repeated, leapt, profile>>
        /\ unheard => unheard'
    BY DEF IgnoreFrame, TakesFrame, Idle, Pop
  <1>2. PageOK' /\ NoSilentGap'
    <2>1. PageOK'
      BY <1>1 DEF FeedRest, PageOK, Open, Idle, Applied, server, profile
    <2>2. NoSilentGap'
      BY <1>1 DEF FeedRest, NoSilentGap, Open, Accounted, fetch, profile
    <2> QED  BY <2>1, <2>2
  <1>3. ready /\ Open
    BY <1>1 DEF FeedRest, WireOK
  <1>4. ASSUME Listening
        PROVE  up' = <<>> /\ InFlightOK'
    <2>1. up = <<>> /\ InFlightOK /\ chan # None /\ chan \in Channel
      BY <1>1, <1>4, Bounds DEF FeedRest, WireOK, AskedFor, Listening, Open
    <2>2. UNCHANGED <<chan, writing, last, refetch, asked, leapt, know, seen, skipped, head, pruned, pos>>
      BY <1>1 DEF fetch, profile, server
    <2>3. /\ ~ResetFirst' /\ Before' \in Nat
          /\ \A i \in 1..Len(down') : down'[i].type = "event" /\ down'[i].seq = pos' - Len(down') + i
          /\ ResetFirst => Before' = Before
          /\ ~ResetFirst => /\ Before' = Before + 1
                            /\ Head(down).type = "event" /\ Head(down).seq = Before + 1
      BY <1>1, <2>1, <2>2, Taken
    <2>10. pos' \in 0..head' /\ up' = <<>> /\ Before \in Nat
      BY <1>1, <2>1, <2>2 DEF InFlightOK
    <2>4. CASE ResetFirst
      <3>1. /\ Head(down).type = "reset" /\ Head(down).seq = chan.subscribedSince
            /\ chan.subscribedSince = chan.since
            /\ ~chan.acceptedInSubscription /\ ~chan.resetHandledInSubscription
            /\ Before > chan.since /\ chan.since < pruned /\ Before <= skipped
        BY <2>1, <2>4 DEF ResetFirst, InFlightOK
      <3>2. chan.since = 0
        <4>1. ~ResetApplies(Head(down).seq)
          BY <1>4, <3>1 DEF IgnoreFrame
        <4> QED  BY <2>1, <3>1, <4>1, Bounds DEF ResetApplies
      <3>3. unheard'
        <4>1. Head(down) \in Frame
          BY <1>1, Popped
        <4>2. Head(down) = ResetFrame(0)
          BY <3>1, <3>2, <4>1 DEF Frame, ResetFrame
        <4> QED  BY <1>4, <3>1, <3>2, <4>2 DEF IgnoreFrame
      <3>4. Counted(Before)'
        <4>1. \A k \in 1..Before' : k <= skipped'
          BY <2>2, <2>3, <2>4, <2>10, <3>1, Bounds
        <4> QED  BY <3>3, <4>1 DEF Counted, Accounted
      <3>5. Applied(Before)'
        BY <2>1, <2>2, <2>3, <2>4 DEF Applied, InFlightOK
      <3>6. chan.postResetFloor # None => Before >= chan.postResetFloor
        BY <2>1 DEF InFlightOK
      <3>7. last' <= chan'.since \/ last' <= Before'
        BY <1>1, <2>1, <2>2, <2>3, <2>4 DEF InFlightOK, Idle
      <3> QED  BY <2>2, <2>3, <2>4, <2>10, <3>4, <3>5, <3>6, <3>7 DEF InFlightOK
    <2>5. CASE ~ResetFirst
      <3>1. Before + 1 <= AcceptanceFloor(chan)
        BY <1>4, <2>3, <2>5 DEF IgnoreFrame
      <3>2. Before + 1 <= chan.since
        <4>1. chan.postResetFloor # None => Before >= chan.postResetFloor
          BY <2>1, <2>5 DEF InFlightOK
        <4> QED  BY <2>1, <2>10, <3>1, <4>1, FloorOK, Bounds
      <3>3. Counted(Before)' /\ Applied(Before)'
        <4>1. \A k \in 1..Before' : k \in 1..chan.since
          BY <2>1, <2>3, <2>5, <2>10, <3>2, Bounds
        <4>2. /\ \A k \in 1..chan'.since : k \in seen' \/ k <= skipped'
              /\ refetch' # "failed" /\ ~leapt' => \A k \in 1..chan'.since : Accounted(k)'
          BY <1>2, <2>1, <2>2 DEF PageOK, NoSilentGap, Open, Applied
        <4> QED  BY <2>2, <4>1, <4>2 DEF Counted, Applied
      <3>4. last' <= chan'.since \/ last' <= Before'
        BY <1>1, <2>1, <2>2, <2>3, <2>5, <2>10, Bounds DEF InFlightOK, Idle
      <3>5. chan'.postResetFloor # None => Before' >= chan'.postResetFloor
        BY <2>1, <2>2, <2>3, <2>5, <2>10, Bounds DEF InFlightOK
      <3> QED  BY <2>2, <2>3, <2>5, <2>10, <3>3, <3>4, <3>5 DEF InFlightOK
    <2> QED  BY <2>4, <2>5
  <1>5. WireOK'
    BY <1>1, <1>3, <1>4 DEF WireOK, Listening, Open, Idle, server
  <1> QED  BY <1>2, <1>5 DEF FeedRest

\* A handler that throws ends the subscription and keeps the cursor.
LEMMA ThrowsStep ==
  ASSUME TypeOK, FeedRest, TypeOK', ResetThrows \/ ChangeThrows
  PROVE  FeedRest'
  <1>1. /\ Listening /\ down # <<>> /\ down' = Tail(down) /\ FailDelivery(chan)
        /\ UNCHANGED <<server, ready, writing, fetch, know, history, profile>> /\ writing = None
    BY DEF ResetThrows, ChangeThrows, TakesFrame, Idle, Pop
  <1>2. chan \in Channel /\ 0 \in 0..MaxSeq /\ chan # None
    BY <1>1, Bounds DEF Listening, Open
  <1>3. chan' = [chan EXCEPT !.deliveryFailed = TRUE, !.subscribedSince = None]
    BY <1>1 DEF FailDelivery
  <1>4. chan' \in Channel /\ chan' # None
    BY <1>2, <1>3, ChangedOK, NoneAssumption
  <1>5. chan'.since = chan.since /\ chan'.postResetFloor = chan.postResetFloor
        /\ chan'.subscribedSince = None
    BY <1>2, <1>3 DEF Channel
  <1>6. ready
    BY <1>1 DEF FeedRest, WireOK
  <1>7. WireOK'
    BY <1>1, <1>4, <1>5, <1>6 DEF WireOK, Listening, Open, Idle
  <1> QED  BY <1>1, <1>2, <1>4, <1>5, <1>7, PageKeeps

\* The reset of this subscription: the floor keeps the cursor it had.
LEMMA ResetStep ==
  ASSUME TypeOK, FeedRest, TypeOK', ApplyReset
  PROVE  FeedRest'
  <1> DEFINE n == Head(down).seq
  <1>1. /\ Listening /\ down # <<>> /\ down' = Tail(down) /\ stored' = 0
        /\ refetch' = "pending" /\ asked' = head
        /\ Head(down).type = "reset"
        /\ chan' = [chan EXCEPT !.since = 0, !.resetHandledInSubscription = TRUE,
                                !.postResetFloor = n]
        /\ UNCHANGED <<server, up, ready, writing, know, history, seen, skipped>> /\ writing = None
    BY DEF ApplyReset, TakesFrame, AskList, Idle, Pop
  <1>2. chan \in Channel /\ chan # None /\ ready /\ Open
    BY <1>1, Bounds DEF Listening, Open, FeedRest, WireOK
  <1>3. up = <<>> /\ InFlightOK /\ ResetFirst
    BY <1>1 DEF FeedRest, WireOK, AskedFor, ResetFirst
  <1>4. /\ n = chan.since /\ Before > chan.since /\ chan.since < pruned
        /\ last <= chan.since \/ last <= Before
        /\ pos \in 0..head /\ Before \in Nat /\ Applied(Before)
    BY <1>1, <1>3 DEF InFlightOK, Idle
  <1>5. n \in Nat /\ n \in 0..MaxSeq /\ 0 \in 0..MaxSeq
    BY <1>2, <1>4, Bounds DEF Channel
  <1> HIDE DEF n
  <1>6. chan' \in Channel /\ chan' # None
    BY <1>1, <1>2, <1>5, ChangedOK, NoneAssumption
  <1>7. /\ chan'.since = 0 /\ chan'.postResetFloor = n
        /\ chan'.deliveryFailed = chan.deliveryFailed /\ chan'.subscribedSince = chan.subscribedSince
    BY <1>1, <1>2 DEF Channel
  <1>8. UNCHANGED <<head, pruned, pos>>
    BY <1>1 DEF server
  <1>9. /\ ~ResetFirst' /\ Before' = Before
        /\ \A i \in 1..Len(down') : down'[i].type = "event" /\ down'[i].seq = pos' - Len(down') + i
    BY <1>1, <1>3, <1>8, Taken
  <1>10. last <= Before
    BY <1>2, <1>4, Bounds
  <1>11. InFlightOK'
    <2>1. last' <= chan'.since \/ last' <= Before'
      BY <1>1, <1>9, <1>10 DEF history
    <2>2. Before' >= chan'.postResetFloor
      BY <1>4, <1>5, <1>7, <1>9, Bounds
    <2>3. Before <= head
      <3>1. Len(down) \in Nat /\ Len(down) >= 1
        BY <1>1, Popped
      <3>2. Before = pos - Len(down) + 1
        BY <1>3, Zenon DEF Before
      <3> QED  BY <1>4, <3>1, <3>2, Bounds
    <2>4. Counted(Before)'
      <3>1. \A k \in 1..Before' : k <= asked'
        BY <1>1, <1>4, <1>9, <2>3, Bounds
      <3> QED  BY <1>1, <3>1 DEF Counted, Accounted
    <2>5. Applied(Before)'
      BY <1>1, <1>4, <1>9 DEF Applied
    <2> QED  BY <1>1, <1>4, <1>8, <1>9, <2>1, <2>2, <2>4, <2>5 DEF InFlightOK
  <1>12. WireOK'
    BY <1>1, <1>2, <1>3, <1>6, <1>11 DEF WireOK, Open, Idle
  <1>13. PageOK'
    <2>1. last < pruned
      <3>1. last <= chan.since \/ last < pruned
        BY <1>1, <1>2 DEF FeedRest, PageOK, Idle
      <3> QED  BY <1>2, <1>4, <3>1, Bounds
    <2>2. last' = last /\ repeated' = repeated
      BY <1>1 DEF history
    <2>3. Applied(0)'
      BY DEF Applied
    <2> QED  BY <1>1, <1>2, <1>4, <1>6, <1>7, <1>8, <2>1, <2>2, <2>3, Bounds
             DEF FeedRest, PageOK, Open, Applied
  <1>14. NoSilentGap'
    BY <1>7 DEF NoSilentGap
  <1> QED  BY <1>12, <1>13, <1>14 DEF FeedRest

\* The next change is the one after all the page accounts for, and new to the
\* owner; until its cursor is written it stays the first in flight.
LEMMA ChangeStep ==
  ASSUME TypeOK, FeedRest, TypeOK', ApplyChange
  PROVE  FeedRest'
  <1> DEFINE n == Head(down).seq
  <1>1. /\ Listening /\ down # <<>> /\ Idle /\ writing' = stored
        /\ Head(down).type = "event" /\ n > AcceptanceFloor(chan)
        /\ know' = know \cup {n} /\ seen' = seen \cup {n} /\ repeated' = (repeated \/ n <= last)
        /\ last' = Max({last, n})
        /\ UNCHANGED <<server, wire, ready, chan, fetch, leapt, unheard, skipped, stored>>
    BY DEF ApplyChange, TakesFrame
  <1>2. chan \in Channel /\ chan # None /\ ready /\ Open
    BY <1>1, Bounds DEF Listening, Open, FeedRest, WireOK
  <1>3. up = <<>> /\ InFlightOK /\ ~ResetFirst
    BY <1>1 DEF FeedRest, WireOK, AskedFor, ResetFirst
  <1>4. Before \in Nat /\ (last <= chan.since \/ last <= Before)
    BY <1>1, <1>3 DEF InFlightOK
  <1>5. n = Before + 1
    <2>1. Len(down) \in Nat /\ Len(down) > 0 /\ Head(down) = down[1]
      BY <1>1 DEF TypeOK
    <2>2. Before = pos - Len(down)
      BY <1>3, Zenon DEF Before
    <2>3. down[1].seq = pos - Len(down) + 1
      BY <1>1, <1>3, <2>1 DEF InFlightOK
    <2> QED  BY <2>1, <2>2, <2>3
  <1> HIDE DEF n
  <1>6. n > chan.since /\ n > last /\ n \in Nat
    BY <1>1, <1>2, <1>4, <1>5, FloorOK, Bounds
  <1>7. last' = n
    BY <1>1, <1>6, MaxTwo, Bounds
  <1>8. Before' = Before /\ ResetFirst' = ResetFirst
    BY <1>1 DEF Before, ResetFirst, server, wire
  <1>9. ~Idle'
    BY <1>1, Bounds DEF Idle
  <1>10. \A k : Accounted(k) => Accounted(k)'
    BY <1>1 DEF Accounted, fetch
  <1>11. \A m : Applied(m) => \A k \in 1..m : k \in seen' \/ k <= skipped'
    BY <1>1 DEF Applied
  <1>12. InFlightOK'
    <2>1. Counted(Before)'
      BY <1>1, <1>3, <1>8, <1>10 DEF InFlightOK, Counted, fetch
    <2>2. Applied(Before)'
      <3>1. Applied(Before)
        BY <1>3 DEF InFlightOK
      <3> QED  BY <1>8, <1>11, <3>1 DEF Applied
    <2> QED  BY <1>1, <1>3, <1>8, <1>9, <2>1, <2>2 DEF InFlightOK, server, wire
  <1>13. HandlingOK'
    BY <1>1, <1>3, <1>5, <1>6, <1>7, <1>8 DEF HandlingOK
  <1>14. WireOK'
    BY <1>1, <1>2, <1>3, <1>12, <1>13 DEF WireOK, Listening, Open, wire
  <1>15. PageOK'
    <2>1. ~repeated'
      <3>1. ~(n <= last) /\ ~repeated
        BY <1>6, Bounds DEF FeedRest, PageOK
      <3> QED  BY <1>1, <3>1, Zenon
    <2>2. Applied(stored)' /\ Applied(chan.since)'
      <3>1. Applied(stored) /\ Applied(chan.since)
        BY <1>2 DEF FeedRest, PageOK
      <3> QED  BY <1>1, <1>11, <3>1 DEF Applied
    <2> QED  BY <1>1, <1>2, <1>9, <2>1, <2>2 DEF FeedRest, PageOK, Open, server, Applied
  <1>16. NoSilentGap'
    BY <1>1, <1>10 DEF FeedRest, NoSilentGap, Open, fetch
  <1> QED  BY <1>14, <1>15, <1>16 DEF FeedRest

\* The cursors move to the change that was applied, and the frame is done.
LEMMA StoreStep ==
  ASSUME TypeOK, FeedRest, TypeOK', StoreCursor
  PROVE  FeedRest'
  <1> DEFINE n == Head(down).seq
  <1>1. /\ ~Idle /\ writing' = None /\ down' = Tail(down)
        /\ stored' = stored \/ stored' = n
        /\ chan' = [chan EXCEPT !.since = n, !.acceptedInSubscription = TRUE,
                                !.postResetFloor = None]
        /\ UNCHANGED <<server, up, ready, fetch, know, history, seen, skipped>>
    BY DEF StoreCursor, Pop
  <1>2. Listening /\ down # <<>> /\ HandlingOK
    BY <1>1 DEF FeedRest, WireOK
  <1>3. chan \in Channel /\ chan # None /\ ready /\ Open
    BY <1>2, Bounds DEF Listening, Open, FeedRest, WireOK
  <1>4. up = <<>> /\ InFlightOK /\ ~ResetFirst
    BY <1>2 DEF FeedRest, WireOK, AskedFor, HandlingOK
  <1>5. UNCHANGED <<head, pruned, pos>>
    BY <1>1 DEF server
  <1>6. /\ ~ResetFirst' /\ Before' = Before + 1 /\ n = Before + 1
        /\ \A i \in 1..Len(down') : down'[i].type = "event" /\ down'[i].seq = pos' - Len(down') + i
    BY <1>1, <1>2, <1>4, <1>5, Taken
  <1>7. /\ pos \in 0..head /\ Before \in Nat /\ Counted(Before) /\ Applied(Before)
    BY <1>4 DEF InFlightOK
  <1>8. n \in Nat /\ n >= 1 /\ n <= head /\ n \in 0..MaxSeq
    <2>1. Len(down) \in Nat /\ Len(down) > 0
      BY <1>2, Popped
    <2>2. Before = pos - Len(down)
      BY <1>4, Zenon DEF Before
    <2>3. n \in Nat /\ n >= 1 /\ n <= pos
      BY <1>6, <1>7, <2>1, <2>2, Bounds
    <2> QED  BY <1>7, <2>3, Bounds
  <1>9. n \in know /\ n \in seen /\ last = n /\ n > chan.since
    BY <1>2, <1>6 DEF HandlingOK
  <1> HIDE DEF n
  <1>10. chan' \in Channel /\ chan' # None
    BY <1>1, <1>3, <1>8, ChangedOK, NoneAssumption
  <1>11. chan'.since = n /\ chan'.postResetFloor = None
         /\ chan'.deliveryFailed = chan.deliveryFailed /\ chan'.subscribedSince = chan.subscribedSince
    BY <1>1, <1>3 DEF Channel
  <1>12. \A k \in 1..n : k \in 1..Before \/ k = n
    BY <1>6, <1>7, <1>8
  <1>13. \A k \in 1..n : k \in seen' \/ k <= skipped'
    BY <1>1, <1>7, <1>9, <1>12 DEF Applied
  <1>14. refetch' # "failed" /\ ~leapt' => \A k \in 1..n : Accounted(k)'
    BY <1>1, <1>7, <1>9, <1>12 DEF Counted, Accounted, fetch, history
  <1>15. last' = n /\ Idle'
    BY <1>1, <1>9 DEF history, Idle
  <1>16. InFlightOK'
    <2>1. Before' = n /\ Before' \in Nat /\ pos' \in 0..head'
      BY <1>5, <1>6, <1>7, <1>8
    <2>2. Counted(Before)' /\ Applied(Before)'
      BY <1>13, <1>14, <2>1 DEF Counted, Applied
    <2>3. last' <= Before'
      BY <1>8, <1>15, <2>1
    <2> QED  BY <1>6, <1>11, <2>1, <2>2, <2>3 DEF InFlightOK
  <1>17. WireOK'
    BY <1>1, <1>3, <1>4, <1>10, <1>15, <1>16 DEF WireOK, Open
  <1>18. PageOK'
    <2>1. stored' <= head' /\ Applied(stored)'
      <3>1. CASE stored' = n
        BY <1>5, <1>8, <1>13, <3>1 DEF Applied
      <3>2. CASE stored' = stored
        BY <1>1, <1>5, <3>2 DEF FeedRest, PageOK, Applied
      <3> QED  BY <1>1, <3>1, <3>2
    <2>2. last' <= chan'.since /\ chan'.since <= head' /\ Applied(chan.since)'
      BY <1>5, <1>8, <1>11, <1>13, <1>15 DEF Applied
    <2>3. ~repeated'
      BY <1>1 DEF history, FeedRest, PageOK
    <2> QED  BY <1>10, <1>11, <2>1, <2>2, <2>3 DEF PageOK, Open
  <1>19. NoSilentGap'
    BY <1>11, <1>14 DEF NoSilentGap
  <1> QED  BY <1>17, <1>18, <1>19 DEF FeedRest

LEMMA FeedStep ==
  ASSUME Restarts # "live"
  PROVE  FeedInv /\ [Next]_vars => FeedInv'
  <1> SUFFICES ASSUME TypeOK, FeedRest, [Next]_vars
               PROVE  FeedInv'
    BY DEF FeedInv, FeedRest
  <1>1. TypeOK'
    BY TypesStep DEF Typed, FeedRest, WireOK, Listening
  <1>2. CASE UNCHANGED vars
    <2>1. UNCHANGED <<pos, up, down, ready, chan, writing, last, leapt, unheard, repeated,
                      skipped, head, pruned, stored, know, seen, refetch, asked>>
      BY <1>2 DEF vars, server, wire, fetch, history, profile
    <2>2. stored <= head /\ Applied(stored)'
      BY <2>1 DEF FeedRest, PageOK, Applied
    <2>3. FeedRest'
      BY <1>1, <2>1, <2>2, QuietKeeps, Bounds
    <2> QED  BY <1>1, <2>3 DEF FeedInv, FeedRest
  <1>3. CASE Next
    <2>1. FeedRest'
      BY <1>1, <1>3, QuietSteps, OfflineSteps, ReadyStep, ReceivesStep, SendsStep, IgnoreStep,
         ThrowsStep, ResetStep, ChangeStep, StoreStep DEF Next
    <2> QED  BY <1>1, <2>1 DEF FeedInv, FeedRest
  <1> QED  BY <1>2, <1>3

LEMMA FeedInit == Init => FeedInv
  <1> SUFFICES ASSUME Init
               PROVE  FeedInv
    OBVIOUS
  <1>1. TypeOK
    BY TypesInit DEF Typed
  <1>2. /\ head = 0 /\ stored = 0 /\ pos = None /\ up = <<>> /\ down = <<>> /\ ready = FALSE
        /\ chan = None /\ last = 0 /\ repeated = FALSE /\ writing = None
    BY DEF Init
  <1>3. ~Open /\ ~Listening /\ Idle
    BY <1>2 DEF Open, Listening, Idle
  <1>4. WireOK
    BY <1>2, <1>3 DEF WireOK
  <1>5. PageOK
    BY <1>2, <1>3 DEF PageOK, Applied
  <1>6. NoSilentGap
    BY <1>3 DEF NoSilentGap
  <1> QED  BY <1>1, <1>4, <1>5, <1>6 DEF FeedInv

\* However often the socket drops, the feed is reset, handlers throw and other
\* pages move the durable cursor, the cursor a page resumes from never passes a
\* change it has no account of (v2Stream.ts handleFrame, accountFeed.ts), as long
\* as no owner restarts its feed on a live socket.
THEOREM NoSilentGapAlways ==
  ASSUME Restarts # "live"
  PROVE  Spec => []NoSilentGap
  <1>1. FeedInv => NoSilentGap
    BY DEF FeedInv
  <1> QED  BY <1>1, FeedInit, FeedStep, PTL DEF Spec

\* Under the same condition one subscription hands each change to its owner at
\* most once, wherever the server starts to replay.
THEOREM HandedOnceAlways ==
  ASSUME Restarts # "live"
  PROVE  Spec => []HandedOnce
  <1>1. FeedInv => HandedOnce
    BY DEF FeedInv, PageOK, HandedOnce
  <1> QED  BY <1>1, FeedInit, FeedStep, PTL DEF Spec

\* Whatever a durable cursor covers some page has applied, or the server had
\* dropped, although pages go away between applying a change and storing its
\* number and the pages of a profile write the cursor unsynchronised.
THEOREM CursorCoveredAlways ==
  ASSUME Restarts # "live"
  PROVE  Spec => []CursorCovered
  <1>1. FeedInv => CursorCovered
    BY DEF FeedInv, PageOK, Applied, CursorCovered
  <1> QED  BY <1>1, FeedInit, FeedStep, PTL DEF Spec

=============================================================================
