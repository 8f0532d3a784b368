--------------------------- MODULE V2ActorProofs ---------------------------
(***************************************************************************)
(* V2Actor, for any readers and any bounds: its types, that the readers of   *)
(* a channel agree about its gap, that a certified cursor tells the truth,   *)
(* and that no event is lost without a warning.                              *)
(*                                                                           *)
(* A cursor is certified when a proof arrives, but what makes it true are    *)
(* the resets and events before the proof, on this socket or on earlier      *)
(* ones.  ActorInv therefore says of every anchored channel what its cursor  *)
(* is worth should the producer still be in the anchored epoch (EpochIsTrue),*)
(* and of every pending resume what its reset is worth (ResumeIsTrue).       *)
(* NewsInv, further down, says what is still to come.                        *)
(***************************************************************************)
EXTENDS V2Actor, TLAPS

Frames(e) == [type : FrameTypes, of : {e}, seq : Counts, from : Counts \cup {None}]
Commands  == [type : {"subscribe", "unsubscribe"},
              since : Counts \cup {None}, epoch : Epochs \cup {None}]

WireOK ==
    /\ epoch \in Epochs /\ count \in Counts /\ serving \in BOOLEAN
    /\ up \in Seq(Commands)
    /\ down \in Seq(Frames(epoch))   \* a socket outlives no producer
    /\ ready \in BOOLEAN /\ dropped \in BOOLEAN
    /\ ~ready => up = <<>> /\ down = <<>> /\ ~serving

ReadersOK ==
    /\ readers \subseteq Readers
    /\ informed \subseteq readers /\ warned \subseteq readers

\* The cursor of a channel that keeps the producer's epoch is a certified one.
EpochIsTrue(c) ==
    /\ c.epoch # None => c.epoch <= epoch
    /\ c.epoch = epoch => prefix = <<epoch, c.cursor>>

\* A pending resume keeps the epoch it asked to have proved until it fails.  While
\* nothing came since, the anchored prefix is the one the readers have; while
\* nothing came after its reset, that is.
ResumeIsTrue(c) ==
    c.resume # None =>
        /\ ready
        /\ c.epoch = IF c.resume.failed THEN None ELSE c.resume.anchorEpoch
        /\ c.epoch # None =>
              /\ c.resume.anchorCursor # None
              /\ c.cursor # None /\ c.cursor >= c.resume.anchorCursor
              /\ c.cursor = c.resume.anchorCursor => prefix = <<c.epoch, c.cursor>>
        /\ c.resume.resetCursor # None =>
              /\ c.epoch = None
              /\ c.cursor # None /\ c.cursor >= c.resume.resetCursor
              /\ c.cursor = c.resume.resetCursor => prefix = <<epoch, c.cursor>>

ChannelOK(c) ==
    /\ c \in Channel
    /\ EpochIsTrue(c)
    /\ ResumeIsTrue(c)
    /\ c.epoch # None /\ c.resume = None =>
          prefix = <<c.epoch, c.cursor>> /\ (ready => c.epoch = epoch)
    /\ c.gapNotified => readers \subseteq warned

ActorInv ==
    /\ WireOK /\ ReadersOK
    /\ prefix \in {Hole} \cup (Epochs \X Counts)
    /\ chan # None => ChannelOK(chan)

-----------------------------------------------------------------------------
(* The types of what is sent.                                               *)

LEMMA Numbers ==
  /\ MaxEpoch \in Nat /\ MaxCount \in Nat /\ None \notin Nat
  /\ \A n \in Counts : n \in Nat /\ n # 0
  /\ \A e \in Epochs : e \in Nat /\ e # 0
  /\ None \notin Counts /\ None \notin Epochs
  BY ActorAssumption DEF Counts, Epochs

LEMMA FramesOK ==
  ASSUME epoch \in Epochs, count \in Counts
  PROVE  /\ \A n \in Counts : Event(n) \in Frames(epoch)
         /\ Garbled \in Frames(epoch)
         /\ \A r \in {"initial", "gap"}, n \in Counts : Control(r, n) \in Frames(epoch)
         /\ \A from \in Counts \cup {None} : Proof(from) \in Frames(epoch)
  BY DEF Event, Garbled, Control, Proof, Frames, FrameTypes

LEMMA ReplayOK ==
  ASSUME epoch \in Epochs, count \in Counts, NEW since \in Counts, since <= count
  PROVE  Replay(since) \in Seq(Frames(epoch))
  <1>1. count - since \in Nat
    BY Numbers
  <1>2. \A i \in 1..(count - since) : since + i \in Counts
    BY Numbers DEF Counts
  <1>3. \A i \in 1..(count - since) : Event(since + i) \in Frames(epoch)
    BY <1>2, FramesOK
  <1> QED  BY <1>1, <1>3 DEF Replay

LEMMA OneFrame ==
  ASSUME NEW S, NEW x \in S
  PROVE  <<x>> \in Seq(S)
  OBVIOUS

LEMMA WiderFrames ==
  ASSUME NEW S, NEW T, S \subseteq T, NEW q \in Seq(S)
  PROVE  q \in Seq(T)
  <1>1. Len(q) \in Nat /\ q = [i \in 1..Len(q) |-> q[i]]
    OBVIOUS
  <1>2. \A i \in 1..Len(q) : q[i] \in T
    OBVIOUS
  <1> QED  BY <1>1, <1>2

LEMMA AnswersOK ==
  ASSUME epoch \in Epochs, count \in Counts, NEW cmd \in Commands,
         NEW frames \in Answers(cmd)
  PROVE  frames \in Seq(Frames(epoch))
  <1> DEFINE ends(from) == {<<>>, <<Proof(from)>>}
  <1>1. ASSUME NEW from \in Counts \cup {None}, NEW e \in ends(from)
        PROVE  e \in Seq(Frames(epoch))
    <2>1. Proof(from) \in Frames(epoch)
      BY FramesOK
    <2>2. <<Proof(from)>> \in Seq(Frames(epoch))
      BY <2>1, OneFrame
    <2>3. <<>> \in Seq(Frames(epoch))
      OBVIOUS
    <2> QED  BY <2>2, <2>3
  <1>2. CASE \E reason \in {"initial", "gap"}, e \in ends(None) :
               frames = <<Control(reason, count)>> \o e
    <2>1. PICK reason \in {"initial", "gap"}, e \in ends(None) :
               frames = <<Control(reason, count)>> \o e
      BY <1>2
    <2>2. Control(reason, count) \in Frames(epoch)
      BY FramesOK
    <2>3. <<Control(reason, count)>> \in Seq(Frames(epoch))
      BY <2>2, OneFrame
    <2>4. e \in Seq(Frames(epoch))
      BY <1>1
    <2> QED  BY <2>1, <2>3, <2>4
  <1>3. CASE /\ cmd.since # None /\ ~(cmd.since > count)
             /\ \E e \in ends(cmd.since) : frames = Replay(cmd.since) \o e
    <2>1. PICK e \in ends(cmd.since) : frames = Replay(cmd.since) \o e
      BY <1>3
    <2>2. cmd.since \in Counts /\ cmd.since <= count
      BY <1>3, Numbers DEF Commands
    <2>3. Replay(cmd.since) \in Seq(Frames(epoch))
      BY <2>2, ReplayOK
    <2>4. e \in Seq(Frames(epoch))
      BY <1>1, <2>2
    <2> QED  BY <2>1, <2>3, <2>4
  <1> QED  BY <1>2, <1>3 DEF Answers

-----------------------------------------------------------------------------
(* The channel.                                                             *)

LEMMA GapNotedOK ==
  ASSUME NEW c \in Channel
  PROVE  LET g == GapNoted(c) IN
         /\ g \in Channel /\ g.epoch = None /\ g.gapNotified = TRUE
         /\ g.cursor = c.cursor
         /\ g.resume # None =>
              /\ c.resume # None /\ g.resume.failed = TRUE
              /\ g.resume.resetCursor = c.resume.resetCursor
  BY DEF GapNoted, Channel, Resume

LEMMA ResumedOK ==
  ASSUME NEW c \in Channel
  PROVE  LET r == Resumed(c) IN
         /\ r \in Channel /\ r.epoch = c.epoch /\ r.gapNotified = c.gapNotified
         /\ r.cursor = c.cursor
         /\ r.resume # None /\ r.resume.failed = FALSE
         /\ r.resume.resetCursor = None /\ r.resume.anchorEpoch = c.epoch
         /\ r.resume.anchorCursor = c.cursor
  <1> DEFINE q == [anchorEpoch |-> c.epoch, anchorCursor |-> c.cursor,
                   awaitingReset |-> TRUE, resetCursor |-> None, failed |-> FALSE]
  <1>1. /\ q \in Resume /\ q.failed = FALSE /\ q.resetCursor = None
        /\ q.anchorEpoch = c.epoch /\ q.anchorCursor = c.cursor
    BY DEF Channel, Resume
  <1>2. q # None
    BY <1>1, NoneAssumption
  <1>3. Resumed(c) = [c EXCEPT !.resume = q]
    BY DEF Resumed
  <1> HIDE DEF q
  <1> QED  BY <1>1, <1>2, <1>3 DEF Channel

-----------------------------------------------------------------------------
(* The steps of the server and of the socket.                               *)

\* A step that leaves the channel, the prefix and the readers alone.
LEMMA ServerStepOK ==
  ASSUME ActorInv, Produce \/ ServerReceives
  PROVE  ActorInv'
  <1>1. /\ UNCHANGED <<epoch, ready, dropped, readers, chan, warned, prefix>>
        /\ informed' \subseteq informed
    BY DEF Produce, ServerReceives, told
  <1>2. WireOK'
    <2>1. CASE Produce
      <3>1. count' = count + 1 /\ count' \in Counts /\ count + 1 \in Counts
        BY <2>1, Numbers DEF Produce, ActorInv, WireOK, Counts
      <3>2. UNCHANGED <<epoch, serving, up, ready, dropped>>
        BY <2>1 DEF Produce
      <3>3. \/ down' = down
            \/ serving /\ \E f \in Frames(epoch) : down' = Append(down, f)
        <4>1. Event(count + 1) \in Frames(epoch) /\ Garbled \in Frames(epoch)
              /\ Control("gap", count + 1) \in Frames(epoch)
          BY <3>1, FramesOK DEF ActorInv, WireOK
        <4> QED  BY <2>1, <4>1 DEF Produce
      <3>4. down' \in Seq(Frames(epoch))
        BY <3>3 DEF ActorInv, WireOK
      <3>5. ~ready => down' = <<>>
        BY <3>3 DEF ActorInv, WireOK
      <3> QED  BY <3>1, <3>2, <3>4, <3>5 DEF ActorInv, WireOK
    <2>2. CASE ServerReceives
      <3>1. /\ UNCHANGED <<epoch, count, ready, dropped>>
            /\ up # <<>> /\ up' = Tail(up) /\ serving' \in BOOLEAN
            /\ \/ down' = down
               \/ \E frames \in Answers(Head(up)) : down' = down \o frames
        BY <2>2 DEF ServerReceives
      <3>2. up' \in Seq(Commands) /\ Head(up) \in Commands /\ ready
        BY <3>1 DEF ActorInv, WireOK
      <3>3. down' \in Seq(Frames(epoch))
        <4>1. CASE down' = down
          BY <4>1 DEF ActorInv, WireOK
        <4>2. CASE \E frames \in Answers(Head(up)) : down' = down \o frames
          <5>1. PICK frames \in Answers(Head(up)) : down' = down \o frames
            BY <4>2
          <5>2. frames \in Seq(Frames(epoch))
            BY <3>2, AnswersOK DEF ActorInv, WireOK
          <5> QED  BY <5>1, <5>2 DEF ActorInv, WireOK
        <4> QED  BY <3>1, <4>1, <4>2
      <3> QED  BY <3>1, <3>2, <3>3 DEF ActorInv, WireOK
    <2> QED  BY <2>1, <2>2
  <1>3. chan' # None => ChannelOK(chan)'
    BY <1>1 DEF ActorInv, ChannelOK, EpochIsTrue, ResumeIsTrue
  <1> QED  BY <1>1, <1>2, <1>3 DEF ActorInv, ReadersOK

\* What the socket takes with it: of an anchored prefix only what was proved stays.
LEMMA DisconnectedOK ==
  ASSUME ActorInv, chan # None
  PROVE  LET d == Disconnected(chan) IN
         /\ d \in Channel /\ d.resume = None /\ d.cursor = chan.cursor
         /\ d.lastControl = chan.lastControl
         /\ d.gapNotified = (chan.gapNotified \/ Interrupted(chan))
         /\ d.epoch = None \/ d.epoch = chan.epoch
         /\ d.epoch # None => prefix = <<d.epoch, d.cursor>>
  <1>1. chan \in Channel /\ ChannelOK(chan)
    BY DEF ActorInv, ChannelOK
  <1>2. CASE Interrupted(chan)
    <2> DEFINE g == GapNoted(chan)
    <2>1. g \in Channel /\ g.epoch = None /\ g.gapNotified = TRUE /\ g.cursor = chan.cursor
      BY <1>1, GapNotedOK
    <2>2. g.lastControl = chan.lastControl
      BY <1>1 DEF GapNoted, Channel
    <2> HIDE DEF g
    <2>3. Disconnected(chan) = [g EXCEPT !.resume = None]
      BY <1>2 DEF Disconnected, g
    <2> QED  BY <1>1, <1>2, <2>1, <2>2, <2>3 DEF Channel
  <1>3. CASE ~Interrupted(chan)
    <2>1. Disconnected(chan) = [chan EXCEPT !.resume = None]
      BY <1>3 DEF Disconnected
    <2>2. chan.epoch # None => prefix = <<chan.epoch, chan.cursor>>
      BY <1>1, <1>3 DEF Interrupted, ChannelOK, ResumeIsTrue
    <2>3. Interrupted(chan) \in BOOLEAN
      BY DEF Interrupted
    <2> QED  BY <1>1, <1>3, <2>1, <2>2, <2>3 DEF Channel
  <1> QED  BY <1>2, <1>3

LEMMA DropOK ==
  ASSUME ActorInv, Drop
  PROVE  ActorInv'
  <1>1. /\ ready' = FALSE /\ dropped' = TRUE /\ serving' = FALSE
        /\ up' = <<>> /\ down' = <<>>
        /\ UNCHANGED <<readers, prefix>>
        /\ epoch' \in Epochs /\ count' \in Counts
        /\ epoch' = epoch \/ epoch' = epoch + 1
    BY Numbers DEF Drop, ActorInv, WireOK, Epochs
  <1>2. WireOK'
    <2>1. up' \in Seq(Commands) /\ down' \in Seq(Frames(epoch'))
      BY <1>1
    <2> QED  BY <1>1, <2>1 DEF WireOK
  <1>3. /\ ReadersOK' /\ warned \subseteq warned'
        /\ chan # None => (Interrupted(chan) /\ ~chan.gapNotified => readers \subseteq warned')
    BY <1>1 DEF Drop, ActorInv, ReadersOK
  <1>4. chan' # None => ChannelOK(chan)'
    <2> SUFFICES ASSUME chan' # None PROVE ChannelOK(chan)'
      OBVIOUS
    <2>1. chan # None /\ chan' = Disconnected(chan)
      BY DEF Drop
    <2> DEFINE d == Disconnected(chan)
    <2>2. /\ d \in Channel /\ d.resume = None
          /\ d.gapNotified = (chan.gapNotified \/ Interrupted(chan))
          /\ d.epoch = None \/ d.epoch = chan.epoch
          /\ d.epoch # None => prefix = <<d.epoch, d.cursor>>
      BY <2>1, DisconnectedOK
    <2> HIDE DEF d
    <2>3. chan' = d
      BY <2>1 DEF d
    <2>4. EpochIsTrue(chan) /\ epoch \in Epochs /\ (chan.gapNotified => readers \subseteq warned)
      BY <2>1 DEF ActorInv, WireOK, ChannelOK
    <2>5. EpochIsTrue(chan)'
      BY <1>1, <2>2, <2>3, <2>4, Numbers DEF EpochIsTrue, Channel
    <2>6. chan'.gapNotified => readers' \subseteq warned'
      BY <1>1, <1>3, <2>1, <2>2, <2>3, <2>4
    <2> QED  BY <1>1, <2>2, <2>3, <2>5, <2>6 DEF ChannelOK, ResumeIsTrue
  <1> QED  BY <1>1, <1>2, <1>3, <1>4 DEF ActorInv

\* The socket becomes ready: every channel asks for its resume.
LEMMA BecomeReadyOK ==
  ASSUME ActorInv, BecomeReady
  PROVE  ActorInv'
  <1>1. /\ ~ready /\ ready' = TRUE /\ dropped' = FALSE
        /\ UNCHANGED <<epoch, count, serving, down, readers, prefix>>
    BY DEF BecomeReady, server
  <1>2. CASE chan = None
    <2>1. UNCHANGED <<chan, up, informed, warned>>
      BY <1>2 DEF BecomeReady, told
    <2>2. WireOK'
      BY <1>1, <2>1 DEF ActorInv, WireOK
    <2> QED  BY <1>1, <1>2, <2>1, <2>2 DEF ActorInv, ReadersOK
  <1>3. CASE chan # None
    <2> DEFINE c == Resumed(chan)
    <2>1. ChannelOK(chan) /\ chan \in Channel /\ epoch \in Epochs
      BY <1>3 DEF ActorInv, WireOK, ChannelOK
    <2>2. /\ c \in Channel /\ c.epoch = chan.epoch /\ c.gapNotified = chan.gapNotified
          /\ c.cursor = chan.cursor
          /\ c.resume # None /\ c.resume.failed = FALSE
          /\ c.resume.resetCursor = None /\ c.resume.anchorEpoch = chan.epoch
          /\ c.resume.anchorCursor = chan.cursor
      BY <2>1, ResumedOK
    <2>3. up' = <<Subscribe(chan)>>
      BY <1>3 DEF BecomeReady
    <2>4. WireOK'
      <3>1. Subscribe(chan) \in Commands
        BY <2>1 DEF Subscribe, Commands, Channel
      <3>2. up' \in Seq(Commands)
        BY <2>3, <3>1, OneFrame
      <3> QED  BY <1>1, <3>2 DEF ActorInv, WireOK
    <2> HIDE DEF c
    <2>5. CASE /\ chan' = [GapNoted(c) EXCEPT !.cursor = None, !.lastControl = FALSE]
               /\ TellGap(chan, readers)
      <3>1. /\ informed' \subseteq readers /\ warned' \subseteq readers
            /\ readers \subseteq warned'
        BY <2>1, <2>5 DEF TellGap, TellNobody, Tell, told, ActorInv, ReadersOK, ChannelOK
      <3> DEFINE g == GapNoted(c)
      <3>2. /\ g \in Channel /\ g.epoch = None /\ g.gapNotified = TRUE
            /\ g.resume # None => g.resume.failed = TRUE /\ g.resume.resetCursor = None
        BY <2>2, GapNotedOK
      <3> HIDE DEF g
      <3>3. chan' = [g EXCEPT !.cursor = None, !.lastControl = FALSE]
        BY <2>5 DEF g
      <3>4. /\ chan' \in Channel /\ chan'.epoch = None
            /\ chan'.resume # None => chan'.resume.failed = TRUE /\ chan'.resume.resetCursor = None
        BY <3>2, <3>3 DEF Channel
      <3>5. ChannelOK(chan)'
        BY <1>1, <2>1, <3>1, <3>4, Numbers DEF ChannelOK, EpochIsTrue, ResumeIsTrue
      <3> QED  BY <1>1, <2>4, <3>1, <3>5 DEF ActorInv, ReadersOK
    <2>6. CASE chan' = c /\ TellNobody
      <3>0. chan.epoch # None =>
              prefix = <<chan.epoch, chan.cursor>> /\ chan.cursor \in Counts
        <4>1. chan.epoch # None => prefix = <<chan.epoch, chan.cursor>>
          BY <1>1, <2>1 DEF ChannelOK, ResumeIsTrue
        <4>2. chan.epoch # None => prefix # Hole
          BY <2>1, <4>1, Numbers DEF Channel, Hole
        <4> QED  BY <4>1, <4>2 DEF ActorInv
      <3>2. /\ chan' = c /\ UNCHANGED <<informed, warned>>
            /\ chan' \in Channel /\ chan'.epoch = chan.epoch /\ chan'.cursor = chan.cursor
            /\ chan'.gapNotified = chan.gapNotified
        BY <2>2, <2>6 DEF TellNobody, told
      <3>3. EpochIsTrue(chan)'
        BY <1>1, <2>1, <3>2 DEF ChannelOK, EpochIsTrue
      <3>4. ResumeIsTrue(chan)'
        BY <1>1, <2>2, <3>0, <3>2, Numbers DEF ResumeIsTrue
      <3>1. ChannelOK(chan)'
        BY <1>1, <2>1, <2>2, <3>2, <3>3, <3>4 DEF ChannelOK
      <3> QED  BY <1>1, <2>4, <2>6, <3>1 DEF ActorInv, ReadersOK, TellNobody, told
    <2> QED  BY <1>3, <2>5, <2>6 DEF BecomeReady, c
  <1> QED  BY <1>2, <1>3

\* The replay timer gives the resume up.
LEMMA ReplayTimeoutOK ==
  ASSUME ActorInv, ReplayTimeout
  PROVE  ActorInv'
  <1> DEFINE c == [chan EXCEPT !.resume = None]
  <1>1. /\ chan # None /\ chan' = GapNoted(c) /\ TellGap(chan, readers)
        /\ UNCHANGED <<epoch, count, serving, up, down, ready, dropped, readers, prefix>>
    BY DEF ReplayTimeout, server
  <1>2. ChannelOK(chan) /\ epoch \in Epochs
    BY <1>1 DEF ActorInv, WireOK
  <1>3. c \in Channel /\ c.resume = None
    BY <1>2 DEF ChannelOK, Channel
  <1>4. /\ informed' \subseteq readers /\ warned' \subseteq readers
        /\ readers \subseteq warned'
    BY <1>1, <1>2 DEF TellGap, TellNobody, Tell, told, ActorInv, ReadersOK, ChannelOK
  <1> HIDE DEF c
  <1> DEFINE g == GapNoted(c)
  <1>5. /\ g \in Channel /\ g.epoch = None /\ g.resume = None
    BY <1>3, GapNotedOK
  <1> HIDE DEF g
  <1>6. chan' = g
    BY <1>1 DEF g
  <1>7. ChannelOK(chan)'
    BY <1>1, <1>2, <1>4, <1>5, <1>6, Numbers DEF ChannelOK, EpochIsTrue, ResumeIsTrue
  <1> QED  BY <1>1, <1>4, <1>7 DEF ActorInv, WireOK, ReadersOK

-----------------------------------------------------------------------------
(* The readers.                                                             *)

LEMMA JoinOK ==
  ASSUME ActorInv, NEW r \in Readers, Join(r)
  PROVE  ActorInv'
  <1>1. /\ readers' = readers \cup {r}
        /\ UNCHANGED <<epoch, count, serving, down, ready, dropped, prefix>>
    BY DEF Join, server
  <1>2. CASE chan = None
    <2>1. TellNobody
      BY <1>2 DEF Join
    <2>2. /\ \/ ready /\ chan' = Resumed(FreshChannel) /\ up' = Append(up, Subscribe(FreshChannel))
             \/ chan' = FreshChannel /\ up' = up
      BY <1>2 DEF Join
    <2>3. Subscribe(FreshChannel) \in Commands
      BY DEF Subscribe, FreshChannel, Commands
    <2>4. WireOK'
      BY <1>1, <2>2, <2>3 DEF ActorInv, WireOK
    <2> DEFINE c == FreshChannel
    <2>5. c \in Channel /\ c.epoch = None /\ c.resume = None /\ c.gapNotified = FALSE
      BY DEF FreshChannel, Channel
    <2> HIDE DEF c
    <2>6. /\ chan' \in Channel /\ chan'.epoch = None /\ chan'.gapNotified = FALSE
          /\ chan'.resume # None => /\ ready'
                                    /\ chan'.resume.resetCursor = None
                                    /\ chan'.resume.anchorEpoch = None
      BY <1>1, <2>2, <2>5, ResumedOK DEF c
    <2>7. ChannelOK(chan)'
      BY <1>1, <2>6, Numbers DEF ActorInv, WireOK, ChannelOK, EpochIsTrue, ResumeIsTrue
    <2> QED  BY <1>1, <2>1, <2>4, <2>7 DEF ActorInv, ReadersOK, TellNobody, told
  <1>3. CASE chan # None
    <2>1. UNCHANGED <<chan, up>> /\ Greet(r)
      BY <1>3 DEF Join
    <2>2. /\ informed' \subseteq readers' /\ warned' \subseteq readers' /\ warned \subseteq warned'
          /\ chan.gapNotified => r \in warned'
      BY <1>1, <2>1 DEF Greet, Tell, TellNobody, told, ActorInv, ReadersOK
    <2>3. ChannelOK(chan)'
      BY <1>1, <1>3, <2>1, <2>2 DEF ActorInv, ChannelOK, EpochIsTrue, ResumeIsTrue
    <2> QED  BY <1>1, <2>1, <2>2, <2>3 DEF ActorInv, WireOK, ReadersOK
  <1> QED  BY <1>2, <1>3

LEMMA LeaveOK ==
  ASSUME ActorInv, NEW r \in Readers, Leave(r)
  PROVE  ActorInv'
  <1>1. /\ readers' = readers \ {r} /\ informed' = informed \ {r} /\ warned' = warned \ {r}
        /\ UNCHANGED <<epoch, count, serving, down, ready, dropped>>
        /\ \/ chan' = None /\ prefix' = Hole
           \/ UNCHANGED <<chan, prefix>>
        /\ up' = up \/ (ready /\ up' = Append(up, Unsubscribe))
    BY DEF Leave, server
  <1>2. WireOK'
    <2>1. Unsubscribe \in Commands
      BY DEF Unsubscribe, Commands
    <2> QED  BY <1>1, <2>1 DEF ActorInv, WireOK
  <1>3. chan' # None => ChannelOK(chan)'
    BY <1>1 DEF ActorInv, ChannelOK, EpochIsTrue, ResumeIsTrue
  <1> QED  BY <1>1, <1>2, <1>3 DEF ActorInv, ReadersOK

-----------------------------------------------------------------------------
(* The frames.                                                              *)

\* What a frame finds: the socket it came over is of this producer.
LEMMA FrameOK ==
  ASSUME ActorInv, down # <<>>, down' = Tail(down),
         UNCHANGED <<server, up, ready, dropped, readers>>
  PROVE  /\ Head(down) \in Frames(epoch) /\ Head(down).of = epoch
         /\ Head(down).seq \in Counts
         /\ ready /\ epoch \in Epochs /\ WireOK'
         /\ UNCHANGED <<epoch, readers, ready>>
  <1>1. /\ Head(down) \in Frames(epoch) /\ Tail(down) \in Seq(Frames(epoch)) /\ ready
        /\ epoch \in Epochs
    BY DEF ActorInv, WireOK
  <1>2. UNCHANGED <<epoch, count, serving>>
    BY DEF server
  <1>3. WireOK'
    BY <1>1, <1>2 DEF ActorInv, WireOK
  <1> QED  BY <1>1, <1>2, <1>3 DEF Frames

\* What the readers are told keeps them in order.
LEMMA ToldOK ==
  ASSUME ActorInv, UNCHANGED readers,
         \/ TellNobody
         \/ \E gap \in BOOLEAN : Tell(readers, gap)
  PROVE  ReadersOK' /\ warned \subseteq warned'
  BY DEF ActorInv, ReadersOK, TellNobody, told, Tell

\* A frame that makes a gap of what the channel holds.
LEMMA GapFrameOK ==
  ASSUME ActorInv, chan # None, NEW c \in Channel, chan' = GapNoted(c),
         TellGap(chan, readers), UNCHANGED <<epoch, readers, ready, prefix>>, ready,
         c.cursor = chan.cursor,
         c.resume # None => chan.resume # None /\ c.resume.resetCursor = chan.resume.resetCursor
  PROVE  ReadersOK' /\ ChannelOK(chan)'
  <1> DEFINE g == GapNoted(c)
  <1>1. ChannelOK(chan) /\ epoch \in Epochs
    BY DEF ActorInv, WireOK
  <1>2. ReadersOK'
    BY ToldOK DEF TellGap
  <1>3. readers \subseteq warned'
    BY <1>1 DEF TellGap, TellNobody, Tell, told, ActorInv, ReadersOK, ChannelOK
  <1>4. /\ g \in Channel /\ g.epoch = None /\ g.gapNotified = TRUE
        /\ g.cursor = c.cursor
        /\ g.resume # None =>
              /\ c.resume # None /\ g.resume.failed = TRUE
              /\ g.resume.resetCursor = c.resume.resetCursor
    BY GapNotedOK
  <1> HIDE DEF g
  <1>5. chan' = g
    BY DEF g
  <1>6. ChannelOK(chan)'
    BY <1>1, <1>3, <1>4, <1>5, Numbers DEF ChannelOK, EpochIsTrue, ResumeIsTrue
  <1> QED  BY <1>2, <1>6

LEMMA OnProofOK ==
  ASSUME ActorInv, OnProof
  PROVE  ActorInv'
  <1> DEFINE f == Head(down)
             c == [chan EXCEPT !.resume = None]
  <1>1. /\ down # <<>> /\ chan # None /\ prefix' = prefix /\ f.type = "proof"
        /\ down' = Tail(down) /\ UNCHANGED <<server, up, ready, dropped, readers>>
    BY DEF OnProof, Pop, Took
  <1>2. /\ f.of = epoch /\ f.seq \in Counts /\ ready /\ epoch \in Epochs /\ WireOK'
        /\ UNCHANGED <<epoch, readers, ready>>
    BY <1>1, FrameOK
  <1>3. ChannelOK(chan) /\ chan \in Channel
    BY <1>1 DEF ActorInv, ChannelOK
  <1>4. /\ c \in Channel /\ c.resume = None /\ c.cursor = chan.cursor
        /\ c.gapNotified = chan.gapNotified
    BY <1>3 DEF Channel
  <1>5. CASE UNCHANGED chan /\ TellNobody
    <2>1. ReadersOK' /\ warned' = warned
      BY <1>2, <1>5, ToldOK DEF TellNobody, told
    <2>2. ChannelOK(chan)'
      BY <1>1, <1>2, <1>3, <1>5, <2>1 DEF ChannelOK, EpochIsTrue, ResumeIsTrue
    <2> QED  BY <1>1, <1>2, <2>1, <2>2 DEF ActorInv
  <1>6. CASE /\ chan.resume # None
             /\ Continuous(chan, f) \/ Baseline(chan, f)
             /\ chan' = [c EXCEPT !.epoch = f.of] /\ TellNobody
    <2>1. prefix = <<epoch, chan.cursor>>
      <3>1. CASE Continuous(chan, f)
        BY <1>2, <1>3, <1>6, <3>1 DEF Continuous, ChannelOK, EpochIsTrue, ResumeIsTrue
      <3>2. CASE Baseline(chan, f)
        BY <1>2, <1>3, <1>6, <3>2 DEF Baseline, ChannelOK, ResumeIsTrue
      <3> QED  BY <1>6, <3>1, <3>2
    <2>2. ReadersOK' /\ warned' = warned
      BY <1>2, <1>6, ToldOK DEF TellNobody, told
    <2>3. /\ chan' \in Channel /\ chan'.epoch = epoch /\ chan'.resume = None
          /\ chan'.cursor = chan.cursor /\ chan'.gapNotified = chan.gapNotified
      <3> HIDE DEF c, f
      <3> QED  BY <1>2, <1>4, <1>6 DEF Channel
    <2>4. ChannelOK(chan)'
      BY <1>1, <1>2, <1>3, <2>1, <2>2, <2>3, Numbers DEF ChannelOK, EpochIsTrue, ResumeIsTrue
    <2> QED  BY <1>1, <1>2, <2>2, <2>4 DEF ActorInv
  <1>7. CASE chan' = GapNoted(c) /\ TellGap(chan, readers)
    <2> HIDE DEF c
    <2>1. ReadersOK' /\ ChannelOK(chan)'
      BY <1>1, <1>2, <1>4, <1>7, GapFrameOK
    <2> QED  BY <1>1, <1>2, <2>1 DEF ActorInv
  <1> QED  BY <1>5, <1>6, <1>7 DEF OnProof

LEMMA OnControlOK ==
  ASSUME ActorInv, OnControl
  PROVE  ActorInv'
  <1> DEFINE f == Head(down)
             interrupted == chan.resume # None => chan.resume.anchorEpoch # None
             gapped == chan.resume # None /\ interrupted
             r == IF chan.resume = None THEN None
                  ELSE [chan.resume EXCEPT !.awaitingReset = FALSE,
                                           !.resetCursor = f.seq]
             c == [chan EXCEPT !.resume = r]
  <1>1. /\ down # <<>> /\ chan # None
        /\ down' = Tail(down) /\ UNCHANGED <<server, up, ready, dropped, readers>>
    BY DEF OnControl, Pop, Took
  <1>2. /\ f.of = epoch /\ f.seq \in Counts /\ ready /\ epoch \in Epochs /\ WireOK'
        /\ UNCHANGED <<epoch, readers, ready>>
    BY <1>1, FrameOK
  <1>3. ChannelOK(chan) /\ chan \in Channel
    BY <1>1 DEF ActorInv, ChannelOK
  <1>4. CASE UNCHANGED <<chan, told, prefix>>
    BY <1>1, <1>2, <1>3, <1>4
       DEF told, ActorInv, ReadersOK, ChannelOK, EpochIsTrue, ResumeIsTrue
  <1>5. CASE /\ chan' = [IF gapped THEN GapNoted(c) ELSE [c EXCEPT !.gapNotified = FALSE]
                           EXCEPT !.cursor = f.seq, !.lastControl = TRUE]
             /\ Tell(readers, f.type = "gap" \/ (gapped /\ ~chan.gapNotified))
             /\ prefix' = <<f.of, f.seq>>
    <2>1. ReadersOK' /\ warned \subseteq warned'
      <3>1. (f.type = "gap" \/ (gapped /\ ~chan.gapNotified)) \in BOOLEAN
        OBVIOUS
      <3> QED  BY <1>2, <1>5, <3>1, ToldOK
    <2>2. gapped => readers \subseteq warned'
      BY <1>3, <1>5, <2>1 DEF Tell, ChannelOK, ActorInv, ReadersOK
    <2>3. /\ c \in Channel /\ c.cursor = chan.cursor /\ c.epoch = chan.epoch
          /\ c.resume # None => /\ chan.resume # None
                                /\ c.resume.resetCursor = f.seq
                                /\ c.resume.failed = chan.resume.failed
                                /\ c.resume.anchorEpoch = chan.resume.anchorEpoch
      <3> HIDE DEF f
      <3>1. r \in Resume \cup {None}
        BY <1>2, <1>3 DEF Channel, Resume
      <3>2. r # None => /\ chan.resume # None /\ r.resetCursor = f.seq
                        /\ r.failed = chan.resume.failed
                        /\ r.anchorEpoch = chan.resume.anchorEpoch
        BY <1>2, <1>3 DEF Channel, Resume
      <3> HIDE DEF r
      <3> QED  BY <1>3, <3>1, <3>2 DEF Channel
    <2>4. CASE gapped
      <3> DEFINE g == GapNoted(c)
      <3>1. /\ g \in Channel /\ g.epoch = None
            /\ g.resume # None => g.resume.failed = TRUE /\ g.resume.resetCursor = f.seq
        <4> HIDE DEF c, f
        <4> QED  BY <2>3, GapNotedOK
      <3> HIDE DEF g
      <3>2. chan' = [g EXCEPT !.cursor = f.seq, !.lastControl = TRUE]
        BY <1>5, <2>4 DEF g
      <3> HIDE DEF f, c, r
      <3>3. /\ chan' \in Channel /\ chan'.epoch = None /\ chan'.cursor = f.seq
            /\ chan'.resume # None => /\ chan'.resume.failed = TRUE
                                      /\ chan'.resume.resetCursor = f.seq
        BY <1>2, <3>1, <3>2 DEF Channel
      <3>4. ChannelOK(chan)'
        BY <1>2, <1>5, <2>2, <2>4, <3>3, Numbers
           DEF ChannelOK, EpochIsTrue, ResumeIsTrue
      <3> QED  BY <1>2, <1>5, <2>1, <3>4 DEF ActorInv
    <2>5. CASE ~gapped
      <3>1. chan' = [[c EXCEPT !.gapNotified = FALSE] EXCEPT !.cursor = f.seq, !.lastControl = TRUE]
        BY <1>5, <2>5
      <3>2. chan.resume # None => chan.resume.anchorEpoch = None
        BY <2>5
      <3>3. chan.epoch # None => chan.resume = None /\ chan.epoch = epoch
        BY <1>2, <1>3, <3>2 DEF ChannelOK, ResumeIsTrue
      <3> HIDE DEF f, c, r
      <3>4. /\ chan' \in Channel /\ chan'.epoch = chan.epoch /\ chan'.cursor = f.seq
            /\ chan'.gapNotified = FALSE /\ chan'.resume = c.resume
        BY <1>2, <2>3, <3>1 DEF Channel
      <3>5. chan.resume # None => chan.epoch = None
        BY <3>3
      <3>6. EpochIsTrue(chan)'
        BY <1>2, <1>3, <1>5, <3>4 DEF ChannelOK, EpochIsTrue
      <3>7. ResumeIsTrue(chan)'
        BY <1>2, <1>5, <2>3, <3>2, <3>4, <3>5, Numbers DEF ResumeIsTrue
      <3>8. ChannelOK(chan)'
        BY <1>2, <1>5, <3>3, <3>4, <3>6, <3>7 DEF ChannelOK
      <3> QED  BY <1>2, <1>5, <2>1, <3>8 DEF ActorInv
    <2> QED  BY <2>4, <2>5
  <1> QED  BY <1>4, <1>5 DEF OnControl

LEMMA OnEventOK ==
  ASSUME ActorInv, OnEvent
  PROVE  ActorInv'
  <1> DEFINE f == Head(down)
             c == [chan EXCEPT !.resume = IF @ = None THEN None
                                          ELSE [@ EXCEPT !.awaitingReset = FALSE]]
             jumps == chan.cursor # None => f.seq > chan.cursor + 1
             fresh == chan.cursor # None => f.seq > chan.cursor
  <1>1. /\ down # <<>> /\ chan # None
        /\ down' = Tail(down) /\ UNCHANGED <<server, up, ready, dropped, readers>>
    BY DEF OnEvent, Pop, Took
  <1>2. /\ f.of = epoch /\ f.seq \in Counts /\ ready /\ epoch \in Epochs /\ WireOK'
        /\ UNCHANGED <<epoch, readers, ready>>
    BY <1>1, FrameOK
  <1>3. ChannelOK(chan) /\ chan \in Channel
    BY <1>1 DEF ActorInv, ChannelOK
  <1>4. /\ c \in Channel /\ c.cursor = chan.cursor /\ c.epoch = chan.epoch
        /\ c.gapNotified = chan.gapNotified
        /\ (c.resume = None) <=> (chan.resume = None)
        /\ c.resume # None => /\ c.resume.resetCursor = chan.resume.resetCursor
                              /\ c.resume.failed = chan.resume.failed
                              /\ c.resume.anchorEpoch = chan.resume.anchorEpoch
                              /\ c.resume.anchorCursor = chan.resume.anchorCursor
    <2> DEFINE q == [chan.resume EXCEPT !.awaitingReset = FALSE]
               r == IF chan.resume = None THEN None ELSE q
    <2>1. chan.resume # None =>
            /\ q \in Resume
            /\ q.resetCursor = chan.resume.resetCursor
            /\ q.failed = chan.resume.failed
            /\ q.anchorEpoch = chan.resume.anchorEpoch
            /\ q.anchorCursor = chan.resume.anchorCursor
      BY <1>3 DEF Channel, Resume
    <2>2. c = [chan EXCEPT !.resume = r]
      BY <1>3 DEF Channel
    <2> HIDE DEF q
    <2>3. r \in Resume \cup {None} /\ ((r = None) <=> (chan.resume = None))
      BY <2>1, NoneAssumption
    <2>4. r # None => /\ r.resetCursor = chan.resume.resetCursor
                      /\ r.failed = chan.resume.failed
                      /\ r.anchorEpoch = chan.resume.anchorEpoch
                      /\ r.anchorCursor = chan.resume.anchorCursor
      BY <2>1
    <2> HIDE DEF r, c
    <2> QED  BY <1>3, <2>2, <2>3, <2>4 DEF Channel
  <1>5. CASE chan' = c /\ UNCHANGED <<told, prefix>>
    <2> HIDE DEF c
    <2>1. ChannelOK(chan)'
      BY <1>2, <1>3, <1>4, <1>5 DEF told, ChannelOK, EpochIsTrue, ResumeIsTrue
    <2> QED  BY <1>2, <1>5, <2>1 DEF ActorInv, ReadersOK, told
  <1>6. CASE /\ fresh
             /\ chan' = [IF jumps THEN GapNoted(c) ELSE c EXCEPT !.cursor = f.seq]
             /\ Tell(readers, jumps /\ ~chan.gapNotified)
             /\ prefix' = IF prefix = <<f.of, f.seq - 1>> THEN <<f.of, f.seq>> ELSE Hole
    <2>1. ReadersOK' /\ warned \subseteq warned'
      <3>1. (jumps /\ ~chan.gapNotified) \in BOOLEAN
        OBVIOUS
      <3> QED  BY <1>2, <1>6, <3>1, ToldOK
    <2>2. jumps \/ chan.gapNotified => readers \subseteq warned'
      BY <1>3, <1>6, <2>1 DEF Tell, ChannelOK, ActorInv, ReadersOK
    <2>3. prefix' \in {Hole} \cup (Epochs \X Counts)
      BY <1>2, <1>6
    <2>4. chan.cursor # None => chan.cursor \in Nat /\ f.seq > chan.cursor
      BY <1>3, <1>6, Numbers DEF Channel
    <2>5. CASE jumps
      <3> DEFINE g == GapNoted(c)
      <3>1. /\ g \in Channel /\ g.epoch = None
            /\ g.resume # None => /\ c.resume # None /\ g.resume.failed = TRUE
                                  /\ g.resume.resetCursor = c.resume.resetCursor
        <4> HIDE DEF c
        <4> QED  BY <1>4, GapNotedOK
      <3>2. chan' = [g EXCEPT !.cursor = f.seq]
        BY <1>6, <2>5
      <3> HIDE DEF f, c, g
      <3>3. /\ chan' \in Channel /\ chan'.epoch = None /\ chan'.cursor = f.seq
            /\ chan'.resume = g.resume
        BY <1>2, <3>1, <3>2 DEF Channel
      <3>4. ResumeIsTrue(chan)'
        <4>1. chan.resume # None /\ chan.resume.resetCursor # None =>
                /\ chan.cursor # None /\ chan.cursor >= chan.resume.resetCursor
                /\ chan.resume.resetCursor \in Nat
          BY <1>2, <1>3, Numbers DEF ChannelOK, ResumeIsTrue, Channel, Resume
        <4>2. f.seq \in Nat
          BY <1>2, Numbers
        <4> QED  BY <1>2, <1>4, <2>4, <3>1, <3>3, <4>1, <4>2, Numbers DEF ResumeIsTrue
      <3>5. ChannelOK(chan)'
        BY <1>2, <2>2, <2>5, <3>3, <3>4, Numbers DEF ChannelOK, EpochIsTrue
      <3> QED  BY <1>2, <2>1, <2>3, <3>5 DEF ActorInv
    <2>6. CASE ~jumps
      <3>1. chan' = [c EXCEPT !.cursor = f.seq]
        BY <1>6, <2>6
      <3>2. f.seq \in Nat /\ chan.cursor # None /\ f.seq - 1 = chan.cursor
        BY <1>2, <2>4, <2>6, Numbers
      <3>3. prefix = <<epoch, chan.cursor>> => prefix' = <<epoch, f.seq>>
        BY <1>2, <1>6, <3>2
      <3> HIDE DEF f, c
      <3>4. /\ chan' \in Channel /\ chan'.epoch = chan.epoch /\ chan'.cursor = f.seq
            /\ chan'.gapNotified = chan.gapNotified /\ chan'.resume = c.resume
        BY <1>2, <1>4, <3>1 DEF Channel
      <3>5. EpochIsTrue(chan)'
        BY <1>2, <1>3, <3>3, <3>4 DEF ChannelOK, EpochIsTrue
      <3>6. ResumeIsTrue(chan)'
        <4>1. chan.resume # None /\ chan.resume.resetCursor # None =>
                chan.cursor >= chan.resume.resetCursor /\ chan.resume.resetCursor \in Nat
          BY <1>2, <1>3, Numbers DEF ChannelOK, ResumeIsTrue, Channel, Resume
        <4>2. chan.resume # None =>
                /\ chan.epoch = IF chan.resume.failed THEN None ELSE chan.resume.anchorEpoch
                /\ chan.resume.resetCursor # None => chan.epoch = None
                /\ chan.epoch # None => /\ chan.resume.anchorCursor \in Nat
                                        /\ chan.resume.anchorCursor # None
                                        /\ chan.cursor >= chan.resume.anchorCursor
          BY <1>2, <1>3, Numbers DEF ChannelOK, ResumeIsTrue, Channel, Resume
        <4> QED  BY <1>2, <1>4, <2>4, <3>2, <3>4, <4>1, <4>2, Numbers DEF ResumeIsTrue
      <3>7. chan'.epoch # None /\ chan'.resume = None =>
              prefix' = <<chan'.epoch, chan'.cursor>> /\ chan'.epoch = epoch
        BY <1>2, <1>3, <1>4, <3>3, <3>4 DEF ChannelOK
      <3>8. ChannelOK(chan)'
        BY <1>2, <2>2, <3>4, <3>5, <3>6, <3>7 DEF ChannelOK
      <3> QED  BY <1>2, <2>1, <2>3, <3>8 DEF ActorInv
    <2> QED  BY <2>5, <2>6
  <1> QED  BY <1>5, <1>6 DEF OnEvent

LEMMA OtherFramesOK ==
  ASSUME ActorInv, Orphan \/ OnGarbled
  PROVE  ActorInv'
  <1>1. /\ down # <<>> /\ prefix' = prefix
        /\ down' = Tail(down) /\ UNCHANGED <<server, up, ready, dropped, readers>>
    BY DEF Orphan, OnGarbled, Pop, Took
  <1>2. /\ ready /\ WireOK' /\ UNCHANGED <<epoch, readers, ready>>
    BY <1>1, FrameOK
  <1>3. CASE Orphan
    BY <1>1, <1>2, <1>3 DEF Orphan, told, ActorInv, ReadersOK
  <1>4. CASE OnGarbled
    <2>1. chan # None /\ chan' = GapNoted(chan) /\ TellGap(chan, readers) /\ chan \in Channel
      BY <1>4 DEF OnGarbled, ActorInv, ChannelOK
    <2>2. ReadersOK' /\ ChannelOK(chan)'
      BY <1>1, <1>2, <2>1, GapFrameOK
    <2> QED  BY <1>1, <1>2, <2>2 DEF ActorInv
  <1> QED  BY <1>3, <1>4

-----------------------------------------------------------------------------
(* The theorems.                                                            *)

LEMMA ActorInvInit == Init => ActorInv
  <1> SUFFICES ASSUME Init PROVE ActorInv
    OBVIOUS
  <1>1. 1 \in Epochs /\ 1 \in Counts
    BY ActorAssumption DEF Epochs, Counts
  <1>2. up \in Seq(Commands) /\ down \in Seq(Frames(epoch))
    BY DEF Init
  <1>3. WireOK
    BY <1>1, <1>2 DEF Init, WireOK
  <1> QED  BY <1>3 DEF Init, ActorInv, ReadersOK

LEMMA ActorInvStep == ActorInv /\ [Next]_vars => ActorInv'
  <1> SUFFICES ASSUME ActorInv, [Next]_vars PROVE ActorInv'
    OBVIOUS
  <1>1. CASE Produce \/ ServerReceives
    BY <1>1, ServerStepOK
  <1>2. ASSUME NEW r \in Readers, Join(r) PROVE ActorInv'
    BY <1>2, JoinOK
  <1>3. ASSUME NEW r \in Readers, Leave(r) PROVE ActorInv'
    BY <1>3, LeaveOK
  <1>4. CASE BecomeReady
    BY <1>4, BecomeReadyOK
  <1>5. CASE Drop
    BY <1>5, DropOK
  <1>6. CASE ReplayTimeout
    BY <1>6, ReplayTimeoutOK
  <1>7. CASE Orphan \/ OnGarbled
    BY <1>7, OtherFramesOK
  <1>8. CASE OnProof
    BY <1>8, OnProofOK
  <1>9. CASE OnControl
    BY <1>9, OnControlOK
  <1>10. CASE OnEvent
    BY <1>10, OnEventOK
  <1>11. CASE UNCHANGED vars
    BY <1>11 DEF vars, server, told, ActorInv, WireOK, ReadersOK, ChannelOK,
                 EpochIsTrue, ResumeIsTrue
  <1> QED  BY <1>1, <1>2, <1>3, <1>4, <1>5, <1>6, <1>7, <1>8, <1>9, <1>10, <1>11
           DEF Next, Deliver

LEMMA ActorInvAlways == Spec => []ActorInv
  BY ActorInvInit, ActorInvStep, PTL DEF Spec

\* Commands, frames and the channel keep their shapes, for any readers, epochs and
\* numbers of events.
THEOREM TypesAlways == Spec => []TypeOK
  <1>1. ActorInv => TypeOK
    <2> SUFFICES ASSUME ActorInv PROVE TypeOK
      OBVIOUS
    <2>1. Frames(epoch) \subseteq [type : FrameTypes, of : Epochs, seq : Counts,
                                   from : Counts \cup {None}]
      BY DEF Frames, ActorInv, WireOK
    <2>2. down \in Seq([type : FrameTypes, of : Epochs, seq : Counts,
                        from : Counts \cup {None}])
      BY <2>1, WiderFrames DEF ActorInv, WireOK
    <2> QED  BY <2>2 DEF ActorInv, WireOK, ReadersOK, ChannelOK, Commands, TypeOK
  <1> QED  BY <1>1, ActorInvAlways, PTL

\* A certified cursor names an unbroken prefix of one producer's history, whatever
\* was reset, replayed, proved or restarted in between (sendActorSubscribe,
\* handleActorReplayComplete, handleActorControl, handleActorEvent).
THEOREM CertifiedPrefixAlways == Spec => []CertifiedPrefix
  <1>1. ActorInv => CertifiedPrefix
    BY DEF ActorInv, ChannelOK, CertifiedPrefix
  <1> QED  BY <1>1, ActorInvAlways, PTL

\* No reader of a channel whose gap was noted is without its warning, whenever it
\* joined (subscribeActor, notifyActorGap).
THEOREM GapSharedAlways == Spec => []GapSharedByAll
  <1>1. ActorInv => GapSharedByAll
    BY DEF ActorInv, ChannelOK, GapSharedByAll
  <1> QED  BY <1>1, ActorInvAlways, PTL

-----------------------------------------------------------------------------
(* No event is lost silently.  At rest nothing is in flight, so the argument *)
(* must say what is in flight while a reader is still owed something: the    *)
(* producer's last event, or what stands for it, is the last thing said on   *)
(* the wire (DownInOrder), a resume that does not know its number waits for  *)
(* a reset that cannot be taken for an old one (Awaits), and a channel that  *)
(* has the last number has the readers it came from (PrefixTold).            *)

\* A frame that leaves the channel with the last number, or with its gap noted.
IsNews(f) == f.type = "garbled" \/ (f.type # "proof" /\ f.seq = count)

News == \E i \in 1..Len(down) : IsNews(down[i])

DownInOrder ==
    /\ \A i \in 1..Len(down) : down[i].seq <= count
    /\ serving => \A i \in 1..Len(down) :
          down[i].type # "proof" => \E j \in i..Len(down) : IsNews(down[j])

\* The server is told last what the channel wants; a number is asked for only by
\* the first command of a socket.
CommandsInOrder ==
    /\ ready /\ chan # None =>
          IF up = <<>> THEN serving ELSE up[Len(up)].type = "subscribe"
    /\ \A i \in 1..Len(up) : up[i].since # None => i = 1 /\ down = <<>> /\ ~serving

Asking(c) == c.resume # None /\ (c.resume # None => c.resume.awaitingReset)

\* A channel without a gap on a socket that is ready.
Awaits(c) ==
    /\ Len(up) = 1 => (up[1].since # None => c.cursor = up[1].since)
    /\ c.cursor # None /\ Asking(c) =>
          /\ up # <<>> => Len(up) = 1 /\ up[1].since = c.cursor
          /\ c.cursor > count /\ up = <<>> =>
                down # <<>> /\ Head(down).type \in {"initial", "gap"}
    /\ c.cursor # None => (c.cursor > count => Asking(c))
    /\ c.cursor # None /\ ~Anchored(c) => prefix = <<epoch, c.cursor>>
    /\ up = <<>> /\ ~News => c.cursor = count

PrefixTold ==
    /\ prefix[1] <= epoch /\ (prefix[1] = epoch => prefix[2] <= count)
    /\ prefix # Hole => chan # None /\ (chan.lastControl \/ chan.gapNotified)
    /\ prefix = <<epoch, count>> => readers \subseteq informed \cup warned

AwaitsOK == ready /\ chan # None => (~chan.gapNotified => Awaits(chan))

\* Before its first socket a channel has seen nothing.
NewsInv ==
    /\ DownInOrder /\ CommandsInOrder /\ PrefixTold /\ AwaitsOK
    /\ ~ready /\ ~dropped /\ chan # None => chan.cursor = None

LEMMA ReplayNews ==
  ASSUME epoch \in Epochs, count \in Counts, NEW since \in Counts, since <= count
  PROVE  /\ Len(Replay(since)) = count - since
         /\ \A i \in 1..Len(Replay(since)) :
               /\ Replay(since)[i].seq <= count
               /\ \E j \in i..Len(Replay(since)) : IsNews(Replay(since)[j])
         /\ since # count => \E j \in 1..Len(Replay(since)) : IsNews(Replay(since)[j])
  <1> DEFINE q == Replay(since)
             n == count - since
  <1>1. count \in Nat /\ since \in Nat /\ n \in Nat
    BY Numbers
  <1>2. q = [i \in 1..n |-> Event(since + i)] /\ Len(q) = n
    BY <1>1 DEF Replay
  <1>3. \A i \in 1..n : q[i].seq = since + i /\ q[i].type = "event"
    BY <1>2 DEF Event
  <1> HIDE DEF q, n
  <1>4. n # 0 => n \in 1..n /\ IsNews(q[n])
    <2>1. since + n = count
      BY <1>1 DEF n
    <2> QED  BY <1>1, <1>3, <2>1 DEF IsNews
  <1>5. \A i \in 1..n : q[i].seq <= count /\ n \in i..n /\ n # 0
    BY <1>1, <1>3 DEF n
  <1>6. since # count => n # 0
    BY <1>1 DEF n
  <1> QED  BY <1>1, <1>2, <1>4, <1>5, <1>6 DEF q, n

\* What an answer says: a reset with the last number, or every event after the
\* number that was asked for.
LEMMA AnswersNews ==
  ASSUME epoch \in Epochs, count \in Counts, NEW cmd \in Commands,
         NEW frames \in Answers(cmd)
  PROVE  /\ \A i \in 1..Len(frames) : frames[i].seq <= count
         /\ \A i \in 1..Len(frames) : frames[i].type # "proof" =>
               \E j \in i..Len(frames) : IsNews(frames[j])
         /\ \/ /\ frames # <<>> /\ frames[1].type \in {"initial", "gap"}
               /\ IsNews(frames[1])
            \/ /\ cmd.since # None /\ cmd.since <= count
               /\ cmd.since # count => \E j \in 1..Len(frames) : IsNews(frames[j])
  <1> DEFINE ends(from) == {<<>>, <<Proof(from)>>}
  <1>0. count \in Nat /\ frames \in Seq(Frames(epoch))
    BY Numbers, AnswersOK
  <1>1. CASE \E reason \in {"initial", "gap"}, e \in ends(None) :
               frames = <<Control(reason, count)>> \o e
    <2>1. PICK reason \in {"initial", "gap"}, e \in ends(None) :
               frames = <<Control(reason, count)>> \o e
      BY <1>1
    <2>2. /\ Len(frames) = 1 \/ Len(frames) = 2
          /\ frames # <<>>
          /\ frames[1] = Control(reason, count)
          /\ Len(frames) = 2 => frames[2] = Proof(None)
      BY <2>1
    <2>3. frames[1].type = reason /\ frames[1].seq = count
      BY <2>2 DEF Control
    <2>4. Len(frames) = 2 => frames[2].type = "proof" /\ frames[2].seq = count
      BY <2>2 DEF Proof
    <2>5. IsNews(frames[1])
      BY <2>3 DEF IsNews
    <2>6. ASSUME NEW i \in 1..Len(frames) PROVE i = 1 \/ (i = 2 /\ Len(frames) = 2)
      <3>1. CASE Len(frames) = 1
        BY <3>1
      <3>2. CASE Len(frames) = 2
        BY <3>2
      <3> QED  BY <2>2, <3>1, <3>2
    <2> QED  BY <1>0, <2>2, <2>3, <2>4, <2>5, <2>6
  <1>2. CASE /\ cmd.since # None /\ ~(cmd.since > count)
             /\ \E e \in ends(cmd.since) : frames = Replay(cmd.since) \o e
    <2>1. PICK e \in ends(cmd.since) : frames = Replay(cmd.since) \o e
      BY <1>2
    <2>2. cmd.since \in Counts /\ cmd.since <= count
      BY <1>2, Numbers DEF Commands
    <2> DEFINE q == Replay(cmd.since)
    <2>3. q \in Seq(Frames(epoch))
      BY <2>2, ReplayOK
    <2>4. /\ Len(q) = count - cmd.since
          /\ \A i \in 1..Len(q) : q[i].seq <= count /\ \E j \in i..Len(q) : IsNews(q[j])
          /\ cmd.since # count => \E j \in 1..Len(q) : IsNews(q[j])
      BY <2>2, ReplayNews
    <2> HIDE DEF q
    <2>5. \/ frames = q
          \/ frames = Append(q, Proof(cmd.since))
      BY <2>1, <2>3 DEF q
    <2>6. /\ Len(q) \in Nat /\ Len(frames) \in {Len(q), Len(q) + 1}
          /\ \A i \in 1..Len(q) : frames[i] = q[i]
          /\ Len(frames) = Len(q) + 1 => frames[Len(q) + 1] = Proof(cmd.since)
      BY <2>3, <2>5
    <2>7. Proof(cmd.since).type = "proof" /\ Proof(cmd.since).seq = count
      BY DEF Proof
    <2>8. \A i \in 1..Len(frames) : i \in 1..Len(q) \/ frames[i] = Proof(cmd.since)
      BY <2>6
    <2>9. \A i \in 1..Len(q) : i..Len(q) \subseteq i..Len(frames)
      BY <2>6
    <2>10. 1..Len(q) \subseteq 1..Len(frames)
      BY <2>6
    <2>11. \A i \in 1..Len(frames) : frames[i].seq <= count
      BY <1>0, <2>4, <2>6, <2>7, <2>8
    <2>12. ASSUME NEW i \in 1..Len(frames), frames[i].type # "proof"
           PROVE  \E j \in i..Len(frames) : IsNews(frames[j])
      <3>1. i \in 1..Len(q)
        BY <2>7, <2>8, <2>12
      <3>2. PICK j \in i..Len(q) : IsNews(q[j])
        BY <2>4, <3>1
      <3>3. j \in 1..Len(q) /\ j \in i..Len(frames)
        BY <2>6, <2>9, <3>1
      <3>4. frames[j] = q[j]
        BY <2>6, <3>3
      <3> QED  BY <3>2, <3>3, <3>4
    <2>13. cmd.since # count => \E j \in 1..Len(frames) : IsNews(frames[j])
      <3> SUFFICES ASSUME cmd.since # count
                   PROVE  \E j \in 1..Len(frames) : IsNews(frames[j])
        OBVIOUS
      <3>1. PICK j \in 1..Len(q) : IsNews(q[j])
        BY <2>4
      <3>2. j \in 1..Len(frames) /\ frames[j] = q[j]
        BY <2>6, <2>10
      <3> QED  BY <3>1, <3>2
    <2> QED  BY <1>2, <2>2, <2>11, <2>12, <2>13
  <1> QED  BY <1>1, <1>2 DEF Answers

\* What NewsInv needs of the types.
LEMMA NewsTypes ==
  ASSUME ActorInv
  PROVE  /\ epoch \in Nat \ {0} /\ count \in Nat \ {0}
         /\ epoch \in Epochs /\ count \in Counts
         /\ prefix = Hole \/ prefix \in Epochs \X Counts
         /\ prefix[1] \in Nat /\ prefix[2] \in Nat
         /\ down \in Seq(Frames(epoch)) /\ Len(down) \in Nat
         /\ up \in Seq(Commands) /\ Len(up) \in Nat
         /\ chan # None =>
              /\ chan \in Channel /\ ChannelOK(chan)
              /\ chan.cursor # None => chan.cursor \in Nat \ {0}
  <1>1. /\ epoch \in Epochs /\ count \in Counts /\ down \in Seq(Frames(epoch))
        /\ up \in Seq(Commands)
    BY DEF ActorInv, WireOK
  <1>2. prefix = Hole \/ prefix \in Epochs \X Counts
    BY DEF ActorInv
  <1>3. prefix[1] \in Nat /\ prefix[2] \in Nat
    BY <1>2, Numbers DEF Hole
  <1>4. chan # None =>
          /\ chan \in Channel /\ ChannelOK(chan)
          /\ chan.cursor # None => chan.cursor \in Nat \ {0}
    BY Numbers DEF ActorInv, ChannelOK, Channel
  <1> QED  BY <1>1, <1>2, <1>3, <1>4, Numbers

\* A frame at the end of the wire that is news to whoever is listening.
LEMMA AppendNews ==
  ASSUME NEW e \in Epochs, down \in Seq(Frames(e)), Len(down) \in Nat,
         NEW f \in Frames(e), down' = Append(down, f), IsNews(f)'
  PROVE  /\ Len(down') = Len(down) + 1 /\ down' # <<>>
         /\ \A i \in 1..Len(down) : down'[i] = down[i]
         /\ down'[Len(down')] = f
         /\ \A i \in 1..Len(down') : \E j \in i..Len(down') : IsNews(down[j])'
         /\ News'
         /\ down # <<>> => Head(down') = Head(down)
  <1>1. /\ Len(down') = Len(down) + 1 /\ down' # <<>>
        /\ \A i \in 1..Len(down) : down'[i] = down[i]
        /\ down'[Len(down) + 1] = f
    OBVIOUS
  <1>2. down # <<>> => Head(down') = Head(down)
    OBVIOUS
  <1>3. \A i \in 1..Len(down') : Len(down') \in i..Len(down')
    BY <1>1
  <1>4. Len(down') \in 1..Len(down')
    BY <1>1
  <1>5. \A j \in 1..Len(down') : j = Len(down') => IsNews(down[j])'
    BY <1>1 DEF IsNews
  <1> QED  BY <1>1, <1>2, <1>3, <1>4, <1>5 DEF News

LEMMA ProduceNews ==
  ASSUME ActorInv, NewsInv, Produce
  PROVE  NewsInv'
  <1>1. /\ count' = count + 1 /\ informed' = {} /\ count + 1 \in Counts
        /\ UNCHANGED <<epoch, serving, up, ready, dropped, readers, chan, warned, prefix>>
    BY Numbers DEF Produce, ActorInv, WireOK, Counts
  <1>2. \/ /\ serving
           /\ \E f \in Frames(epoch) :
                 down' = Append(down, f) /\ IsNews(f)' /\ f.seq <= count + 1
        \/ ~serving /\ down' = down
    <2>1. CASE serving
      <3>1. PICK f \in {Event(count + 1), Garbled, Control("gap", count + 1)} :
               down' = Append(down, f)
        BY <2>1 DEF Produce
      <3>2. f \in Frames(epoch)
        BY <1>1, FramesOK, NewsTypes
      <3>3. (f.type = "garbled" /\ f.seq = count) \/ (f.type # "proof" /\ f.seq = count + 1)
        BY DEF Event, Garbled, Control
      <3>4. IsNews(f)' /\ f.seq <= count + 1
        BY <1>1, <3>3, NewsTypes DEF IsNews
      <3> QED  BY <2>1, <3>1, <3>2, <3>4
    <2>2. CASE ~serving
      BY <2>2 DEF Produce
    <2> QED  BY <2>1, <2>2
  <1>3. DownInOrder'
    <2>1. CASE serving
      <3>1. PICK f \in Frames(epoch) :
               down' = Append(down, f) /\ IsNews(f)' /\ f.seq <= count + 1
        BY <1>2, <2>1
      <3>2. /\ Len(down') = Len(down) + 1
            /\ \A i \in 1..Len(down) : down'[i] = down[i]
            /\ down'[Len(down')] = f
            /\ \A i \in 1..Len(down') : \E j \in i..Len(down') : IsNews(down[j])'
        BY <3>1, AppendNews, NewsTypes
      <3>3. \A i \in 1..Len(down) : down[i].seq \in Nat /\ down[i].seq <= count
        <4>1. \A i \in 1..Len(down) : down[i] \in Frames(epoch)
          BY NewsTypes
        <4> QED  BY <4>1, Numbers DEF Frames, NewsInv, DownInOrder
      <3>4. \A i \in 1..Len(down') : i \in 1..Len(down) \/ i = Len(down')
        BY <3>2, NewsTypes
      <3>5. \A i \in 1..Len(down') : down'[i].seq <= count'
        BY <1>1, <3>1, <3>2, <3>3, <3>4, NewsTypes
      <3> QED  BY <3>2, <3>5 DEF DownInOrder
    <2>2. CASE ~serving
      <3>1. \A i \in 1..Len(down) : down[i].seq \in Nat /\ down[i].seq <= count
        <4>1. \A i \in 1..Len(down) : down[i] \in Frames(epoch)
          BY NewsTypes
        <4> QED  BY <4>1, Numbers DEF Frames, NewsInv, DownInOrder
      <3>2. down' = down /\ ~serving'
        BY <1>1, <1>2, <2>2
      <3> QED  BY <1>1, <3>1, <3>2, NewsTypes DEF DownInOrder
    <2> QED  BY <2>1, <2>2
  <1>4. CommandsInOrder'
    BY <1>1, <1>2 DEF NewsInv, CommandsInOrder
  <1>5. PrefixTold'
    <2>1. prefix[1] = epoch => prefix[2] <= count' /\ prefix[2] # count'
      BY <1>1, NewsTypes DEF NewsInv, PrefixTold
    <2>2. prefix' # <<epoch', count'>>
      BY <1>1, <2>1
    <2> QED  BY <1>1, <2>1, <2>2 DEF NewsInv, PrefixTold
  <1>6. AwaitsOK'
    <2> SUFFICES ASSUME ready, chan # None, ~chan.gapNotified PROVE Awaits(chan)'
      BY <1>1 DEF AwaitsOK
    <2>1. Awaits(chan)
      BY DEF NewsInv, AwaitsOK
    <2>2. serving /\ up = <<>> => News' /\ down' # <<>> /\ (down # <<>> => Head(down') = Head(down))
      BY <1>2, AppendNews, NewsTypes
    <2>3. up = <<>> => serving
      BY DEF NewsInv, CommandsInOrder
    <2>4. chan.cursor # None /\ chan.cursor > count' => chan.cursor > count
      BY <1>1, NewsTypes
    <2> QED  BY <1>1, <2>1, <2>2, <2>3, <2>4 DEF Awaits, Asking, Anchored
  <1> QED  BY <1>1, <1>3, <1>4, <1>5, <1>6 DEF NewsInv

LEMMA TailOK ==
  ASSUME NEW S, NEW q \in Seq(S), q # <<>>, NEW t, t = Tail(q)
  PROVE  /\ Head(q) \in S /\ Head(q) = q[1] /\ 1 \in 1..Len(q)
         /\ Len(t) = Len(q) - 1 /\ Len(t) \in Nat
         /\ t = <<>> => Len(q) = 1
         /\ \A i \in 1..Len(t) : t[i] = q[i + 1] /\ i + 1 \in 1..Len(q)
  <1>1. Len(q) \in Nat /\ Len(q) # 0
    OBVIOUS
  <1>2. Len(t) = Len(q) - 1
    BY <1>1
  <1>3. \A i \in 1..Len(t) : i + 1 \in 1..Len(q)
    BY <1>1, <1>2
  <1>4. \A i \in 1..Len(t) : t[i] = q[i + 1]
    BY <1>1, <1>2
  <1>5. Head(q) \in S /\ Head(q) = q[1] /\ 1 \in 1..Len(q)
    BY <1>1
  <1>6. t = <<>> => Len(t) = 0
    OBVIOUS
  <1> QED  BY <1>1, <1>2, <1>3, <1>4, <1>5, <1>6

\* The frames of an answer follow those that are on the wire already.
LEMMA AnswerFollows ==
  ASSUME ActorInv, NewsInv, UNCHANGED <<epoch, count>>, serving',
         NEW cmd \in Commands, NEW frames \in Answers(cmd), down' = down \o frames,
         cmd.since # None => down = <<>> /\ ~serving
  PROVE  /\ DownInOrder'
         /\ \/ News'
            \/ cmd.since # None /\ cmd.since = count
         /\ cmd.since # None /\ cmd.since > count =>
               down' # <<>> /\ Head(down').type \in {"initial", "gap"}
  <1>1. /\ frames \in Seq(Frames(epoch)) /\ Len(frames) \in Nat
        /\ \A i \in 1..Len(frames) : frames[i].seq <= count
        /\ \A i \in 1..Len(frames) : frames[i].type # "proof" =>
              \E j \in i..Len(frames) : IsNews(frames[j])
    BY AnswersOK, AnswersNews, NewsTypes
  <1>2. \/ /\ frames # <<>> /\ frames[1].type \in {"initial", "gap"}
           /\ IsNews(frames[1])
        \/ /\ cmd.since # None /\ cmd.since <= count
           /\ cmd.since # count => \E j \in 1..Len(frames) : IsNews(frames[j])
    BY AnswersNews, NewsTypes
  <1> DEFINE n == Len(down)
             q == down'
  <1>3. /\ Len(q) = n + Len(frames) /\ n \in Nat
        /\ \A i \in 1..n : q[i] = down[i]
        /\ \A i \in 1..Len(frames) : q[n + i] = frames[i]
    BY <1>1, NewsTypes
  <1>4. \A i \in 1..Len(q) : i \in 1..n \/ (i - n \in 1..Len(frames) /\ q[i] = frames[i - n])
    BY <1>1, <1>3
  <1>5. \A j \in 1..Len(frames) : n + j \in 1..Len(q) /\ q[n + j] = frames[j]
    BY <1>1, <1>3
  <1> HIDE DEF q
  <1>6. \A i \in 1..Len(q) : q[i].seq <= count
    BY <1>1, <1>3, <1>4 DEF NewsInv, DownInOrder
  <1>7. ASSUME NEW i \in 1..Len(q), q[i].type # "proof"
        PROVE  \E j \in i..Len(q) : IsNews(q[j])
    <2>1. CASE i \in 1..n
      <3>1. n # 0 /\ cmd.since = None
        BY <2>1, NewsTypes DEF n
      <3>2. IsNews(frames[1]) /\ 1 \in 1..Len(frames)
        BY <1>1, <1>2, <3>1
      <3>3. n + 1 \in i..Len(q) /\ q[n + 1] = frames[1]
        BY <1>3, <1>5, <2>1, <3>2
      <3> QED  BY <3>2, <3>3
    <2>2. CASE i - n \in 1..Len(frames) /\ q[i] = frames[i - n]
      <3>1. PICK k \in (i - n)..Len(frames) : IsNews(frames[k])
        BY <1>1, <1>7, <2>2
      <3>2. k \in 1..Len(frames) /\ n + k \in i..Len(q)
        BY <1>1, <1>3, <2>2, <3>1
      <3> QED  BY <1>5, <3>1, <3>2
    <2> QED  BY <1>4, <1>7, <2>1, <2>2
  <1>8. (\E j \in 1..Len(frames) : IsNews(frames[j])) => \E j \in 1..Len(q) : IsNews(q[j])
    BY <1>5
  <1>9. frames # <<>> => 1 \in 1..Len(frames)
    BY <1>1
  <1>10. down = <<>> => q = frames
    BY <1>1 DEF q
  <1>11. frames # <<>> => Head(frames) = frames[1]
    BY <1>1
  <1>12. DownInOrder'
    BY <1>6, <1>7 DEF DownInOrder, q, IsNews
  <1>13. News' \/ (cmd.since # None /\ cmd.since = count)
    BY <1>2, <1>8, <1>9 DEF News, q, IsNews
  <1>14. cmd.since # None /\ cmd.since > count =>
               q # <<>> /\ Head(q).type \in {"initial", "gap"}
    <2>1. cmd.since # None => cmd.since \in Nat
      BY Numbers DEF Commands
    <2> QED  BY <1>2, <1>10, <1>11, <2>1, NewsTypes
  <1> QED  BY <1>12, <1>13, <1>14 DEF q

LEMMA ServerReceivesNews ==
  ASSUME ActorInv, NewsInv, ServerReceives
  PROVE  NewsInv'
  <1> DEFINE cmd == Head(up)
  <1>1. /\ up # <<>> /\ up' = Tail(up)
        /\ UNCHANGED <<epoch, count, ready, dropped, readers, chan, informed, warned, prefix>>
        /\ \/ cmd.type = "unsubscribe" /\ serving' = FALSE /\ down' = down
           \/ /\ cmd.type = "subscribe" /\ serving' = TRUE
              /\ \E frames \in Answers(cmd) : down' = down \o frames
    BY DEF ServerReceives, told
  <1>2. /\ cmd \in Commands /\ cmd = up[1] /\ 1 \in 1..Len(up)
        /\ Len(up') = Len(up) - 1 /\ Len(up') \in Nat
        /\ up' = <<>> => Len(up) = 1
        /\ \A i \in 1..Len(up') : up'[i] = up[i + 1] /\ i + 1 \in 1..Len(up)
    BY <1>1, NewsTypes, TailOK
  <1>3. cmd.since # None => down = <<>> /\ ~serving
    BY <1>2 DEF NewsInv, CommandsInOrder
  <1>4. \A i \in 1..Len(up') : up'[i].since = None
    <2>1. \A i \in 1..Len(up') : i + 1 # 1
      BY <1>2
    <2> QED  BY <1>2, <2>1 DEF NewsInv, CommandsInOrder
  <1> HIDE DEF cmd
  <1>5. CASE cmd.type = "subscribe"
    <2>1. serving' = TRUE /\ \E frames \in Answers(cmd) : down' = down \o frames
      BY <1>1, <1>5
    <2>2. PICK frames \in Answers(cmd) : down' = down \o frames
      BY <2>1
    <2>3. /\ DownInOrder'
          /\ News' \/ (cmd.since # None /\ cmd.since = count)
          /\ cmd.since # None /\ cmd.since > count =>
               down' # <<>> /\ Head(down').type \in {"initial", "gap"}
      BY <1>1, <1>2, <1>3, <2>1, <2>2, AnswerFollows
    <2>4. CommandsInOrder'
      <3>1. ready' /\ chan' # None /\ up' # <<>> => up'[Len(up')].type = "subscribe"
        BY <1>1, <1>2 DEF NewsInv, CommandsInOrder
      <3> QED  BY <1>4, <2>1, <3>1 DEF CommandsInOrder
    <2>5. PrefixTold'
      BY <1>1 DEF NewsInv, PrefixTold
    <2>6. AwaitsOK'
      <3> SUFFICES ASSUME ready, chan # None, ~chan.gapNotified PROVE Awaits(chan)'
        BY <1>1 DEF AwaitsOK
      <3>1. Awaits(chan)
        BY DEF NewsInv, AwaitsOK
      <3>2. Len(up') = 1 => up'[1].since = None
        BY <1>4
      <3>3. up' = <<>> => Len(up) = 1 /\ (cmd.since # None => chan.cursor = cmd.since)
        BY <1>2, <3>1 DEF Awaits
      <3>4. chan.cursor # None /\ Asking(chan) =>
              up' = <<>> /\ chan.cursor = cmd.since
        BY <1>1, <1>2, <3>1 DEF Awaits
      <3>5. up' = <<>> /\ ~News' => chan.cursor = count
        BY <2>3, <3>3
      <3>6. chan.cursor # None /\ Asking(chan) /\ chan.cursor > count =>
              down' # <<>> /\ Head(down').type \in {"initial", "gap"}
        BY <2>3, <3>4
      <3>7. /\ chan.cursor # None => (chan.cursor > count => Asking(chan))
            /\ chan.cursor # None /\ ~Anchored(chan) => prefix = <<epoch, chan.cursor>>
        BY <3>1 DEF Awaits
      <3> QED  BY <1>1, <3>2, <3>4, <3>5, <3>6, <3>7 DEF Awaits, Asking, Anchored
    <2> QED  BY <1>1, <2>3, <2>4, <2>5, <2>6 DEF NewsInv
  <1>6. CASE cmd.type = "unsubscribe"
    <2>1. serving' = FALSE /\ down' = down
      BY <1>1, <1>6
    <2>2. DownInOrder'
      BY <1>1, <2>1 DEF NewsInv, DownInOrder
    <2>3. ready /\ chan # None => up' # <<>>
      BY <1>1, <1>2, <1>6 DEF NewsInv, CommandsInOrder
    <2>4. CommandsInOrder'
      <3>1. ready' /\ chan' # None /\ up' # <<>> => up'[Len(up')].type = "subscribe"
        BY <1>1, <1>2 DEF NewsInv, CommandsInOrder
      <3> QED  BY <1>1, <1>4, <2>3, <3>1 DEF CommandsInOrder
    <2>5. PrefixTold'
      BY <1>1 DEF NewsInv, PrefixTold
    <2>6. AwaitsOK'
      <3> SUFFICES ASSUME ready, chan # None, ~chan.gapNotified PROVE Awaits(chan)'
        BY <1>1 DEF AwaitsOK
      <3>1. Awaits(chan)
        BY DEF NewsInv, AwaitsOK
      <3>2. Len(up') = 1 => up'[1].since = None
        BY <1>4
      <3>3. ~(chan.cursor # None /\ Asking(chan))
        BY <1>1, <1>2, <2>3, <3>1 DEF Awaits
      <3>4. /\ chan.cursor # None => (chan.cursor > count => Asking(chan))
            /\ chan.cursor # None /\ ~Anchored(chan) => prefix = <<epoch, chan.cursor>>
        BY <3>1 DEF Awaits
      <3> QED  BY <1>1, <2>3, <3>2, <3>3, <3>4 DEF Awaits, Asking, Anchored
    <2> QED  BY <1>1, <2>2, <2>4, <2>5, <2>6 DEF NewsInv
  <1> QED  BY <1>1, <1>5, <1>6

LEMMA DropNews ==
  ASSUME ActorInv, NewsInv, Drop
  PROVE  NewsInv'
  <1>1. /\ ready' = FALSE /\ dropped' = TRUE /\ serving' = FALSE
        /\ up' = <<>> /\ down' = <<>>
        /\ UNCHANGED <<readers, prefix>>
        /\ warned' \in {warned, readers}
    BY DEF Drop
  <1>2. warned \subseteq warned'
    BY <1>1 DEF ActorInv, ReadersOK
  <1>3. /\ (chan' = None) <=> (chan = None)
        /\ chan # None => /\ chan'.cursor = chan.cursor
                          /\ chan'.lastControl = chan.lastControl
                          /\ chan.gapNotified => chan'.gapNotified
    <2>1. CASE chan = None
      BY <2>1 DEF Drop
    <2>2. CASE chan # None
      <3> DEFINE d == Disconnected(chan)
      <3>1. /\ d \in Channel /\ d.cursor = chan.cursor
            /\ d.lastControl = chan.lastControl
            /\ d.gapNotified = (chan.gapNotified \/ Interrupted(chan))
        BY <2>2, DisconnectedOK
      <3> HIDE DEF d
      <3>2. chan' = d
        BY <2>2 DEF Drop, d
      <3> QED  BY <2>2, <3>1, <3>2, NoneAssumption
    <2> QED  BY <2>1, <2>2
  <1>4. DownInOrder' /\ CommandsInOrder' /\ AwaitsOK'
    BY <1>1 DEF DownInOrder, CommandsInOrder, AwaitsOK
  <1>5. PrefixTold'
    <2>1. CASE UNCHANGED <<epoch, count>> /\ informed \subseteq informed'
      BY <1>1, <1>2, <1>3, <2>1 DEF NewsInv, PrefixTold
    <2>2. CASE epoch' = epoch + 1
      <3>1. prefix[1] <= epoch' /\ prefix[1] # epoch'
        BY <2>2, NewsTypes DEF NewsInv, PrefixTold
      <3>2. prefix' # <<epoch', count'>>
        BY <1>1, <3>1
      <3> QED  BY <1>1, <1>3, <3>1, <3>2 DEF NewsInv, PrefixTold
    <2>3. \/ UNCHANGED <<epoch, count>> /\ informed' \in {informed, readers}
          \/ epoch' = epoch + 1
      BY DEF Drop
    <2> QED  BY <2>1, <2>2, <2>3 DEF ActorInv, ReadersOK
  <1> QED  BY <1>1, <1>4, <1>5 DEF NewsInv

\* What a gap leaves of the channel.
LEMMA GapLeaves ==
  ASSUME NEW c \in Channel
  PROVE  /\ GapNoted(c).gapNotified = TRUE
         /\ GapNoted(c).lastControl = c.lastControl
         /\ GapNoted(c) \in Channel
  BY GapNotedOK DEF GapNoted, Channel

\* A step that tells the readers more, and leaves the prefix alone.
LEMMA TellingKeepsPrefix ==
  ASSUME NewsInv, UNCHANGED <<epoch, count, readers, prefix>>,
         informed \subseteq informed', warned \subseteq warned',
         prefix # Hole => chan' # None /\ (chan'.lastControl \/ chan'.gapNotified)
  PROVE  PrefixTold'
  BY DEF NewsInv, PrefixTold

LEMMA TellMore ==
  ASSUME NEW S, NEW c, TellNobody \/ TellGap(c, S) \/ \E gap \in BOOLEAN : Tell(S, gap)
  PROVE  informed \subseteq informed' /\ warned \subseteq warned'
  BY DEF TellNobody, TellGap, Tell, told

LEMMA BecomeReadyNews ==
  ASSUME ActorInv, NewsInv, BecomeReady
  PROVE  NewsInv'
  <1>1. /\ ~ready /\ ready' = TRUE /\ dropped' = FALSE
        /\ UNCHANGED <<epoch, count, serving, down, readers, prefix>>
        /\ up = <<>> /\ down = <<>> /\ ~serving
    BY DEF BecomeReady, server, ActorInv, WireOK
  <1>2. DownInOrder'
    BY <1>1 DEF DownInOrder
  <1>3. CASE chan = None
    <2>1. UNCHANGED <<chan, up, informed, warned>>
      BY <1>3 DEF BecomeReady, told
    <2>2. CommandsInOrder' /\ AwaitsOK'
      BY <1>1, <1>3, <2>1 DEF CommandsInOrder, AwaitsOK
    <2>3. PrefixTold'
      BY <1>1, <1>3, <2>1 DEF NewsInv, PrefixTold
    <2> QED  BY <1>1, <1>2, <2>2, <2>3 DEF NewsInv
  <1>4. CASE chan # None
    <2> DEFINE c == Resumed(chan)
    <2>1. chan \in Channel
      BY <1>4, NewsTypes
    <2>2. /\ c \in Channel /\ c.cursor = chan.cursor /\ c.gapNotified = chan.gapNotified
          /\ c.lastControl = chan.lastControl
          /\ Asking(c)
      <3>1. c \in Channel /\ c.cursor = chan.cursor /\ c.gapNotified = chan.gapNotified
            /\ c.resume # None
        BY <2>1, ResumedOK
      <3>2. c.lastControl = chan.lastControl
        BY <2>1 DEF Resumed, Channel
      <3>3. c.resume.awaitingReset = TRUE
        BY <2>1 DEF Resumed, Channel
      <3> QED  BY <3>1, <3>2, <3>3 DEF Asking
    <2>3. /\ up' = <<Subscribe(chan)>> /\ Len(up') = 1 /\ up'[1] = Subscribe(chan)
          /\ up' # <<>>
      BY <1>4 DEF BecomeReady
    <2>4. up'[1].type = "subscribe" /\ up'[1].since = chan.cursor
      BY <2>3 DEF Subscribe
    <2>5. CommandsInOrder'
      BY <1>1, <2>3, <2>4 DEF CommandsInOrder
    <2> HIDE DEF c
    <2>6. CASE /\ chan' = [GapNoted(c) EXCEPT !.cursor = None, !.lastControl = FALSE]
               /\ TellGap(chan, readers)
      <3> DEFINE g == GapNoted(c)
      <3>1. g \in Channel /\ g.gapNotified = TRUE
        BY <2>2, GapLeaves
      <3> HIDE DEF g
      <3>2. chan' = [g EXCEPT !.cursor = None, !.lastControl = FALSE]
        BY <2>6 DEF g
      <3>3. chan' \in Channel /\ chan'.gapNotified = TRUE
        BY <3>1, <3>2 DEF Channel
      <3>4. AwaitsOK'
        BY <3>3 DEF AwaitsOK
      <3>5. chan' # None
        BY <3>2, <3>3, NoneAssumption
      <3>6. informed \subseteq informed' /\ warned \subseteq warned'
        BY <2>6, TellMore
      <3>7. PrefixTold'
        BY <1>1, <3>3, <3>5, <3>6, TellingKeepsPrefix
      <3> QED  BY <1>1, <1>2, <2>5, <3>4, <3>7 DEF NewsInv
    <2>7. CASE chan' = c /\ TellNobody /\ ~(dropped /\ ~Anchored(c))
      <3>1. chan' # None
        BY <2>2, <2>7, NoneAssumption
      <3>2. informed \subseteq informed' /\ warned \subseteq warned'
        BY <2>7, TellMore
      <3>3. PrefixTold'
        <4>1. prefix # Hole => chan.lastControl \/ chan.gapNotified
          BY DEF NewsInv, PrefixTold
        <4> QED  BY <1>1, <2>2, <2>7, <3>1, <3>2, <4>1, TellingKeepsPrefix
      <3>4. AwaitsOK'
        <4>1. c.cursor # None => Anchored(c)
          BY <1>1, <1>4, <2>2, <2>7 DEF NewsInv
        <4>2. chan'.cursor = up'[1].since
          BY <2>2, <2>4, <2>7
        <4> QED  BY <2>2, <2>3, <2>7, <4>1, <4>2 DEF AwaitsOK, Awaits, Asking, Anchored
      <3> QED  BY <1>1, <1>2, <2>5, <3>3, <3>4 DEF NewsInv
    <2> QED  BY <1>4, <2>6, <2>7 DEF BecomeReady, c
  <1> QED  BY <1>3, <1>4

LEMMA ReplayTimeoutNews ==
  ASSUME ActorInv, NewsInv, ReplayTimeout
  PROVE  NewsInv'
  <1> DEFINE c == [chan EXCEPT !.resume = None]
  <1>1. /\ ready /\ chan # None /\ chan' = GapNoted(c) /\ TellGap(chan, readers)
        /\ UNCHANGED <<epoch, count, serving, up, down, ready, dropped, readers, prefix>>
    BY DEF ReplayTimeout, server
  <1>2. c \in Channel
    BY <1>1, NewsTypes DEF Channel
  <1> HIDE DEF c
  <1>3. chan'.gapNotified = TRUE /\ chan' # None
    BY <1>1, <1>2, GapLeaves, NoneAssumption
  <1>4. informed \subseteq informed' /\ warned \subseteq warned'
    BY <1>1, TellMore
  <1>5. PrefixTold'
    BY <1>1, <1>3, <1>4, TellingKeepsPrefix
  <1>6. DownInOrder' /\ CommandsInOrder'
    BY <1>1, <1>3 DEF NewsInv, DownInOrder, CommandsInOrder, IsNews
  <1> QED  BY <1>1, <1>3, <1>5, <1>6 DEF NewsInv, AwaitsOK

LEMMA AppendCommand ==
  ASSUME up \in Seq(Commands), NEW cmd \in Commands, up' = Append(up, cmd),
         cmd.since = None, UNCHANGED <<down, serving>>,
         \A i \in 1..Len(up) : up[i].since # None => i = 1 /\ down = <<>> /\ ~serving
  PROVE  /\ up' # <<>> /\ up'[Len(up')] = cmd
         /\ Len(up') = 1 => up'[1] = cmd
         /\ \A i \in 1..Len(up') : up'[i].since # None => i = 1 /\ down' = <<>> /\ ~serving'
  <1>1. /\ Len(up') = Len(up) + 1 /\ up' # <<>> /\ Len(up) \in Nat
        /\ \A i \in 1..Len(up) : up'[i] = up[i]
        /\ up'[Len(up) + 1] = cmd
    OBVIOUS
  <1>2. \A i \in 1..Len(up') : i \in 1..Len(up) \/ i = Len(up) + 1
    BY <1>1
  <1> QED  BY <1>1, <1>2

LEMMA JoinNews ==
  ASSUME ActorInv, NewsInv, NEW r \in Readers, Join(r)
  PROVE  NewsInv'
  <1>1. /\ readers' = readers \cup {r}
        /\ UNCHANGED <<epoch, count, serving, down, ready, dropped, prefix>>
    BY DEF Join, server
  <1>2. DownInOrder'
    BY <1>1 DEF NewsInv, DownInOrder, IsNews
  <1>3. CASE chan = None
    <2>1. TellNobody
      BY <1>3 DEF Join
    <2>2. \/ ready /\ chan' = Resumed(FreshChannel) /\ up' = Append(up, Subscribe(FreshChannel))
          \/ ~ready /\ chan' = FreshChannel /\ up' = up
      BY <1>3 DEF Join
    <2>3. PrefixTold'
      <3>1. prefix = Hole
        BY <1>3 DEF NewsInv, PrefixTold
      <3>2. prefix' # <<epoch', count'>> /\ prefix'[1] = 0
        BY <1>1, <3>1, NewsTypes DEF Hole
      <3> QED  BY <1>1, <3>1, <3>2, NewsTypes DEF PrefixTold
    <2>4. FreshChannel \in Channel /\ FreshChannel.cursor = None
      BY DEF FreshChannel, Channel
    <2>5. chan'.cursor = None
      BY <2>2, <2>4, ResumedOK
    <2>6. CASE ready
      <3> DEFINE cmd == Subscribe(FreshChannel)
      <3>1. cmd \in Commands /\ cmd.type = "subscribe" /\ cmd.since = None
        BY DEF Subscribe, FreshChannel, Commands
      <3> HIDE DEF cmd
      <3>2. up' = Append(up, cmd)
        BY <2>2, <2>6 DEF cmd
      <3>3. /\ up' # <<>> /\ up'[Len(up')] = cmd
            /\ Len(up') = 1 => up'[1] = cmd
            /\ \A i \in 1..Len(up') : up'[i].since # None => i = 1 /\ down' = <<>> /\ ~serving'
        BY <1>1, <3>1, <3>2, AppendCommand, NewsTypes DEF NewsInv, CommandsInOrder
      <3>4. CommandsInOrder'
        BY <3>1, <3>3 DEF CommandsInOrder
      <3>5. AwaitsOK'
        BY <2>5, <3>1, <3>3 DEF AwaitsOK, Awaits
      <3> QED  BY <1>1, <1>2, <2>3, <2>6, <3>4, <3>5 DEF NewsInv
    <2>7. CASE ~ready
      <3>1. CommandsInOrder' /\ AwaitsOK'
        BY <1>1, <2>2, <2>7 DEF NewsInv, CommandsInOrder, AwaitsOK
      <3> QED  BY <1>1, <1>2, <2>3, <2>5, <3>1 DEF NewsInv
    <2> QED  BY <2>6, <2>7
  <1>4. CASE chan # None
    <2>1. UNCHANGED <<chan, up>> /\ Greet(r)
      BY <1>4 DEF Join
    <2>2. /\ informed \subseteq informed' /\ warned \subseteq warned'
          /\ chan.gapNotified \/ chan.lastControl => r \in informed'
      BY <2>1 DEF Greet, Tell, TellNobody, told
    <2>3. PrefixTold'
      <3>1. prefix # Hole => r \in informed'
        BY <2>2 DEF NewsInv, PrefixTold
      <3>2. prefix = <<epoch, count>> => prefix # Hole
        BY NewsTypes DEF Hole
      <3> QED  BY <1>1, <2>1, <2>2, <3>1, <3>2 DEF NewsInv, PrefixTold
    <2>4. CommandsInOrder' /\ AwaitsOK'
      BY <1>1, <2>1 DEF NewsInv, CommandsInOrder, AwaitsOK, Awaits, News, IsNews, Anchored,
                        Asking
    <2> QED  BY <1>1, <1>2, <2>1, <2>3, <2>4 DEF NewsInv
  <1> QED  BY <1>3, <1>4

LEMMA LeaveNews ==
  ASSUME ActorInv, NewsInv, NEW r \in Readers, Leave(r)
  PROVE  NewsInv'
  <1>1. /\ readers' = readers \ {r} /\ informed' = informed \ {r} /\ warned' = warned \ {r}
        /\ UNCHANGED <<epoch, count, serving, down, ready, dropped>>
        /\ \/ chan' = None /\ prefix' = Hole /\ ready /\ up' = Append(up, Unsubscribe)
           \/ chan' = None /\ prefix' = Hole /\ up' = up
           \/ UNCHANGED <<chan, up, prefix>>
    BY DEF Leave, server
  <1>2. DownInOrder'
    BY <1>1 DEF NewsInv, DownInOrder, IsNews
  <1>3. CASE UNCHANGED <<chan, up, prefix>>
    <2>1. PrefixTold'
      BY <1>1, <1>3 DEF NewsInv, PrefixTold
    <2>2. CommandsInOrder' /\ AwaitsOK'
      BY <1>1, <1>3 DEF NewsInv, CommandsInOrder, AwaitsOK, Awaits, News, IsNews, Anchored,
                        Asking
    <2> QED  BY <1>1, <1>2, <1>3, <2>1, <2>2 DEF NewsInv
  <1>4. CASE chan' = None /\ prefix' = Hole
    <2>1. PrefixTold'
      <3>1. prefix' # <<epoch', count'>> /\ prefix'[1] = 0
        BY <1>1, <1>4, NewsTypes DEF Hole
      <3> QED  BY <1>1, <1>4, <3>1, NewsTypes DEF PrefixTold
    <2>2. \A i \in 1..Len(up') : up'[i].since # None => i = 1 /\ down' = <<>> /\ ~serving'
      <3>1. Unsubscribe \in Commands /\ Unsubscribe.since = None
        BY DEF Unsubscribe, Commands
      <3>2. CASE up' = up
        BY <1>1, <3>2 DEF NewsInv, CommandsInOrder
      <3>3. CASE up' = Append(up, Unsubscribe)
        BY <1>1, <3>1, <3>3, AppendCommand, NewsTypes DEF NewsInv, CommandsInOrder
      <3> QED  BY <1>1, <3>2, <3>3
    <2>3. CommandsInOrder' /\ AwaitsOK'
      BY <1>4, <2>2 DEF CommandsInOrder, AwaitsOK
    <2> QED  BY <1>2, <1>4, <2>1, <2>3 DEF NewsInv
  <1> QED  BY <1>1, <1>3, <1>4

\* What is left on the wire once its first frame is taken.
LEMMA PopNews ==
  ASSUME ActorInv, NewsInv, down # <<>>, down' = Tail(down),
         UNCHANGED <<server, up, ready, dropped, readers>>,
         chan' # None => chan # None
  PROVE  /\ UNCHANGED <<epoch, count, serving, up, ready, dropped, readers>> /\ ready
         /\ DownInOrder' /\ CommandsInOrder'
         /\ Head(down).seq \in Nat /\ Head(down).seq <= count /\ Head(down).of = epoch
         /\ Head(down).seq \in Counts
         /\ News /\ ~IsNews(Head(down)) => News'
         /\ chan # None /\ up = <<>> /\ Head(down).type # "proof" =>
               IsNews(Head(down)) \/ News'
         /\ Len(up) = 1 => up[1].since = None
  <1> DEFINE q == down'
             n == Len(down)
  <1>1. /\ UNCHANGED <<epoch, count, serving>> /\ ready /\ Head(down) \in Frames(epoch)
        /\ Head(down).of = epoch /\ Head(down).seq \in Counts
    BY FrameOK DEF server
  <1>2. /\ Head(down) = down[1] /\ 1 \in 1..n /\ n \in Nat
        /\ Len(q) = n - 1 /\ Len(q) \in Nat
        /\ \A i \in 1..Len(q) : q[i] = down[i + 1] /\ i + 1 \in 1..n
    BY NewsTypes, TailOK
  <1> HIDE DEF q
  <1>3. \A i \in 1..Len(q) : q[i].seq <= count
    BY <1>2 DEF NewsInv, DownInOrder
  <1>4. \A j \in 1..n : j # 1 => j - 1 \in 1..Len(q) /\ q[j - 1] = down[j]
    <2>1. \A j \in 1..n : j # 1 => j - 1 \in 1..Len(q) /\ (j - 1) + 1 = j
      BY <1>2
    <2> QED  BY <1>2, <2>1
  <1>5. ASSUME serving, NEW i \in 1..Len(q), q[i].type # "proof"
        PROVE  \E j \in i..Len(q) : IsNews(q[j])
    <2>1. i + 1 \in 1..n /\ down[i + 1].type # "proof"
      BY <1>2, <1>5
    <2>2. PICK j \in (i + 1)..n : IsNews(down[j])
      BY <1>5, <2>1 DEF NewsInv, DownInOrder
    <2>3. j \in 1..n /\ j # 1 /\ j - 1 \in i..Len(q)
      BY <1>2, <2>2
    <2> QED  BY <1>4, <2>2, <2>3
  <1>6. DownInOrder'
    BY <1>1, <1>3, <1>5 DEF DownInOrder, q, IsNews
  <1>7. CommandsInOrder' /\ (Len(up) = 1 => up[1].since = None)
    <2>1. \A i \in 1..Len(up) : up[i].since = None
      BY DEF NewsInv, CommandsInOrder
    <2> QED  BY <1>1, <2>1 DEF NewsInv, CommandsInOrder
  <1>8. (\E j \in 1..Len(q) : IsNews(q[j])) => News'
    BY <1>1 DEF News, q, IsNews
  <1>9. News /\ ~IsNews(Head(down)) => News'
    <2> SUFFICES ASSUME News, ~IsNews(Head(down)) PROVE \E j \in 1..Len(q) : IsNews(q[j])
      BY <1>8
    <2>1. PICK j \in 1..n : IsNews(down[j])
      BY DEF News
    <2>2. j # 1
      BY <1>2, <2>1
    <2> QED  BY <1>4, <2>1, <2>2
  <1>10. chan # None /\ up = <<>> /\ Head(down).type # "proof" => News
    <2> SUFFICES ASSUME chan # None, up = <<>>, Head(down).type # "proof" PROVE News
      OBVIOUS
    <2>1. serving
      BY <1>1 DEF NewsInv, CommandsInOrder
    <2> QED  BY <1>2, <2>1 DEF NewsInv, DownInOrder, News
  <1>11. Head(down).seq \in Nat /\ Head(down).seq <= count
    BY <1>1, <1>2, Numbers DEF NewsInv, DownInOrder
  <1> QED  BY <1>1, <1>6, <1>7, <1>9, <1>10, <1>11

\* A channel that waits for no reset after a frame.
LEMMA AwaitsAfterFrame ==
  ASSUME UNCHANGED <<epoch, count, up>>,
         Len(up) = 1 => up[1].since = None,
         chan' # None /\ ~chan'.gapNotified =>
            /\ ~Asking(chan')
            /\ chan'.cursor # None => ~(chan'.cursor > count)
            /\ chan'.cursor # None /\ ~Anchored(chan') => prefix' = <<epoch, chan'.cursor>>
            /\ up = <<>> /\ ~News' => chan'.cursor = count
  PROVE  AwaitsOK'
  BY DEF AwaitsOK, Awaits, Asking, Anchored

LEMMA OtherFramesNews ==
  ASSUME ActorInv, NewsInv, Orphan \/ OnGarbled
  PROVE  NewsInv'
  <1>1. /\ down # <<>> /\ prefix' = prefix /\ down' = Tail(down)
        /\ UNCHANGED <<server, up, ready, dropped, readers>>
        /\ chan' # None => chan # None
    BY DEF Orphan, OnGarbled, Pop, Took
  <1>2. /\ UNCHANGED <<epoch, count, serving, up, ready, dropped, readers>> /\ ready
        /\ DownInOrder' /\ CommandsInOrder'
    BY <1>1, PopNews
  <1>3. CASE Orphan
    <2>1. chan' = None /\ UNCHANGED <<informed, warned, chan>>
      BY <1>3 DEF Orphan, told
    <2>2. PrefixTold'
      BY <1>1, <1>2, <2>1 DEF NewsInv, PrefixTold
    <2> QED  BY <1>2, <2>1, <2>2 DEF NewsInv, AwaitsOK
  <1>4. CASE OnGarbled
    <2>1. chan # None /\ chan' = GapNoted(chan) /\ TellGap(chan, readers) /\ chan \in Channel
      BY <1>4, NewsTypes DEF OnGarbled
    <2>2. chan'.gapNotified = TRUE /\ chan' # None
      BY <2>1, GapLeaves, NoneAssumption
    <2>3. informed \subseteq informed' /\ warned \subseteq warned'
      BY <2>1, TellMore
    <2>4. PrefixTold'
      BY <1>1, <1>2, <2>2, <2>3, TellingKeepsPrefix
    <2> QED  BY <1>2, <2>2, <2>4 DEF NewsInv, AwaitsOK
  <1> QED  BY <1>3, <1>4

LEMMA OnProofNews ==
  ASSUME ActorInv, NewsInv, OnProof
  PROVE  NewsInv'
  <1> DEFINE f == Head(down)
             c == [chan EXCEPT !.resume = None]
  <1>1. /\ down # <<>> /\ chan # None /\ prefix' = prefix /\ f.type = "proof"
        /\ down' = Tail(down) /\ UNCHANGED <<server, up, ready, dropped, readers>>
    BY DEF OnProof, Pop, Took
  <1>2. /\ UNCHANGED <<epoch, count, serving, up, ready, dropped, readers>> /\ ready
        /\ DownInOrder' /\ CommandsInOrder'
        /\ f.of = epoch
        /\ News /\ ~IsNews(f) => News'
        /\ Len(up) = 1 => up[1].since = None
    BY <1>1, PopNews
  <1>3. ~IsNews(f)
    BY <1>1 DEF IsNews
  <1>4. chan \in Channel /\ ChannelOK(chan)
    BY <1>1, NewsTypes
  <1>5. /\ c \in Channel /\ c.resume = None /\ c.cursor = chan.cursor
        /\ c.gapNotified = chan.gapNotified /\ c.lastControl = chan.lastControl
    BY <1>4 DEF Channel
  <1>6. informed \subseteq informed' /\ warned \subseteq warned'
    <2>1. TellNobody \/ TellGap(chan, readers)
      BY DEF OnProof
    <2> QED  BY <2>1, TellMore
  <1>7. prefix # Hole => chan.lastControl \/ chan.gapNotified
    BY DEF NewsInv, PrefixTold
  <1> HIDE DEF f, c
  <1>8. CASE chan.resume = None /\ UNCHANGED chan
    <2>1. PrefixTold'
      BY <1>1, <1>2, <1>6, <1>7, <1>8, TellingKeepsPrefix
    <2>2. AwaitsOK'
      BY <1>1, <1>2, <1>3, <1>8 DEF NewsInv, AwaitsOK, Awaits, Asking, Anchored
    <2> QED  BY <1>2, <2>1, <2>2 DEF NewsInv
  <1>9. CASE /\ chan.resume # None
             /\ Continuous(chan, f) \/ Baseline(chan, f)
             /\ chan' = [c EXCEPT !.epoch = f.of]
    <2>1. prefix = <<epoch, chan.cursor>>
      <3>1. chan.resume # None
        BY <1>9
      <3>2. CASE Continuous(chan, f)
        BY <1>2, <1>4, <3>1, <3>2 DEF Continuous, ChannelOK, EpochIsTrue, ResumeIsTrue
      <3>3. CASE Baseline(chan, f)
        BY <1>2, <1>4, <3>1, <3>3 DEF Baseline, ChannelOK, ResumeIsTrue
      <3> QED  BY <1>9, <3>2, <3>3
    <2>2. /\ chan' \in Channel /\ chan'.resume = None /\ chan'.cursor = chan.cursor
          /\ chan'.gapNotified = chan.gapNotified /\ chan'.lastControl = chan.lastControl
      BY <1>2, <1>4, <1>5, <1>9, NewsTypes DEF Channel
    <2>3. chan' # None
      BY <2>2, NoneAssumption
    <2>4. PrefixTold'
      BY <1>1, <1>2, <1>6, <1>7, <2>2, <2>3, TellingKeepsPrefix
    <2>5. AwaitsOK'
      <3>1. prefix[1] = epoch => prefix[2] <= count
        BY DEF NewsInv, PrefixTold
      <3>2. chan.cursor # None => ~(chan.cursor > count)
        BY <1>1, <2>1, <3>1, NewsTypes
      <3>3. up = <<>> /\ ~News' /\ ~chan.gapNotified => chan.cursor = count
        BY <1>1, <1>2, <1>3 DEF NewsInv, AwaitsOK, Awaits
      <3>4. ~Asking(chan')
        BY <2>2 DEF Asking
      <3> QED  BY <1>1, <1>2, <2>1, <2>2, <3>2, <3>3, <3>4, AwaitsAfterFrame
    <2> QED  BY <1>2, <2>4, <2>5 DEF NewsInv
  <1>10. CASE chan' = GapNoted(c)
    <2>1. chan'.gapNotified = TRUE /\ chan' # None
      BY <1>5, <1>10, GapLeaves, NoneAssumption
    <2>2. PrefixTold'
      BY <1>1, <1>2, <1>6, <2>1, TellingKeepsPrefix
    <2> QED  BY <1>2, <2>1, <2>2 DEF NewsInv, AwaitsOK
  <1> QED  BY <1>8, <1>9, <1>10 DEF OnProof, f, c

LEMMA OnControlNews ==
  ASSUME ActorInv, NewsInv, OnControl
  PROVE  NewsInv'
  <1> DEFINE f == Head(down)
             interrupted == chan.resume # None => chan.resume.anchorEpoch # None
             gapped == chan.resume # None /\ interrupted
             r == IF chan.resume = None THEN None
                  ELSE [chan.resume EXCEPT !.awaitingReset = FALSE,
                                           !.resetCursor = f.seq]
             c == [chan EXCEPT !.resume = r]
             g == IF gapped THEN GapNoted(c) ELSE [c EXCEPT !.gapNotified = FALSE]
  <1>1. /\ down # <<>> /\ chan # None /\ f.type \in {"initial", "gap"}
        /\ down' = Tail(down) /\ UNCHANGED <<server, up, ready, dropped, readers>>
    BY DEF OnControl, Pop, Took
  <1>2. /\ UNCHANGED <<epoch, count, serving, up, ready, dropped, readers>> /\ ready
        /\ DownInOrder' /\ CommandsInOrder'
        /\ f.of = epoch /\ f.seq \in Nat /\ f.seq <= count /\ f.seq \in Counts
        /\ News /\ ~IsNews(f) => News'
        /\ up = <<>> => IsNews(f) \/ News'
        /\ Len(up) = 1 => up[1].since = None
    BY <1>1, PopNews
  <1>3. chan \in Channel /\ (chan.cursor # None => chan.cursor \in Nat)
    BY <1>1, NewsTypes
  <1>4. IsNews(f) => f.seq = count
    BY <1>1 DEF IsNews
  <1> HIDE DEF f
  <1>5. CASE StaleControl(chan, f) /\ UNCHANGED <<chan, told, prefix>>
    <2>1. PrefixTold'
      BY <1>2, <1>5 DEF NewsInv, PrefixTold, told
    <2>2. AwaitsOK'
      <3> SUFFICES ASSUME ~chan.gapNotified PROVE AwaitsOK'
        BY <1>5 DEF AwaitsOK
      <3>1. Awaits(chan)
        BY <1>1, <1>2 DEF NewsInv, AwaitsOK
      <3>2. /\ chan.cursor # None /\ f.seq <= chan.cursor /\ ~Asking(chan)
        BY <1>5 DEF StaleControl, Asking
      <3>3. ~(chan.cursor > count)
        BY <3>1, <3>2 DEF Awaits
      <3>4. up = <<>> /\ ~News' => chan.cursor = count
        BY <1>2, <1>3, <1>4, <3>2, <3>3
      <3>5. ~Anchored(chan) => prefix = <<epoch, chan.cursor>>
        BY <3>1, <3>2 DEF Awaits
      <3> QED  BY <1>2, <1>5, <3>2, <3>3, <3>4, <3>5, AwaitsAfterFrame
    <2> QED  BY <1>1, <1>2, <1>5, <2>1, <2>2 DEF NewsInv
  <1>6. CASE /\ chan' = [g EXCEPT !.cursor = f.seq, !.lastControl = TRUE]
             /\ Tell(readers, f.type = "gap" \/ (gapped /\ ~chan.gapNotified))
             /\ prefix' = <<f.of, f.seq>>
    <2>1. r \in Resume \cup {None} /\ (r # None => r.awaitingReset = FALSE)
      BY <1>2, <1>3 DEF Channel, Resume
    <2> HIDE DEF r
    <2>2. c \in Channel /\ c.resume = r
      BY <1>3, <2>1 DEF Channel
    <2> HIDE DEF c
    <2>3. g \in Channel /\ (g.gapNotified \/ g.resume = r)
      BY <2>2, GapLeaves DEF Channel
    <2> HIDE DEF g
    <2>4. /\ chan' \in Channel /\ chan'.lastControl = TRUE /\ chan'.cursor = f.seq
          /\ chan'.gapNotified \/ chan'.resume = r
      BY <1>2, <1>6, <2>3 DEF Channel
    <2>5. chan' # None
      BY <2>4, NoneAssumption
    <2>6. informed' = informed \cup readers
      BY <1>6 DEF Tell
    <2>7. PrefixTold'
      BY <1>2, <1>6, <2>4, <2>5, <2>6, NewsTypes DEF PrefixTold
    <2>8. AwaitsOK'
      <3>1. ~chan'.gapNotified => ~Asking(chan')
        BY <2>1, <2>4 DEF Asking
      <3>2. ~(f.seq > count) /\ prefix' = <<epoch, f.seq>>
        BY <1>2, <1>6, NewsTypes
      <3>3. up = <<>> /\ ~News' => f.seq = count
        BY <1>2, <1>4
      <3> QED  BY <1>2, <2>4, <3>1, <3>2, <3>3, AwaitsAfterFrame
    <2> QED  BY <1>2, <2>7, <2>8 DEF NewsInv
  <1> QED  BY <1>5, <1>6 DEF OnControl, f

LEMMA OnEventNews ==
  ASSUME ActorInv, NewsInv, OnEvent
  PROVE  NewsInv'
  <1> DEFINE f == Head(down)
             r == IF chan.resume = None THEN None
                  ELSE [chan.resume EXCEPT !.awaitingReset = FALSE]
             c == [chan EXCEPT !.resume = r]
             jumps == chan.cursor # None => f.seq > chan.cursor + 1
             fresh == chan.cursor # None => f.seq > chan.cursor
             g == IF jumps THEN GapNoted(c) ELSE c
  <1>1. /\ down # <<>> /\ chan # None /\ f.type = "event"
        /\ down' = Tail(down) /\ UNCHANGED <<server, up, ready, dropped, readers>>
    BY DEF OnEvent, Pop, Took
  <1>2. /\ UNCHANGED <<epoch, count, serving, up, ready, dropped, readers>> /\ ready
        /\ DownInOrder' /\ CommandsInOrder'
        /\ f.of = epoch /\ f.seq \in Nat /\ f.seq <= count /\ f.seq \in Counts
        /\ News /\ ~IsNews(f) => News'
        /\ up = <<>> => IsNews(f) \/ News'
        /\ Len(up) = 1 => up[1].since = None
    BY <1>1, PopNews
  <1>3. chan \in Channel /\ (chan.cursor # None => chan.cursor \in Nat)
    BY <1>1, NewsTypes
  <1>4. IsNews(f) => f.seq = count
    BY <1>1 DEF IsNews
  <1>5. /\ r \in Resume \cup {None} /\ (r # None => r.awaitingReset = FALSE)
        /\ r # None => /\ chan.resume # None
                       /\ r.anchorEpoch = chan.resume.anchorEpoch
                       /\ r.anchorCursor = chan.resume.anchorCursor
        /\ chan.resume # None => r # None
    <2> DEFINE q == [chan.resume EXCEPT !.awaitingReset = FALSE]
    <2>1. chan.resume # None =>
            /\ q \in Resume /\ q.awaitingReset = FALSE
            /\ q.anchorEpoch = chan.resume.anchorEpoch
            /\ q.anchorCursor = chan.resume.anchorCursor
      BY <1>3 DEF Channel, Resume
    <2>2. r = IF chan.resume = None THEN None ELSE q
      OBVIOUS
    <2> HIDE DEF q, r
    <2> QED  BY <2>1, <2>2, NoneAssumption
  <1>6. c = [chan EXCEPT !.resume = IF @ = None THEN None
                                    ELSE [@ EXCEPT !.awaitingReset = FALSE]]
    BY <1>3 DEF Channel
  <1>7. \/ ~fresh /\ chan' = c /\ UNCHANGED <<told, prefix>>
        \/ /\ fresh
           /\ chan' = [g EXCEPT !.cursor = f.seq]
           /\ Tell(readers, jumps /\ ~chan.gapNotified)
           /\ prefix' = IF prefix = <<f.of, f.seq - 1>> THEN <<f.of, f.seq>> ELSE Hole
    <2> HIDE DEF c
    <2> QED  BY <1>6 DEF OnEvent
  <1> HIDE DEF f, r
  <1>8. /\ c \in Channel /\ c.resume = r /\ c.cursor = chan.cursor
        /\ c.gapNotified = chan.gapNotified /\ c.lastControl = chan.lastControl
    BY <1>3, <1>5 DEF Channel
  <1> HIDE DEF c
  <1>9. ~Asking(c)
    BY <1>5, <1>8 DEF Asking
  <1>10. Anchored(c) <=> Anchored(chan)
    BY <1>5, <1>8 DEF Anchored
  <1>11. prefix # Hole => chan.lastControl \/ chan.gapNotified
    BY DEF NewsInv, PrefixTold
  <1>12. ~chan.gapNotified => Awaits(chan)
    BY <1>1, <1>2 DEF NewsInv, AwaitsOK
  <1>13. CASE ~fresh /\ chan' = c /\ UNCHANGED <<told, prefix>>
    <2>1. chan' # None
      BY <1>8, <1>13, NoneAssumption
    <2>2. PrefixTold'
      BY <1>2, <1>8, <1>11, <1>13, <2>1 DEF NewsInv, PrefixTold, told
    <2>3. AwaitsOK'
      <3> SUFFICES ASSUME ~chan.gapNotified PROVE AwaitsOK'
        BY <1>8, <1>13 DEF AwaitsOK
      <3>1. Awaits(chan)
        BY <1>12
      <3>2. chan.cursor # None /\ f.seq <= chan.cursor
        BY <1>2, <1>3, <1>13
      <3>3. up = <<>> => ~(chan.cursor > count)
        <4> SUFFICES ASSUME up = <<>>, chan.cursor > count PROVE FALSE
          OBVIOUS
        <4>1. Head(down).type \in {"initial", "gap"}
          BY <3>1, <3>2 DEF Awaits
        <4> QED  BY <1>1, <4>1 DEF f
      <3>4. up # <<>> => ~(chan.cursor > count)
        <4> SUFFICES ASSUME up # <<>>, chan.cursor > count PROVE FALSE
          OBVIOUS
        <4>1. Len(up) = 1 /\ up[1].since = chan.cursor
          BY <3>1, <3>2 DEF Awaits
        <4> QED  BY <1>2, <3>2, <4>1
      <3>5. up = <<>> /\ ~News' => chan.cursor = count
        BY <1>2, <1>3, <1>4, <3>2, <3>3, NewsTypes
      <3>6. ~Anchored(chan) => prefix = <<epoch, chan.cursor>>
        BY <3>1, <3>2 DEF Awaits
      <3> QED  BY <1>2, <1>8, <1>9, <1>10, <1>13, <3>3, <3>4, <3>5, <3>6, AwaitsAfterFrame
    <2> QED  BY <1>2, <2>2, <2>3 DEF NewsInv
  <1>14. CASE /\ fresh
              /\ chan' = [g EXCEPT !.cursor = f.seq]
              /\ Tell(readers, jumps /\ ~chan.gapNotified)
              /\ prefix' = IF prefix = <<f.of, f.seq - 1>> THEN <<f.of, f.seq>> ELSE Hole
    <2>1. /\ g \in Channel /\ g.lastControl = chan.lastControl
          /\ chan.gapNotified => g.gapNotified
          /\ jumps => g.gapNotified
          /\ ~jumps => g = c
      BY <1>8, GapLeaves
    <2> HIDE DEF g
    <2>2. /\ chan' \in Channel /\ chan'.lastControl = chan.lastControl
          /\ chan'.cursor = f.seq /\ chan'.gapNotified = g.gapNotified
          /\ chan'.resume = g.resume
      BY <1>2, <1>14, <2>1 DEF Channel
    <2>3. chan' # None
      BY <2>2, NoneAssumption
    <2>4. informed' = informed \cup readers
      BY <1>14 DEF Tell
    <2>5. prefix' # Hole => prefix # Hole
      <3>1. prefix' # Hole => prefix = <<epoch, f.seq - 1>>
        BY <1>2, <1>14
      <3> QED  BY <3>1, NewsTypes DEF Hole
    <2>6. PrefixTold'
      <3>1. prefix' = <<epoch, f.seq>> \/ prefix' = Hole
        BY <1>2, <1>14
      <3>2. prefix'[1] <= epoch /\ (prefix'[1] = epoch => prefix'[2] <= count)
        BY <1>2, <3>1, NewsTypes DEF Hole
      <3> QED  BY <1>2, <1>11, <2>1, <2>2, <2>3, <2>4, <2>5, <3>2 DEF PrefixTold
    <2>7. AwaitsOK'
      <3> SUFFICES ASSUME ~g.gapNotified PROVE AwaitsOK'
        BY <2>2 DEF AwaitsOK
      <3>1. ~jumps /\ g = c /\ ~chan.gapNotified
        BY <2>1
      <3>2. Awaits(chan)
        BY <1>12, <3>1
      <3>3. chan.cursor # None /\ f.seq = chan.cursor + 1
        BY <1>2, <1>3, <1>14, <3>1
      <3>4. ~Anchored(chan') => prefix' = <<epoch, f.seq>>
        <4>1. Anchored(chan') <=> Anchored(chan)
          BY <1>10, <2>2, <3>1 DEF Anchored
        <4>2. ~Anchored(chan) => prefix = <<epoch, chan.cursor>>
          BY <3>2, <3>3 DEF Awaits
        <4>3. chan.cursor = f.seq - 1
          BY <1>3, <3>3
        <4> QED  BY <1>2, <1>14, <4>1, <4>2, <4>3
      <3>5. ~Asking(chan')
        BY <1>9, <2>2, <3>1 DEF Asking
      <3>6. ~(f.seq > count) /\ (up = <<>> /\ ~News' => f.seq = count)
        BY <1>2, <1>4, NewsTypes
      <3> QED  BY <1>2, <2>2, <3>4, <3>5, <3>6, AwaitsAfterFrame
    <2> QED  BY <1>2, <2>6, <2>7 DEF NewsInv
  <1> QED  BY <1>7, <1>13, <1>14

LEMMA NewsInvInit == Init => NewsInv
  <1> SUFFICES ASSUME Init PROVE NewsInv
    OBVIOUS
  <1>1. DownInOrder /\ CommandsInOrder /\ AwaitsOK
    BY DEF Init, DownInOrder, CommandsInOrder, AwaitsOK
  <1>2. PrefixTold
    BY DEF Init, PrefixTold, Hole
  <1> QED  BY <1>1, <1>2 DEF Init, NewsInv

LEMMA NewsInvStep == ActorInv /\ NewsInv /\ [Next]_vars => NewsInv'
  <1> SUFFICES ASSUME ActorInv, NewsInv, [Next]_vars PROVE NewsInv'
    OBVIOUS
  <1>1. CASE Produce
    BY <1>1, ProduceNews
  <1>2. CASE ServerReceives
    BY <1>2, ServerReceivesNews
  <1>3. ASSUME NEW r \in Readers, Join(r) PROVE NewsInv'
    BY <1>3, JoinNews
  <1>4. ASSUME NEW r \in Readers, Leave(r) PROVE NewsInv'
    BY <1>4, LeaveNews
  <1>5. CASE BecomeReady
    BY <1>5, BecomeReadyNews
  <1>6. CASE Drop
    BY <1>6, DropNews
  <1>7. CASE ReplayTimeout
    BY <1>7, ReplayTimeoutNews
  <1>8. CASE Orphan \/ OnGarbled
    BY <1>8, OtherFramesNews
  <1>9. CASE OnProof
    BY <1>9, OnProofNews
  <1>10. CASE OnControl
    BY <1>10, OnControlNews
  <1>11. CASE OnEvent
    BY <1>11, OnEventNews
  <1>12. CASE UNCHANGED vars
    BY <1>12 DEF vars, server, told, NewsInv, DownInOrder, CommandsInOrder, PrefixTold,
                 AwaitsOK, Awaits, News, IsNews, Asking, Anchored
  <1> QED  BY <1>1, <1>2, <1>3, <1>4, <1>5, <1>6, <1>7, <1>8, <1>9, <1>10, <1>11, <1>12
           DEF Next, Deliver

\* When nothing is under way between the channel and the server, every reader has
\* been told something since the producer's last event or shows the warning of a
\* gap, whatever was dropped, replayed, reset, proved or given up, and whichever
\* readers came and went (subscribeActor, acknowledgeWelcome, handleActorEvent,
\* handleActorControl, handleActorReplayComplete).
THEOREM NoSilentLossAlways == Spec => []NoSilentLoss
  <1>1. ActorInv /\ NewsInv => NoSilentLoss
    <2> SUFFICES ASSUME ActorInv, NewsInv, Quiet
                 PROVE  readers \subseteq informed \cup warned
      BY DEF NoSilentLoss
    <2>1. /\ ready /\ serving /\ up = <<>> /\ down = <<>> /\ chan # None
          /\ ~Anchored(chan)
      BY DEF Quiet
    <2>2. CASE chan.gapNotified
      BY <2>1, <2>2 DEF ActorInv, ChannelOK
    <2>3. CASE ~chan.gapNotified
      <3>1. Awaits(chan)
        BY <2>1, <2>3 DEF NewsInv, AwaitsOK
      <3>2. ~News
        BY <2>1 DEF News
      <3>3. chan.cursor = count /\ chan.cursor # None
        BY <2>1, <3>1, <3>2, NewsTypes, Numbers DEF Awaits
      <3>4. prefix = <<epoch, count>>
        BY <2>1, <3>1, <3>3 DEF Awaits
      <3> QED  BY <3>4 DEF NewsInv, PrefixTold
    <2> QED  BY <2>2, <2>3
  <1>2. Spec => [](ActorInv /\ NewsInv)
    <2>1. Init => ActorInv /\ NewsInv
      BY ActorInvInit, NewsInvInit
    <2>2. ActorInv /\ NewsInv /\ [Next]_vars => (ActorInv /\ NewsInv)'
      BY ActorInvStep, NewsInvStep
    <2> QED  BY <2>1, <2>2, PTL DEF Spec
  <1> QED  BY <1>1, <1>2, PTL
=============================================================================
