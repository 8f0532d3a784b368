------------------------- MODULE ConversationProofs -------------------------
(***************************************************************************)
(* Conversation, for any number of clears and turns: its types, that a     *)
(* clear is dealt with honestly, that what is shown never goes back, and   *)
(* that a finished answer stays until the history has it.                  *)
(*                                                                         *)
(* All four rest on an order: the conversation shown, then what a read     *)
(* that still counts has in hand, then the server (Upto).  Only one read   *)
(* counts at a time, and an event of a clear takes away those that may     *)
(* have missed it, so that applying a read can only move the page forward. *)
(***************************************************************************)
EXTENDS Conversation, TLAPS

Servers == [gen : 0..MaxClears, turns : 0..MaxTurns, saved : SUBSET (1..MaxTurns),
            run : BOOLEAN, post : BOOLEAN, own : 0..MaxClears]
ReadsBy == {"verify", "refresh", "clear", "open", "sent", "reconcile", "settle"}
Reading == [by : ReadsBy, st : {"asked", "half", "answered", "detailed"},
            after : BOOLEAN, snap : History]
Clears  == [step : {"none", "preflight", "posted", "verifying", "refreshing"},
            error : {"none", "refused", "unknown", "readback_failed"},
            confirmed : BOOLEAN]
Intents == [required : BOOLEAN, deferred : BOOLEAN, acknowledged : BOOLEAN]
Answers == (0..MaxClears) \X (0..MaxTurns)
Panes   == [st : {"away", "idle", "streaming", "settling", "retained"},
            answer : Answers, valid : BOOLEAN, confirmed : BOOLEAN, lapsed : BOOLEAN]

\* `d` is a later state of the conversation than `c`, or the same.
Upto(c, d) ==
    \/ d.gen > c.gen
    \/ d.gen = c.gen /\ d.turns >= c.turns /\ c.saved \subseteq d.saved

\* The question of answer `a` is in `c`, or was cleared since.
Asked(a, c) == a[1] < c.gen \/ (a[1] = c.gen /\ a[2] <= c.turns)

InHand(r) == r.st \in {"answered", "detailed"}

ServerOK ==
    /\ srv \in Servers /\ feed \in Nat /\ feed <= srv.gen /\ srv.own <= srv.gen
    /\ srv.run => srv.turns >= 1
    /\ srv.saved \subseteq 1..srv.turns
    /\ srv.post => srv.own = 0

ChatOK ==
    /\ chat \in History /\ timer \in BOOLEAN
    /\ Upto(chat, srv)
    /\ chat.gen + feed < srv.gen => intent.required

ReadOK(r) ==
    /\ r \in Reading
    /\ InHand(r) => /\ Upto(chat, r.snap) /\ Upto(r.snap, srv)
                    /\ r.snap.saved \subseteq 1..r.snap.turns
                    /\ r.snap.gen + feed >= srv.gen
    /\ r.by = "verify" => clear.step = "verifying" /\ r.st # "detailed"
    /\ r.by = "verify" /\ r.st = "answered" /\ r.after => r.snap.turns = 0
    /\ r.by # "verify" => r.st # "half" /\ (r.after <=> r.st = "detailed")

ReadsOK ==
    /\ \A r \in reads : ReadOK(r)
    /\ reads # {} => \E r \in reads : reads = {r}

ClearOK ==
    /\ clear \in Clears /\ intent \in Intents
    /\ intent.deferred => /\ Busy /\ intent.required
                          /\ \A r \in reads : r.by = "verify"
    /\ intent.acknowledged => srv.own # 0 /\ clear.step \notin {"preflight", "posted"}
    /\ srv.post => clear.step = "posted" \/ clear.error = "unknown"
    /\ clear.confirmed => /\ clear.step = "none" /\ clear.error = "none"
                          /\ srv.own # 0 /\ chat.gen >= srv.own
    /\ clear.step \in {"preflight", "posted"} => clear.error = "none"
    /\ intent.acknowledged /\ clear.error # "unknown" =>
         \A r \in reads : r.by = "verify" /\ InHand(r) => r.snap.gen >= srv.own

AnswersOK ==
    /\ records \subseteq (0..MaxClears) \X (1..MaxTurns)
    /\ pane \in Panes
    /\ pane.st = "streaming" => pane.answer[2] >= 1
    /\ /\ pane.st \in {"settling", "retained"} /\ pane.valid
       /\ ~pane.confirmed /\ ~pane.lapsed
       => pane.answer \in records
    /\ \A a \in records \cup {pane.answer} :
         /\ Asked(a, srv)
         /\ \A r \in reads : r.by = "verify" /\ InHand(r) => Asked(a, r.snap)

ConvInv == ServerOK /\ ChatOK /\ ReadsOK /\ ClearOK /\ AnswersOK

-----------------------------------------------------------------------------
(* The order, and the shapes.                                               *)

LEMMA UptoTransitive ==
  ASSUME NEW b, NEW c, NEW d, b.gen \in Nat, c.gen \in Nat, d.gen \in Nat,
         b.turns \in Nat, c.turns \in Nat, d.turns \in Nat, Upto(b, c), Upto(c, d)
  PROVE  Upto(b, d)
  BY DEF Upto

LEMMA UptoSelf ==
  ASSUME NEW c, c.gen \in Nat, c.turns \in Nat
  PROVE  Upto(c, c)
  BY DEF Upto

LEMMA AskedStays ==
  ASSUME NEW a \in Answers, NEW c, NEW d, c.gen \in Nat, d.gen \in Nat,
         c.turns \in Nat, d.turns \in Nat, Asked(a, c), Upto(c, d)
  PROVE  Asked(a, d)
  <1>1. a[1] \in Nat /\ a[2] \in Nat
    BY BoundsAssumption DEF Answers
  <1> QED  BY <1>1 DEF Asked, Upto

LEMMA Shapes ==
  ASSUME ConvInv
  PROVE  /\ srv.gen \in 0..MaxClears /\ srv.gen \in Nat /\ srv.turns \in 0..MaxTurns
         /\ srv.turns \in Nat /\ srv.own \in Nat /\ feed \in Nat
         /\ chat.gen \in Nat /\ chat.turns \in Nat /\ chat.gen <= srv.gen
         /\ pane.answer \in Answers /\ records \subseteq Answers
         /\ \A r \in reads : r.snap \in History /\ r.snap.gen \in Nat /\ r.snap.turns \in Nat
  <1>1. srv \in Servers /\ chat \in History /\ pane \in Panes /\ feed \in Nat
    BY DEF ConvInv, ServerOK, ChatOK, AnswersOK
  <1>2. srv.gen \in Nat /\ srv.turns \in Nat /\ srv.own \in Nat
    BY <1>1, BoundsAssumption DEF Servers
  <1>3. chat.gen \in Nat /\ chat.turns \in Nat
    BY <1>1, BoundsAssumption DEF History
  <1>4. chat.gen <= srv.gen
    BY <1>2, <1>3 DEF ConvInv, ChatOK, Upto
  <1>5. ASSUME NEW r \in reads
        PROVE  r.snap \in History /\ r.snap.gen \in Nat /\ r.snap.turns \in Nat
    BY BoundsAssumption DEF ConvInv, ReadsOK, ReadOK, Reading, History
  <1>6. records \subseteq Answers
    BY DEF ConvInv, AnswersOK, Answers
  <1> QED  BY <1>1, <1>2, <1>3, <1>4, <1>5, <1>6 DEF Servers, Panes

\* A read that has just been started, and the one there is.
LEMMA OneRead ==
  ASSUME ReadsOK, NEW r \in reads
  PROVE  reads = {r}
  BY DEF ReadsOK

LEMMA EmptyIsHistory == Empty(0) \in History
  BY BoundsAssumption DEF Empty, History

LEMMA NewReads ==
  ASSUME NEW by \in ReadsBy, reads' \in {{}, {Read(by)}},
         by = "verify" => clear'.step = "verifying"
  PROVE  ReadsOK' /\ \A r \in reads' : ~InHand(r)
  <1>1. Read(by) \in Reading
    BY EmptyIsHistory DEF Read, Reading
  <1>2. Read(by).st = "asked" /\ ~Read(by).after /\ Read(by).by = by
    BY DEF Read
  <1>3. \A r \in reads' : r = Read(by)
    OBVIOUS
  <1>4. \A r \in reads' : ~InHand(r)
    BY <1>2, <1>3 DEF InHand
  <1>5. \A r \in reads' : ReadOK(r)'
    BY <1>1, <1>2, <1>3, <1>4 DEF ReadOK, InHand
  <1> QED  BY <1>4, <1>5 DEF ReadsOK

LEMMA StartIs ==
  ASSUME NEW by
  PROVE  Retired(reads) = {} /\ (Start(by) => reads' = {Read(by)})
  BY DEF Retired, Start

\* The same reads, of a server and a page that stand still.
LEMMA SameReads ==
  ASSUME ReadsOK, UNCHANGED <<srv, feed, chat>>, reads' \subseteq reads,
         reads' # {} => \E r \in reads' : reads' = {r},
         \A r \in reads' : r.by = "verify" => clear'.step = "verifying"
  PROVE  ReadsOK'
  <1> SUFFICES ASSUME NEW r \in reads'
               PROVE  ReadOK(r)'
    BY DEF ReadsOK
  <1>1. ReadOK(r)
    BY DEF ReadsOK
  <1> QED  BY <1>1 DEF ReadOK, InHand

-----------------------------------------------------------------------------
(* The server.                                                              *)

\* The server moves on: what the page and its reads have stays behind it.
LEMMA ServerMoves ==
  ASSUME ConvInv, srv' \in Servers, Upto(srv, srv'), feed' \in Nat,
         srv'.gen + feed = srv.gen + feed', srv'.gen >= srv.gen,
         srv'.own <= srv'.gen, srv'.run => srv'.turns >= 1,
         srv'.saved \subseteq 1..srv'.turns,
         \/ srv'.own = srv.own /\ srv'.post = srv.post
         \/ srv.post /\ srv'.own # 0 /\ ~srv'.post,
         UNCHANGED <<chat, reads, clear, intent, timer, records, pane>>
  PROVE  ConvInv'
  <1> USE Shapes
  <1>1. srv'.gen \in Nat /\ srv'.turns \in Nat
    BY BoundsAssumption DEF Servers
  <1>2. ServerOK'
    BY <1>1 DEF ConvInv, ServerOK
  <1>3. ChatOK'
    <2>1. Upto(chat, srv')
      BY <1>1, UptoTransitive DEF ConvInv, ChatOK
    <2>2. chat.gen + feed' < srv'.gen => chat.gen + feed < srv.gen
      BY <1>1
    <2> QED  BY <2>1, <2>2 DEF ConvInv, ChatOK
  <1>4. ReadsOK'
    <2> SUFFICES ASSUME NEW r \in reads
                 PROVE  ReadOK(r)'
      BY DEF ConvInv, ReadsOK
    <2>1. ReadOK(r) /\ r.snap.gen \in Nat /\ r.snap.turns \in Nat
      BY DEF ConvInv, ReadsOK
    <2>2. InHand(r) => Upto(r.snap, srv')
      BY <1>1, <2>1, UptoTransitive DEF ReadOK
    <2>3. InHand(r) => r.snap.gen + feed' >= srv'.gen
      BY <1>1, <2>1 DEF ReadOK
    <2> QED  BY <2>1, <2>2, <2>3 DEF ReadOK, InHand
  <1>5. ClearOK'
    <2>1. CASE srv'.own = srv.own /\ srv'.post = srv.post
      BY <2>1 DEF ConvInv, ClearOK, Busy, InHand
    <2>2. CASE srv.post /\ srv'.own # 0 /\ ~srv'.post
      <3>1. clear.step = "posted" \/ clear.error = "unknown"
        BY <2>2 DEF ConvInv, ClearOK
      <3>2. ~clear.confirmed
        BY <3>1 DEF ConvInv, ClearOK
      <3>3. intent.acknowledged => clear.error = "unknown"
        BY <3>1 DEF ConvInv, ClearOK
      <3> QED  BY <2>2, <3>1, <3>2, <3>3 DEF ConvInv, ClearOK, Busy
    <2> QED  BY <2>1, <2>2
  <1>6. AnswersOK'
    <2>1. \A a \in records \cup {pane.answer} : Asked(a, srv')
      BY <1>1, AskedStays DEF ConvInv, AnswersOK
    <2> QED  BY <2>1 DEF ConvInv, AnswersOK, InHand
  <1> QED  BY <1>2, <1>3, <1>4, <1>5, <1>6 DEF ConvInv

LEMMA ErasedIs ==
  ASSUME ConvInv, CanClear
  PROVE  /\ Erased \in Servers /\ Erased.gen = srv.gen + 1 /\ Erased.turns = 0
         /\ Erased.saved = {} /\ ~Erased.run /\ Erased.own = srv.own /\ Erased.post = srv.post
         /\ Upto(srv, Erased) /\ srv.gen + 1 \in 0..MaxClears
  <1>1. srv \in Servers /\ ~srv.run /\ srv.gen < MaxClears
    BY DEF ConvInv, ServerOK, CanClear
  <1>2. srv.gen + 1 \in 0..MaxClears /\ 0 \in 0..MaxTurns /\ {} \in SUBSET (1..MaxTurns)
    BY <1>1, Shapes, BoundsAssumption
  <1>3. /\ Erased.gen = srv.gen + 1 /\ Erased.turns = 0 /\ Erased.saved = {}
        /\ Erased.run = srv.run /\ Erased.own = srv.own /\ Erased.post = srv.post
    BY <1>1 DEF Erased, Servers
  <1>4. Erased \in Servers
    BY <1>1, <1>2 DEF Erased, Servers
  <1>5. Upto(srv, Erased)
    BY <1>3, Shapes DEF Upto
  <1> QED  BY <1>1, <1>2, <1>3, <1>4, <1>5

LEMMA ServerSteps ==
  ASSUME ConvInv, RunEnds \/ OtherClears \/ OtherSends \/ ServerClears
  PROVE  ConvInv'
  <1>1. /\ srv \in Servers /\ feed <= srv.gen /\ srv.own <= srv.gen /\ feed \in Nat
        /\ srv.saved \subseteq 1..srv.turns /\ (srv.run => srv.turns >= 1)
        /\ srv.gen \in Nat /\ srv.turns \in Nat /\ srv.own \in Nat
    BY Shapes DEF ConvInv, ServerOK
  <1>2. CASE RunEnds
    <2>1. PICK saved \in {srv.saved, srv.saved \cup {srv.turns}} :
             srv' = [srv EXCEPT !.run = FALSE, !.saved = saved]
      BY <1>2 DEF RunEnds
    <2>2. srv.turns >= 1
      BY <1>1, <1>2 DEF RunEnds
    <2>3. saved \subseteq 1..srv.turns /\ srv.saved \subseteq saved /\ saved \in SUBSET (1..MaxTurns)
      <3>1. srv.turns \in 1..srv.turns /\ 1..srv.turns \subseteq 1..MaxTurns
        BY <1>1, <2>2, Shapes, BoundsAssumption
      <3>2. saved \subseteq srv.saved \cup {srv.turns} /\ srv.saved \subseteq saved
        BY <2>1
      <3> QED  BY <1>1, <3>1, <3>2
    <2>4. /\ srv'.gen = srv.gen /\ srv'.turns = srv.turns /\ srv'.saved = saved /\ ~srv'.run
          /\ srv'.own = srv.own /\ srv'.post = srv.post
      BY <1>1, <2>1 DEF Servers
    <2>5. srv' \in Servers
      BY <1>1, <2>1, <2>3 DEF Servers
    <2>6. Upto(srv, srv')
      BY <1>1, <2>3, <2>4 DEF Upto
    <2>7. UNCHANGED <<feed, chat, reads, clear, intent, timer, records, pane>>
      BY <1>2 DEF RunEnds
    <2> QED  BY <1>1, <2>3, <2>4, <2>5, <2>6, <2>7, ServerMoves
  <1>3. CASE OtherClears
    BY <1>1, <1>3, ErasedIs, ServerMoves DEF OtherClears
  <1>4. CASE OtherSends
    <2>1. /\ srv' = [srv EXCEPT !.turns = @ + 1, !.run = TRUE]
          /\ srv.gen + srv.turns < MaxTurns
          /\ UNCHANGED <<feed, chat, reads, clear, intent, timer, records, pane>>
      BY <1>4 DEF OtherSends
    <2>2. srv.turns + 1 \in 0..MaxTurns
      BY <1>1, <2>1, BoundsAssumption
    <2>3. /\ srv'.gen = srv.gen /\ srv'.turns = srv.turns + 1 /\ srv'.saved = srv.saved
          /\ srv'.own = srv.own /\ srv'.post = srv.post
      BY <1>1, <2>1 DEF Servers
    <2>4. srv' \in Servers
      BY <1>1, <2>1, <2>2 DEF Servers
    <2>5. Upto(srv, srv') /\ srv'.saved \subseteq 1..srv'.turns
      BY <1>1, <2>3 DEF Upto
    <2> QED  BY <1>1, <2>1, <2>3, <2>4, <2>5, ServerMoves
  <1>5. CASE ServerClears
    <2>1. /\ srv.post /\ CanClear /\ feed' = feed + 1
          /\ srv' = [Erased EXCEPT !.post = FALSE, !.own = srv.gen + 1]
          /\ UNCHANGED <<chat, reads, clear, intent, timer, records, pane>>
      BY <1>5 DEF ServerClears
    <2>2. Erased \in Servers /\ srv.gen + 1 \in 0..MaxClears
      BY <2>1, ErasedIs
    <2>3. /\ srv'.gen = Erased.gen /\ srv'.turns = Erased.turns /\ srv'.saved = Erased.saved
          /\ srv'.run = Erased.run /\ srv'.own = srv.gen + 1 /\ ~srv'.post
      BY <2>1, <2>2 DEF Servers
    <2>4. srv' \in Servers
      BY <2>1, <2>2 DEF Servers
    <2>5. /\ Erased.gen = srv.gen + 1 /\ Erased.turns = 0 /\ Erased.saved = {} /\ ~Erased.run
      BY <2>1, ErasedIs
    <2>6. Upto(srv, srv')
      BY <1>1, <2>3, <2>5 DEF Upto
    <2> QED  BY <1>1, <2>1, <2>3, <2>4, <2>5, <2>6, ServerMoves
  <1> QED  BY <1>2, <1>3, <1>4, <1>5

-----------------------------------------------------------------------------
(* The reads.                                                               *)

\* A change of the reads alone.  Of a verification that has its answer, that
\* answer is new: it is what the server has now.
LEMMA ReadsMove ==
  ASSUME ConvInv, UNCHANGED <<srv, feed, chat, clear, intent, timer, records, pane>>,
         ReadsOK', \A r \in reads' : \E q \in reads : q.by = r.by,
         \A r \in reads' : r.by = "verify" /\ InHand(r) => r.snap = Snapshot \/ r \in reads
  PROVE  ConvInv'
  <1> USE Shapes
  <1>1. Snapshot.gen = srv.gen /\ Snapshot.turns = srv.turns
    BY DEF Snapshot
  <1>2. \A a \in Answers : Asked(a, srv) => Asked(a, Snapshot)
    BY <1>1 DEF Asked
  <1>3. AnswersOK'
    <2>1. \A a \in records \cup {pane.answer} :
            \A r \in reads' : r.by = "verify" /\ InHand(r) => Asked(a, r.snap)
      BY <1>2 DEF ConvInv, AnswersOK
    <2> QED  BY <2>1 DEF ConvInv, AnswersOK, InHand
  <1>4. ClearOK'
    <2>1. intent.acknowledged /\ clear.error # "unknown" =>
            \A r \in reads' : r.by = "verify" /\ InHand(r) => r.snap.gen >= srv.own
      BY <1>1 DEF ConvInv, ClearOK, ServerOK
    <2> QED  BY <2>1 DEF ConvInv, ClearOK, Busy, InHand
  <1>5. ServerOK' /\ ChatOK'
    BY DEF ConvInv, ServerOK, ChatOK
  <1> QED  BY <1>3, <1>4, <1>5 DEF ConvInv

\* A read that changed, where it was the only one.
LEMMA Became ==
  ASSUME ReadsOK, NEW r \in reads, NEW new, Becomes(r, new)
  PROVE  reads' = {new}
  BY OneRead DEF Becomes

LEMMA AnswerStep ==
  ASSUME ConvInv, NEW r \in reads, ServerAnswers(r)
  PROVE  ConvInv'
  <1> DEFINE first == r.by = "verify" /\ r.st = "asked"
             new == [r EXCEPT !.st = IF first THEN "half" ELSE "answered",
                              !.snap = IF first THEN @ ELSE Snapshot,
                              !.after = r.by = "verify" /\ srv.turns = 0
                                        /\ IF first THEN ~srv.run ELSE @]
  <1>1. /\ r.st \in {"asked", "half"} /\ Becomes(r, new)
        /\ UNCHANGED <<srv, feed, chat, clear, intent, timer, records, pane>>
    BY DEF ServerAnswers
  <1>2. ReadOK(r) /\ r \in Reading /\ reads' = {new}
    BY <1>1, Became DEF ConvInv, ReadsOK, ReadOK
  <1>3. /\ Snapshot \in History /\ Snapshot.gen = srv.gen /\ Snapshot.turns = srv.turns
        /\ Snapshot.saved = srv.saved
    BY Shapes DEF Snapshot, History, ConvInv, ServerOK, Servers
  <1>4. new.by = r.by /\ (first => new.st = "half" /\ new.snap = r.snap)
        /\ (~first => new.st = "answered" /\ new.snap = Snapshot)
        /\ (new.after => r.by = "verify" /\ srv.turns = 0)
    BY <1>2 DEF Reading
  <1>5. new \in Reading
    <2>1. new.st \in {"half", "answered"} /\ new.snap \in History /\ new.after \in BOOLEAN
      BY <1>2, <1>3 DEF Reading
    <2> QED  BY <1>2, <1>3 DEF Reading
  <1> HIDE DEF new
  <1>6. InHand(new) => new.snap = Snapshot
    BY <1>4 DEF InHand
  <1>7. Upto(chat, Snapshot) /\ Upto(Snapshot, srv)
    BY <1>3, Shapes DEF ConvInv, ChatOK, Upto
  <1>8. Snapshot.gen + feed >= srv.gen /\ Snapshot.saved \subseteq 1..Snapshot.turns
    BY <1>3, Shapes DEF ConvInv, ServerOK
  <1>9. ReadOK(new)
    <2>1. new.by = "verify" => clear.step = "verifying"
      BY <1>2, <1>4 DEF ReadOK
    <2>2. new.by = "verify" /\ new.st = "answered" /\ new.after => new.snap.turns = 0
      BY <1>3, <1>4
    <2>3. new.by # "verify" => new.st = "answered" /\ ~new.after
      BY <1>4
    <2>4. new.st # "detailed"
      BY <1>4
    <2> QED  BY <1>5, <1>6, <1>7, <1>8, <2>1, <2>2, <2>3, <2>4 DEF ReadOK
  <1>11. ReadsOK'
    <2>1. ASSUME NEW x \in reads'
          PROVE  ReadOK(x)'
      <3>1. ReadOK(x)
        BY <1>2, <1>9
      <3> QED  BY <1>1, <3>1 DEF ReadOK, InHand
    <2> QED  BY <1>2, <2>1 DEF ReadsOK
  <1> QED  BY <1>1, <1>2, <1>4, <1>6, <1>11, ReadsMove

LEMMA ReadSteps ==
  ASSUME ConvInv, NEW r \in reads, AsksDetail(r) \/ WaitsForAssistant(r) \/ ReadFails(r)
  PROVE  ConvInv'
  <1>1. UNCHANGED <<srv, feed, chat, clear, intent, timer, records, pane>>
    BY DEF AsksDetail, WaitsForAssistant, ReadFails
  <1>2. ReadOK(r) /\ r \in Reading /\ ReadsOK /\ reads = {r}
    BY OneRead DEF ConvInv, ReadsOK, ReadOK
  <1>3. CASE AsksDetail(r)
    <2> DEFINE new == [r EXCEPT !.st = "detailed", !.after = TRUE]
    <2>1. r.st = "answered" /\ r.by # "verify" /\ reads' = {new}
      BY <1>2, <1>3, Became DEF AsksDetail
    <2>2. new \in Reading /\ new.by = r.by /\ new.st = "detailed" /\ new.after /\ new.snap = r.snap
      BY <1>2 DEF Reading
    <2> HIDE DEF new
    <2>3. ReadOK(new)
      BY <1>2, <2>1, <2>2 DEF ReadOK, InHand
    <2>4. ReadsOK'
      BY <1>1, <2>1, <2>3 DEF ReadsOK, ReadOK, InHand
    <2> QED  BY <1>1, <2>1, <2>2, <2>4, ReadsMove
  <1>4. CASE WaitsForAssistant(r) \/ ReadFails(r)
    <2>1. r.by # "verify" /\ r.by \in ReadsBy
      BY <1>2, <1>4 DEF WaitsForAssistant, Complete, ReadFails, Reading
    <2>2. reads' \in {{}, {Read(r.by)}}
      BY <1>2, <1>4, Became DEF WaitsForAssistant, ReadFails
    <2>3. ReadsOK' /\ \A x \in reads' : ~InHand(x)
      BY <2>1, <2>2, NewReads
    <2>4. \A x \in reads' : x.by = r.by
      BY <2>2 DEF Read
    <2> QED  BY <1>1, <2>3, <2>4, ReadsMove
  <1> QED  BY <1>3, <1>4

-----------------------------------------------------------------------------
(* Clearing.                                                                *)

\* A step of the clear operation: it shows nothing else, and takes away the read
\* or starts another one.
LEMMA ClearMoves ==
  ASSUME ConvInv, srv' \in Servers, srv'.gen = srv.gen, srv'.turns = srv.turns,
         srv'.saved = srv.saved, srv'.run = srv.run, srv'.own <= srv.gen,
         srv'.post => srv'.own = 0,
         UNCHANGED <<feed, chat, records, pane>>, timer' \in BOOLEAN,
         intent'.required = intent.required, ReadsOK', \A r \in reads' : ~InHand(r),
         ClearOK'
  PROVE  ConvInv'
  <1> USE Shapes
  <1>1. ServerOK'
    BY DEF ConvInv, ServerOK
  <1>2. ChatOK'
    BY DEF ConvInv, ChatOK, Upto
  <1>3. AnswersOK'
    <2>1. \A a \in records \cup {pane.answer} : Asked(a, srv')
      BY DEF ConvInv, AnswersOK, Asked
    <2> QED  BY <2>1 DEF ConvInv, AnswersOK, InHand
  <1> QED  BY <1>1, <1>2, <1>3 DEF ConvInv

\* clearState at the end of an operation.
LEMMA EndsIs ==
  ASSUME ConvInv, NEW error \in {"none", "refused", "unknown", "readback_failed"},
         NEW confirmed \in BOOLEAN, Ends(error, confirmed)
  PROVE  /\ clear' \in Clears /\ clear'.step = "none" /\ clear'.error = error
         /\ clear'.confirmed = confirmed /\ timer' \in BOOLEAN
         /\ ReadsOK' /\ \A r \in reads' : ~InHand(r)
  <1>1. clear' = [step |-> "none", error |-> error, confirmed |-> confirmed]
    BY DEF Ends
  <1>2. clear' \in Clears /\ clear'.step = "none" /\ clear'.error = error
        /\ clear'.confirmed = confirmed
    BY <1>1 DEF Clears
  <1>3. reads' \in {{}, {Read("clear")}} /\ "clear" \in ReadsBy
    BY StartIs DEF Ends, ReadsBy
  <1>4. ReadsOK' /\ \A r \in reads' : ~InHand(r)
    BY <1>3, NewReads
  <1>5. timer' \in BOOLEAN
    BY DEF Ends, ConvInv, ChatOK
  <1> QED  BY <1>2, <1>4, <1>5

LEMMA NoDeferred ==
  ASSUME ConvInv, intent' = [intent EXCEPT !.deferred = FALSE]
  PROVE  /\ intent' \in Intents /\ ~intent'.deferred
         /\ intent'.required = intent.required /\ intent'.acknowledged = intent.acknowledged
  <1>1. intent \in Intents
    BY DEF ConvInv, ClearOK
  <1> QED  BY <1>1 DEF Intents

\* An operation ends without having shown anything.
LEMMA EndSteps ==
  ASSUME ConvInv, PreflightRefuses \/ PostRefused \/ PostUncertain \/ VerifyFails \/ RefreshEnds
  PROVE  ConvInv'
  <1>0. srv \in Servers /\ ClearOK /\ srv.own <= srv.gen /\ (srv.post => srv.own = 0)
    BY DEF ConvInv, ServerOK
  <1>1. intent' = [intent EXCEPT !.deferred = FALSE] /\ UNCHANGED <<feed, chat, records, pane>>
    BY DEF PreflightRefuses, PostRefused, PostUncertain, VerifyFails, RefreshEnds
  <1>2. /\ intent' \in Intents /\ ~intent'.deferred
        /\ intent'.required = intent.required /\ intent'.acknowledged = intent.acknowledged
    BY <1>1, NoDeferred
  <1>3. PICK error \in {"none", "refused", "unknown", "readback_failed"} :
          /\ Ends(error, FALSE)
          /\ srv.post => \/ clear.step = "posted" /\ (error = "unknown" \/ ~srv'.post)
                         \/ error = "unknown"
    <2>1. CASE PreflightRefuses
      <3>1. ~srv.post
        BY <1>0, <2>1 DEF PreflightRefuses, ClearOK
      <3> QED  BY <2>1, <3>1 DEF PreflightRefuses
    <2>2. CASE PostRefused
      <3>1. srv' = [srv EXCEPT !.post = FALSE] /\ clear.step = "posted" /\ Ends("refused", FALSE)
        BY <2>2 DEF PostRefused
      <3>2. ~srv'.post
        BY <1>0, <3>1 DEF Servers
      <3> QED  BY <3>1, <3>2
    <2>3. CASE PostUncertain
      BY <2>3 DEF PostUncertain
    <2>4. CASE VerifyFails
      <3>1. srv.post => clear.error = "unknown"
        BY <1>0, <2>4 DEF VerifyFails, ClearOK
      <3> QED  BY <2>4, <3>1 DEF VerifyFails
    <2>5. CASE RefreshEnds
      <3>1. srv.post => clear.error = "unknown"
        BY <1>0, <2>5 DEF RefreshEnds, ClearOK
      <3>2. clear.error \in {"none", "refused", "unknown", "readback_failed"}
        BY <1>0 DEF ClearOK, Clears
      <3> QED  BY <2>5, <3>1, <3>2 DEF RefreshEnds
    <2> QED  BY <2>1, <2>2, <2>3, <2>4, <2>5
  <1>4. /\ clear' \in Clears /\ clear'.step = "none" /\ clear'.error = error
        /\ clear'.confirmed = FALSE /\ timer' \in BOOLEAN
        /\ ReadsOK' /\ \A r \in reads' : ~InHand(r)
    BY <1>3, EndsIs
  <1>5. /\ srv' \in Servers /\ srv'.gen = srv.gen /\ srv'.turns = srv.turns
        /\ srv'.saved = srv.saved /\ srv'.run = srv.run /\ srv'.own = srv.own
        /\ srv'.post => srv.post
    <2>1. srv' = srv \/ srv' = [srv EXCEPT !.post = FALSE]
      BY DEF PreflightRefuses, PostRefused, PostUncertain, VerifyFails, RefreshEnds
    <2> QED  BY <1>0, <2>1 DEF Servers
  <1>6. srv'.post => error = "unknown"
    BY <1>3, <1>5
  <1>7. intent.acknowledged => srv.own # 0
    BY <1>0 DEF ClearOK
  <1>8. ClearOK'
    BY <1>2, <1>4, <1>5, <1>6, <1>7 DEF ClearOK
  <1> QED  BY <1>0, <1>1, <1>2, <1>4, <1>5, <1>8, ClearMoves

\* An operation starts, or goes on to its next await.
LEMMA ClearSteps ==
  ASSUME ConvInv, StartClear \/ Posts \/ Acknowledged \/ StartVerify \/ StartRefresh
  PROVE  ConvInv'
  <1>0. /\ srv \in Servers /\ ClearOK /\ srv.own <= srv.gen /\ (srv.post => srv.own = 0)
        /\ clear \in Clears /\ intent \in Intents /\ timer \in BOOLEAN /\ ReadsOK
    BY DEF ConvInv, ServerOK, ClearOK, ChatOK
  <1>1. CASE StartClear
    <2>1. /\ clear.step = "none" /\ clear.error \notin {"unknown", "readback_failed"}
          /\ clear' = [step |-> "preflight", error |-> "none", confirmed |-> FALSE]
          /\ intent' = [intent EXCEPT !.acknowledged = FALSE] /\ reads' = {}
          /\ UNCHANGED <<srv, feed, chat, timer, records, pane>>
      BY <1>1, StartIs DEF StartClear, Busy, Uncertain
    <2>2. ~srv.post /\ ~intent.deferred
      BY <1>0, <2>1 DEF ClearOK, Busy
    <2>3. /\ clear' \in Clears /\ clear'.step = "preflight" /\ clear'.error = "none"
          /\ ~clear'.confirmed
      BY <2>1 DEF Clears
    <2>4. /\ intent' \in Intents /\ ~intent'.deferred /\ ~intent'.acknowledged
          /\ intent'.required = intent.required
      BY <1>0, <2>1, <2>2 DEF Intents
    <2>5. ReadsOK'
      BY <2>1 DEF ReadsOK
    <2>6. ClearOK'
      BY <2>1, <2>2, <2>3, <2>4 DEF ClearOK
    <2> QED  BY <1>0, <2>1, <2>4, <2>5, <2>6, ClearMoves
  <1>2. CASE Posts
    <2>1. /\ clear.step = "preflight" /\ clear' = [clear EXCEPT !.step = "posted"]
          /\ srv' = [srv EXCEPT !.post = TRUE, !.own = 0]
          /\ UNCHANGED <<feed, chat, reads, intent, timer, records, pane>>
      BY <1>2 DEF Posts
    <2>2. /\ srv' \in Servers /\ srv'.gen = srv.gen /\ srv'.turns = srv.turns
          /\ srv'.saved = srv.saved /\ srv'.run = srv.run /\ srv'.own = 0 /\ srv'.post
      <3>1. 0 \in 0..MaxClears
        BY BoundsAssumption
      <3>2. srv' \in Servers
        BY <1>0, <2>1, <3>1 DEF Servers
      <3> QED  BY <1>0, <2>1, <3>2 DEF Servers
    <2>3. /\ clear' \in Clears /\ clear'.step = "posted" /\ clear'.error = clear.error
          /\ clear'.confirmed = clear.confirmed
      BY <1>0, <2>1 DEF Clears
    <2>4. ~intent.acknowledged /\ clear.error = "none" /\ ~clear.confirmed
      BY <1>0, <2>1 DEF ClearOK
    <2>5. \A r \in reads : r.by # "verify"
      BY <1>0, <2>1 DEF ReadsOK, ReadOK
    <2>6. ClearOK'
      BY <1>0, <2>1, <2>2, <2>3, <2>4 DEF ClearOK, Busy
    <2>7. ReadsOK'
      BY <2>1, <2>2, <2>5 DEF ConvInv, ReadsOK, ReadOK, InHand, Upto
    <2>8. ServerOK'
      BY <2>1, <2>2, Shapes DEF ConvInv, ServerOK
    <2>9. ChatOK'
      BY <2>1, <2>2 DEF ConvInv, ChatOK, Upto
    <2>10. AnswersOK'
      <3>1. \A a \in records \cup {pane.answer} : Asked(a, srv')
        BY <2>2 DEF ConvInv, AnswersOK, Asked
      <3> QED  BY <2>1, <2>5, <3>1 DEF ConvInv, AnswersOK, InHand
    <2> QED  BY <2>6, <2>7, <2>8, <2>9, <2>10 DEF ConvInv
  <1>3. CASE Acknowledged
    <2>1. /\ clear.step = "posted" /\ srv.own # 0 /\ clear' = [clear EXCEPT !.step = "verifying"]
          /\ intent' = [intent EXCEPT !.acknowledged = TRUE] /\ reads' = {Read("verify")}
          /\ UNCHANGED <<srv, feed, chat, timer, records, pane>>
      BY <1>3, StartIs DEF Acknowledged
    <2>2. clear.error = "none" /\ ~clear.confirmed /\ ~srv.post
      BY <1>0, <2>1 DEF ClearOK
    <2>3. /\ clear' \in Clears /\ clear'.step = "verifying" /\ clear'.error = clear.error
          /\ clear'.confirmed = clear.confirmed
      BY <1>0, <2>1 DEF Clears
    <2>4. /\ intent' \in Intents /\ intent'.deferred = intent.deferred
          /\ intent'.required = intent.required
      BY <1>0, <2>1 DEF Intents
    <2>5. ReadsOK' /\ \A r \in reads' : ~InHand(r)
      BY <2>1, <2>3, NewReads DEF ReadsBy
    <2>7. \A r \in reads' : r.by = "verify"
      BY <2>1 DEF Read
    <2>6. ClearOK'
      BY <1>0, <2>1, <2>2, <2>3, <2>4, <2>5, <2>7 DEF ClearOK, Busy
    <2> QED  BY <1>0, <2>1, <2>4, <2>5, <2>6, ClearMoves
  <1>4. CASE StartVerify \/ StartRefresh
    <2>1. PICK step \in {"verifying", "refreshing"}, by \in {"verify", "refresh"} :
            /\ clear' = [clear EXCEPT !.step = step] /\ reads' = {Read(by)}
            /\ by = "verify" => step = "verifying"
      BY <1>4, StartIs DEF StartVerify, StartRefresh
    <2>2. /\ clear.step = "none" /\ clear.error # "none"
          /\ UNCHANGED <<srv, feed, chat, intent, timer, records, pane>>
      BY <1>4 DEF StartVerify, StartRefresh, Busy, Uncertain
    <2>3. ~clear.confirmed
      BY <1>0, <2>2 DEF ClearOK
    <2>4. /\ clear' \in Clears /\ clear'.step = step /\ clear'.error = clear.error
          /\ clear'.confirmed = clear.confirmed
      BY <1>0, <2>1 DEF Clears
    <2>5. ReadsOK' /\ \A r \in reads' : ~InHand(r)
      BY <2>1, <2>4, NewReads DEF ReadsBy
    <2>6. ClearOK'
      BY <1>0, <2>1, <2>2, <2>3, <2>4, <2>5 DEF ClearOK, Busy
    <2> QED  BY <1>0, <2>2, <2>5, <2>6, ClearMoves
  <1> QED  BY <1>1, <1>2, <1>3, <1>4

LEMMA DismissStep ==
  ASSUME ConvInv, Dismiss
  PROVE  ConvInv'
  <1>1. /\ clear.step = "none" /\ clear.error \notin {"unknown", "readback_failed"}
        /\ clear' = [step |-> "none", error |-> "none", confirmed |-> FALSE]
        /\ UNCHANGED <<srv, feed, chat, reads, intent, timer, records, pane>>
    BY DEF Dismiss, Busy, Uncertain
  <1>2. /\ clear' \in Clears /\ clear'.step = "none" /\ clear'.error = "none" /\ ~clear'.confirmed
    BY <1>1 DEF Clears
  <1>3. ClearOK'
    BY <1>1, <1>2 DEF ConvInv, ClearOK, Busy, InHand
  <1>4. ReadsOK'
    BY <1>1, <1>2 DEF ConvInv, ReadsOK, ReadOK, InHand
  <1> QED  BY <1>1, <1>3, <1>4 DEF ConvInv, ServerOK, ChatOK, AnswersOK, InHand

-----------------------------------------------------------------------------
(* What is shown.                                                           *)

\* `c` is shown: what it has leaves the registry, and its lease is confirmed.
LEMMA ReconciledIs ==
  ASSUME ConvInv, NEW c
  PROVE  /\ Reconciled(c) \subseteq records
         /\ ReconciledPane(c) \in Panes /\ ReconciledPane(c).answer = pane.answer
         /\ ReconciledPane(c).st = pane.st
         /\ /\ ReconciledPane(c).st \in {"settling", "retained"} /\ ReconciledPane(c).valid
            /\ ~ReconciledPane(c).confirmed /\ ~ReconciledPane(c).lapsed
            => pane.answer \in Reconciled(c)
  <1>1. pane \in Panes
    BY DEF ConvInv, AnswersOK
  <1>2. /\ pane.st \in {"settling", "retained"} /\ pane.valid
        /\ ~pane.confirmed /\ ~pane.lapsed
        => pane.answer \in records
    BY DEF ConvInv, AnswersOK
  <1>3. CASE pane.answer \in records /\ ConfirmedBy(pane.answer, c)
    <2>1. ReconciledPane(c) = [pane EXCEPT !.confirmed = TRUE]
      BY <1>3 DEF ReconciledPane
    <2>2. ReconciledPane(c) \in Panes /\ ReconciledPane(c).answer = pane.answer
          /\ ReconciledPane(c).st = pane.st /\ ReconciledPane(c).confirmed
      BY <1>1, <2>1 DEF Panes
    <2> QED  BY <2>2 DEF Reconciled
  <1>4. CASE ~(pane.answer \in records /\ ConfirmedBy(pane.answer, c))
    <2>1. ReconciledPane(c) = pane
      BY <1>4 DEF ReconciledPane
    <2> QED  BY <1>1, <1>2, <1>4, <2>1 DEF Reconciled
  <1> QED  BY <1>3, <1>4

\* Fewer answers are kept, and the pane is about one of them or one it had.
LEMMA FewerAnswers ==
  ASSUME ConvInv, UNCHANGED srv, records' \subseteq records, pane' \in Panes,
         pane'.answer \in records \cup {pane.answer, <<0, 0>>},
         pane'.st = "streaming" => pane.st = "streaming" /\ pane'.answer = pane.answer,
         /\ pane'.st \in {"settling", "retained"} /\ pane'.valid
         /\ ~pane'.confirmed /\ ~pane'.lapsed
         => pane'.answer \in records',
         \A r \in reads' : r.by = "verify" /\ InHand(r) => r \in reads
  PROVE  AnswersOK'
  <1> USE Shapes
  <1>1. Asked(<<0, 0>>, srv) /\ \A r \in reads : Asked(<<0, 0>>, r.snap)
    BY DEF Asked
  <1>2. \A a \in records \cup {pane.answer, <<0, 0>>} :
          /\ Asked(a, srv)
          /\ \A r \in reads : r.by = "verify" /\ InHand(r) => Asked(a, r.snap)
    BY <1>1 DEF ConvInv, AnswersOK
  <1>3. \A a \in records' \cup {pane'.answer} : a \in records \cup {pane.answer, <<0, 0>>}
    OBVIOUS
  <1>4. records' \subseteq (0..MaxClears) \X (1..MaxTurns)
    BY DEF ConvInv, AnswersOK
  <1>5. pane'.st = "streaming" => pane'.answer[2] >= 1
    BY DEF ConvInv, AnswersOK
  <1> QED  BY <1>2, <1>3, <1>4, <1>5 DEF AnswersOK, InHand

\* A read is applied: what it has is later than what was shown, and it asked for
\* the session when a clear was not shown yet.
LEMMA AppliedStep ==
  ASSUME ConvInv, NEW r \in reads, Applied(r)
  PROVE  ConvInv'
  <1> USE Shapes
  <1>1. /\ Complete(r) /\ UNCHANGED <<srv, feed, clear, timer>>
        /\ intent' = [intent EXCEPT !.required = @ /\ ~r.after]
        /\ reads' = reads \ {r}
    BY DEF Applied
  <1>2. PICK c \in {chat, r.snap} :
          /\ Show(c)
          /\ c = chat => ~r.after \/ c = r.snap
    BY DEF Applied
  <1>3. ReadOK(r) /\ InHand(r) /\ r.by # "verify" /\ reads' = {}
    BY <1>1, OneRead DEF ConvInv, ReadsOK, Complete, InHand
  <1>4. /\ c \in History /\ Upto(chat, c) /\ Upto(c, srv) /\ c.gen \in Nat
        /\ (c.gen >= chat.gen)
        /\ (r.after => c.gen + feed >= srv.gen)
    <2>1. Upto(chat, chat) /\ Upto(chat, srv) /\ chat \in History
      BY UptoSelf DEF ConvInv, ChatOK
    <2>2. c.gen >= chat.gen
      BY <1>2, <1>3 DEF ReadOK, Upto
    <2> QED  BY <1>2, <1>3, <2>1, <2>2 DEF ReadOK
  <1>5. intent \in Intents /\ clear \in Clears /\ timer \in BOOLEAN /\ ClearOK
    BY DEF ConvInv, ClearOK, ChatOK
  <1>6. /\ intent' \in Intents /\ intent'.deferred = intent.deferred
        /\ intent'.acknowledged = intent.acknowledged
        /\ (intent'.required <=> intent.required /\ ~r.after)
    BY <1>1, <1>5, <1>3 DEF Intents, ReadOK, Reading
  <1>7. chat' = c /\ records' = Reconciled(c) /\ pane' = ReconciledPane(c)
    BY <1>2 DEF Show
  <1>8. ~intent.deferred
    BY <1>3, <1>5 DEF ClearOK
  <1>9. ServerOK'
    BY <1>1 DEF ConvInv, ServerOK
  <1>10. ChatOK'
    <2>1. ASSUME c.gen + feed < srv.gen
          PROVE  intent'.required
      <3>1. chat.gen + feed < srv.gen
        BY <1>4, <2>1
      <3>2. intent.required /\ ~r.after
        BY <1>4, <2>1, <3>1 DEF ConvInv, ChatOK
      <3> QED  BY <1>6, <3>2
    <2> QED  BY <1>1, <1>4, <1>5, <1>7, <2>1 DEF ChatOK
  <1>11. ReadsOK'
    BY <1>3 DEF ReadsOK
  <1>12. ClearOK'
    <2>1. clear.confirmed => c.gen >= srv.own
      BY <1>4, <1>5 DEF ClearOK
    <2> QED  BY <1>1, <1>3, <1>5, <1>6, <1>7, <1>8, <2>1 DEF ClearOK
  <1>13. AnswersOK'
    BY <1>1, <1>3, <1>7, ReconciledIs, FewerAnswers
  <1> QED  BY <1>9, <1>10, <1>11, <1>12, <1>13 DEF ConvInv

\* A verification shows the cleared conversation, and says so when it is sure.
LEMMA VerifiedStep ==
  ASSUME ConvInv, NEW r \in reads, Verified(r)
  PROVE  ConvInv'
  <1> USE Shapes
  <1> DEFINE sure == intent.acknowledged /\ clear.error # "unknown"
  <1>1. /\ r.by = "verify" /\ r.st = "answered" /\ r.after /\ chat' = r.snap
        /\ records' = {} /\ pane' = [pane EXCEPT !.valid = FALSE]
        /\ Ends(IF sure THEN "none" ELSE "unknown", sure)
        /\ intent' = [intent EXCEPT !.deferred = FALSE, !.acknowledged = @ /\ ~sure]
        /\ UNCHANGED <<srv, feed>>
    BY DEF Verified, Invalidated
  <1>2. ReadOK(r) /\ InHand(r) /\ clear.step = "verifying" /\ intent \in Intents /\ ClearOK
    BY <1>1 DEF ConvInv, ReadsOK, ReadOK, InHand, ClearOK
  <1>3. sure => r.snap.gen >= srv.own /\ srv.own # 0 /\ ~srv.post
    BY <1>1, <1>2 DEF ClearOK
  <1>4. sure \in BOOLEAN /\ (IF sure THEN "none" ELSE "unknown") \in
          {"none", "refused", "unknown", "readback_failed"}
    BY <1>2 DEF Intents
  <1>5. /\ clear' \in Clears /\ clear'.step = "none"
        /\ clear'.error = (IF sure THEN "none" ELSE "unknown")
        /\ clear'.confirmed = sure /\ timer' \in BOOLEAN
        /\ ReadsOK' /\ \A x \in reads' : ~InHand(x)
    BY <1>1, <1>4, EndsIs
  <1>6. /\ intent' \in Intents /\ ~intent'.deferred /\ intent'.required = intent.required
        /\ (intent'.acknowledged => intent.acknowledged /\ ~sure)
    BY <1>1, <1>2 DEF Intents
  <1> HIDE DEF sure
  <1>7. ServerOK'
    BY <1>1 DEF ConvInv, ServerOK
  <1>8. ChatOK'
    <2>1. Upto(r.snap, srv) /\ r.snap.gen + feed >= srv.gen /\ r.snap \in History
      BY <1>2 DEF ReadOK
    <2>2. ~(r.snap.gen + feed < srv.gen)
      BY <2>1
    <2> QED  BY <1>1, <1>5, <2>1, <2>2 DEF ChatOK
  <1>9. ClearOK'
    <2>1. clear'.confirmed => /\ clear'.step = "none" /\ clear'.error = "none"
                              /\ srv'.own # 0 /\ chat'.gen >= srv'.own
      BY <1>1, <1>3, <1>5
    <2>2. srv'.post => clear'.error = "unknown"
      BY <1>1, <1>3, <1>5
    <2>3. intent'.acknowledged => srv'.own # 0
      BY <1>1, <1>2, <1>6 DEF ClearOK
    <2> QED  BY <1>5, <1>6, <2>1, <2>2, <2>3 DEF ClearOK
  <1>10. AnswersOK'
    <2>1. pane' \in Panes /\ pane'.st = pane.st /\ pane'.answer = pane.answer /\ ~pane'.valid
      BY <1>1 DEF ConvInv, AnswersOK, Panes
    <2> QED  BY <1>1, <1>5, <2>1, FewerAnswers
  <1> QED  BY <1>5, <1>7, <1>8, <1>9, <1>10 DEF ConvInv

-----------------------------------------------------------------------------
(* The feed and the pane.                                                   *)

\* The page learns of a clear: reads that may have missed it are taken away.
LEMMA ClearedStep ==
  ASSUME ConvInv, EventCleared
  PROVE  ConvInv'
  <1> USE Shapes
  <1>1. /\ feed > 0 /\ feed' = feed - 1 /\ records' = {} /\ timer' = FALSE
        /\ pane' = [pane EXCEPT !.valid = FALSE]
        /\ intent' = [intent EXCEPT !.required = TRUE, !.deferred = Busy]
        /\ UNCHANGED <<srv, chat, clear>>
    BY DEF EventCleared, Invalidated
  <1>2. /\ reads' \in {{}, {Read("clear")}} /\ (Busy => reads' = {})
    BY StartIs DEF EventCleared
  <1>3. ReadsOK' /\ \A r \in reads' : ~InHand(r)
    BY <1>2, NewReads DEF ReadsBy
  <1>4. intent \in Intents /\ ClearOK
    BY DEF ConvInv, ClearOK
  <1>5. Busy \in BOOLEAN
    BY DEF Busy
  <1>6. /\ intent' \in Intents /\ intent'.required /\ (intent'.deferred <=> Busy)
        /\ intent'.acknowledged = intent.acknowledged
    BY <1>1, <1>4, <1>5 DEF Intents
  <1>7. ServerOK'
    BY <1>1 DEF ConvInv, ServerOK
  <1>8. ChatOK'
    BY <1>1, <1>6 DEF ConvInv, ChatOK
  <1>9. Busy' = Busy
    BY <1>1 DEF Busy
  <1>10. ClearOK'
    BY <1>1, <1>2, <1>3, <1>4, <1>6, <1>9 DEF ClearOK
  <1>11. AnswersOK'
    <2>1. pane' \in Panes /\ pane'.st = pane.st /\ pane'.answer = pane.answer /\ ~pane'.valid
      BY <1>1 DEF ConvInv, AnswersOK, Panes
    <2> QED  BY <1>1, <1>3, <2>1, FewerAnswers
  <1> QED  BY <1>3, <1>7, <1>8, <1>10, <1>11 DEF ConvInv

\* A step of the pane leaves the conversation, the clear and the server alone.
LEMMA PaneMoves ==
  ASSUME ConvInv, UNCHANGED <<srv, feed, chat, clear, intent>>, timer' \in BOOLEAN,
         ReadsOK', \A r \in reads' : r \in reads \/ ~InHand(r),
         intent.deferred => reads' = reads, AnswersOK'
  PROVE  ConvInv'
  <1>1. ClearOK'
    BY DEF ConvInv, ClearOK, Busy, InHand
  <1> QED  BY <1>1 DEF ConvInv, ServerOK, ChatOK

\* loadChatHistory, which refuses while a clear is busy.
LEMMA LoadIs ==
  ASSUME ConvInv, NEW by \in ReadsBy \ {"verify"}, Load(by) \/ UNCHANGED reads,
         UNCHANGED <<srv, feed, chat, clear>>
  PROVE  /\ ReadsOK' /\ \A r \in reads' : r \in reads \/ ~InHand(r)
         /\ intent.deferred => reads' = reads
  <1>1. CASE reads' = reads
    <2>1. ReadsOK'
      BY <1>1 DEF ConvInv, ReadsOK, ReadOK, InHand
    <2> QED  BY <1>1, <2>1
  <1>2. CASE ~Busy /\ reads' = {Read(by)}
    <2>1. ReadsOK' /\ \A r \in reads' : ~InHand(r)
      BY <1>2, NewReads
    <2>2. ~intent.deferred
      BY <1>2 DEF ConvInv, ClearOK
    <2> QED  BY <2>1, <2>2
  <1> QED  BY <1>1, <1>2, StartIs DEF Load

LEMMA NoPaneIs == NoPane \in Panes /\ NoPane.st = "idle" /\ NoPane.answer = <<0, 0>>
  BY BoundsAssumption DEF NoPane, Panes, Answers

LEMMA TimerSteps ==
  ASSUME ConvInv, EventChanged \/ TimerFires
  PROVE  ConvInv'
  <1>1. /\ UNCHANGED <<srv, feed, chat, clear, intent, records, pane>>
        /\ timer' \in BOOLEAN /\ (Load("reconcile") \/ UNCHANGED reads)
    BY DEF EventChanged, TimerFires
  <1>2. /\ ReadsOK' /\ \A r \in reads' : r \in reads \/ ~InHand(r)
        /\ intent.deferred => reads' = reads
    BY <1>1, LoadIs DEF ReadsBy
  <1>3. AnswersOK'
    BY <1>1, <1>2 DEF ConvInv, AnswersOK, InHand
  <1> QED  BY <1>1, <1>2, <1>3, PaneMoves

LEMMA PaneSteps ==
  ASSUME ConvInv, Settles \/ PaneRetires \/ RegistryEffect \/ Expires \/ Away \/ Back
  PROVE  ConvInv'
  <1>0. timer \in BOOLEAN /\ pane \in Panes
    BY DEF ConvInv, ChatOK, AnswersOK
  <1>1. UNCHANGED <<srv, feed, chat, clear, intent, timer>>
    BY DEF Settles, PaneRetires, RegistryEffect, Show, Expires, Away, Back
  <1>2. /\ ReadsOK' /\ \A r \in reads' : r \in reads \/ ~InHand(r)
        /\ intent.deferred => reads' = reads
    <2>1. Load("open") \/ UNCHANGED reads
      BY DEF Settles, PaneRetires, RegistryEffect, Expires, Away, Back
    <2> QED  BY <1>1, <2>1, LoadIs DEF ReadsBy
  <1>3. ASSUME Settles
        PROVE  AnswersOK'
    <2> DEFINE p == ReconciledPane(chat)
    <2>1. /\ records' = Reconciled(chat) /\ pane.st = "settling"
          /\ pane' = IF p.confirmed THEN NoPane ELSE [p EXCEPT !.st = "retained"]
      BY <1>3 DEF Settles
    <2>2. /\ records' \subseteq records /\ p \in Panes /\ p.answer = pane.answer
          /\ p.st = pane.st
          /\ p.valid /\ ~p.confirmed /\ ~p.lapsed => pane.answer \in records'
      BY <2>1, ReconciledIs
    <2> HIDE DEF p
    <2>3. CASE pane' = NoPane
      BY <1>1, <1>2, <2>2, <2>3, NoPaneIs, FewerAnswers
    <2>4. CASE pane' = [p EXCEPT !.st = "retained"]
      <3>1. /\ pane' \in Panes /\ pane'.st = "retained" /\ pane'.answer = p.answer
            /\ pane'.valid = p.valid /\ pane'.confirmed = p.confirmed /\ pane'.lapsed = p.lapsed
        BY <2>2, <2>4 DEF Panes
      <3> QED  BY <1>1, <1>2, <2>2, <3>1, FewerAnswers
    <2> QED  BY <2>1, <2>3, <2>4
  <1>4. ASSUME PaneRetires \/ Back
        PROVE  AnswersOK'
    <2>1. pane' = NoPane /\ records' = records
      BY <1>4 DEF PaneRetires, Back
    <2> QED  BY <1>1, <1>2, <2>1, NoPaneIs, FewerAnswers
  <1>5. ASSUME RegistryEffect
        PROVE  AnswersOK'
    <2>1. records' = Reconciled(chat) /\ pane' = ReconciledPane(chat)
      BY <1>5 DEF RegistryEffect, Show
    <2> QED  BY <1>1, <1>2, <2>1, ReconciledIs, FewerAnswers
  <1>6. ASSUME Expires
        PROVE  AnswersOK'
    <2>1. PICK a \in records : /\ records' = records \ {a}
                               /\ pane' = [pane EXCEPT !.lapsed = @ \/ a = pane.answer]
      BY <1>6 DEF Expires
    <2>2. /\ pane' \in Panes /\ pane'.st = pane.st /\ pane'.answer = pane.answer
          /\ pane'.valid = pane.valid /\ pane'.confirmed = pane.confirmed
          /\ ~pane'.lapsed => ~pane.lapsed /\ a # pane.answer
      <3>1. ASSUME NEW b \in BOOLEAN
            PROVE  LET q == [pane EXCEPT !.lapsed = b] IN
                   /\ q \in Panes /\ q.st = pane.st /\ q.answer = pane.answer
                   /\ q.valid = pane.valid /\ q.confirmed = pane.confirmed /\ q.lapsed = b
        BY <1>0 DEF Panes
      <3>2. PICK b \in BOOLEAN : b = (pane.lapsed \/ a = pane.answer)
        OBVIOUS
      <3>3. pane' = [pane EXCEPT !.lapsed = b]
        BY <2>1, <3>2
      <3> QED  BY <3>1, <3>2, <3>3
    <2>3. /\ pane.st \in {"settling", "retained"} /\ pane.valid
          /\ ~pane.confirmed /\ ~pane.lapsed
          => pane.answer \in records
      BY DEF ConvInv, AnswersOK
    <2> QED  BY <1>1, <1>2, <2>1, <2>2, <2>3, FewerAnswers
  <1>7. ASSUME Away
        PROVE  AnswersOK'
    <2>1. pane' = [NoPane EXCEPT !.st = "away"] /\ (records' = Reconciled(chat) \/ records' = records)
      BY <1>7 DEF Away, Leaves
    <2>2. pane' \in Panes /\ pane'.st = "away" /\ pane'.answer = <<0, 0>>
      BY <2>1, NoPaneIs DEF Panes
    <2> QED  BY <1>1, <1>2, <2>1, <2>2, ReconciledIs, FewerAnswers
  <1>8. AnswersOK'
    BY <1>3, <1>4, <1>5, <1>6, <1>7
  <1> QED  BY <1>0, <1>1, <1>2, <1>8, PaneMoves

\* A finished run of the pane: its answer was asked for, and is handed over.
LEMMA CompletesStep ==
  ASSUME ConvInv, Completes
  PROVE  ConvInv'
  <1>0. timer \in BOOLEAN /\ pane \in Panes
    BY DEF ConvInv, ChatOK, AnswersOK
  <1>1. /\ UNCHANGED <<srv, feed, chat, clear, intent, timer>> /\ Load("settle")
        /\ pane.st = "streaming" /\ pane' = [pane EXCEPT !.st = "settling"]
        /\ records' = records \cup {pane.answer}
    BY DEF Completes
  <1>2. /\ ReadsOK' /\ \A r \in reads' : r \in reads \/ ~InHand(r)
        /\ intent.deferred => reads' = reads
    BY <1>1, LoadIs DEF ReadsBy
  <1>3. pane' \in Panes /\ pane'.st = "settling" /\ pane'.answer = pane.answer
    BY <1>0, <1>1 DEF Panes
  <1>4. pane.answer \in (0..MaxClears) \X (1..MaxTurns)
    <2>1. pane.answer \in (0..MaxClears) \X (0..MaxTurns) /\ pane.answer[2] >= 1
      BY <1>0, <1>1 DEF Panes, Answers, ConvInv, AnswersOK
    <2> QED  BY <2>1, BoundsAssumption
  <1>5. AnswersOK'
    BY <1>1, <1>2, <1>3, <1>4 DEF ConvInv, AnswersOK, InHand
  <1> QED  BY <1>0, <1>1, <1>2, <1>5, PaneMoves

\* A new run: its question is the server's next turn, and no clear is busy.
LEMMA SendsStep ==
  ASSUME ConvInv, Sends
  PROVE  ConvInv'
  <1> USE Shapes
  <1>0. srv \in Servers /\ ReadsOK /\ srv.saved \subseteq 1..srv.turns /\ srv.own <= srv.gen
        /\ (srv.post => srv.own = 0) /\ feed <= srv.gen
    BY DEF ConvInv, ServerOK
  <1>1. /\ ~Busy /\ srv.gen + srv.turns < MaxTurns
        /\ srv' = [srv EXCEPT !.turns = @ + 1, !.run = TRUE]
        /\ pane' = [NoPane EXCEPT !.st = "streaming", !.valid = TRUE,
                                  !.answer = <<srv.gen, srv.turns + 1>>]
        /\ reads' = {Read("sent")} /\ UNCHANGED <<feed, chat, clear, intent, timer>>
    BY StartIs DEF Sends, RunStream, Load
  <1>2. records' = Reconciled(chat) \/ records' = records
    BY DEF Sends, RunStream, Leaves
  <1>3. srv.turns + 1 \in 0..MaxTurns /\ <<srv.gen, srv.turns + 1>> \in Answers
    BY <1>1, BoundsAssumption DEF Answers
  <1>4. /\ srv'.gen = srv.gen /\ srv'.turns = srv.turns + 1 /\ srv'.saved = srv.saved
        /\ srv'.own = srv.own /\ srv'.post = srv.post
    BY <1>0, <1>1 DEF Servers
  <1>5. srv' \in Servers
    BY <1>0, <1>1, <1>3 DEF Servers
  <1>6. ServerOK'
    BY <1>0, <1>1, <1>4, <1>5 DEF ServerOK
  <1>7. Upto(srv, srv')
    BY <1>4 DEF Upto
  <1>8. ChatOK'
    <2>1. Upto(chat, srv')
      BY <1>4, <1>7, UptoTransitive DEF ConvInv, ChatOK
    <2> QED  BY <1>1, <1>4, <2>1 DEF ConvInv, ChatOK
  <1>9. ReadsOK' /\ \A r \in reads' : ~InHand(r)
    BY <1>1, NewReads DEF ReadsBy
  <1>10. ClearOK'
    <2>1. ~intent.deferred
      BY <1>1 DEF ConvInv, ClearOK
    <2> QED  BY <1>1, <1>4, <1>9, <2>1 DEF ConvInv, ClearOK, Busy, InHand
  <1>11. AnswersOK'
    <2>1. /\ pane' \in Panes /\ pane'.st = "streaming"
          /\ pane'.answer = <<srv.gen, srv.turns + 1>>
      BY <1>1, <1>3, NoPaneIs DEF Panes
    <2>2. records' \subseteq records
      BY <1>2, ReconciledIs
    <2>3. ASSUME NEW a \in records
          PROVE  Asked(a, srv')
      <3>1. Asked(a, srv) /\ a \in Answers
        BY DEF ConvInv, AnswersOK
      <3> QED  BY <1>4, <1>7, <3>1, AskedStays
    <2>4. Asked(pane'.answer, srv') /\ pane'.answer[2] >= 1
      BY <1>4, <2>1 DEF Asked
    <2>5. records' \subseteq (0..MaxClears) \X (1..MaxTurns)
      BY <2>2 DEF ConvInv, AnswersOK
    <2> QED  BY <1>1, <1>9, <2>1, <2>2, <2>3, <2>4, <2>5 DEF AnswersOK, InHand
  <1> QED  BY <1>6, <1>8, <1>9, <1>10, <1>11 DEF ConvInv

-----------------------------------------------------------------------------
(* The theorems.                                                            *)

LEMMA ConvInit == Init => ConvInv
  <1> SUFFICES ASSUME Init
               PROVE  ConvInv
    OBVIOUS
  <1>1. /\ srv = [gen |-> 0, turns |-> 0, saved |-> {}, run |-> FALSE, post |-> FALSE, own |-> 0]
        /\ feed = 0 /\ chat = Empty(0) /\ reads = {}
        /\ clear = [step |-> "none", error |-> "none", confirmed |-> FALSE]
        /\ intent = [required |-> FALSE, deferred |-> FALSE, acknowledged |-> FALSE]
        /\ timer = FALSE /\ records = {} /\ pane = NoPane
    BY DEF Init
  <1>2. 0 \in 0..MaxClears /\ 0 \in 0..MaxTurns
    BY BoundsAssumption
  <1>3. srv \in Servers
    BY <1>1, <1>2 DEF Servers
  <1>4. ServerOK
    BY <1>1, <1>3 DEF ServerOK
  <1>5. chat \in History /\ chat.gen = 0 /\ chat.turns = 0 /\ chat.saved = {}
    BY <1>1, EmptyIsHistory DEF Empty
  <1>6. ChatOK
    <2>1. srv.gen = 0 /\ srv.turns = 0 /\ srv.saved = {}
      BY <1>1
    <2>2. Upto(chat, srv)
      BY <1>5, <2>1 DEF Upto
    <2>3. ~(chat.gen + feed < srv.gen)
      BY <1>1, <1>5, <2>1
    <2>4. timer \in BOOLEAN
      BY <1>1
    <2> QED  BY <1>5, <2>2, <2>3, <2>4 DEF ChatOK
  <1>7. ReadsOK
    BY <1>1 DEF ReadsOK
  <1>8. clear \in Clears /\ intent \in Intents
    BY <1>1 DEF Clears, Intents
  <1>9. ClearOK
    BY <1>1, <1>8 DEF ClearOK
  <1>10. AnswersOK
    BY <1>1, NoPaneIs DEF AnswersOK, Asked
  <1> QED  BY <1>4, <1>6, <1>7, <1>9, <1>10 DEF ConvInv

LEMMA ConvStep == ConvInv /\ [Next]_vars => ConvInv'
  <1> SUFFICES ASSUME ConvInv, [Next]_vars
               PROVE  ConvInv'
    OBVIOUS
  <1>1. CASE UNCHANGED vars
    <2>1. UNCHANGED <<srv, feed, chat, reads, clear, intent, timer, records, pane>>
      BY <1>1 DEF vars
    <2>2. ServerOK' /\ ChatOK'
      BY <2>1 DEF ConvInv, ServerOK, ChatOK
    <2>3. ReadsOK'
      BY <2>1 DEF ConvInv, ReadsOK, ReadOK, InHand
    <2>4. ClearOK'
      BY <2>1 DEF ConvInv, ClearOK, Busy, InHand
    <2>5. AnswersOK'
      BY <2>1 DEF ConvInv, AnswersOK, InHand
    <2> QED  BY <2>2, <2>3, <2>4, <2>5 DEF ConvInv
  <1>2. CASE Next
    BY <1>2, ServerSteps, AnswerStep, ReadSteps, AppliedStep, VerifiedStep, EndSteps,
       ClearSteps, DismissStep, ClearedStep, TimerSteps, PaneSteps, CompletesStep, SendsStep
       DEF Next
  <1> QED  BY <1>1, <1>2

\* The store, the registry, the pane and the clear operation keep their shapes; one
\* read counts at a time; and a reconciliation is put off only while a clear is busy.
THEOREM TypesAlways == Spec => []TypeOK
  <1>1. ConvInv => TypeOK
    <2> SUFFICES ASSUME ConvInv
                 PROVE  TypeOK
      OBVIOUS
    <2>1. Snapshot \in History
      BY Shapes DEF Snapshot, History, ConvInv, ServerOK, Servers
    <2>2. chat \in History /\ timer \in BOOLEAN
      BY DEF ConvInv, ChatOK
    <2>3. \A r \in reads : r.snap \in History
      BY Shapes
    <2>4. reads # {} => \E r \in reads : reads = {r}
      BY DEF ConvInv, ReadsOK
    <2>5. /\ clear.step \in {"none", "preflight", "posted", "verifying", "refreshing"}
          /\ clear.error \in {"none", "refused", "unknown", "readback_failed"}
          /\ intent \in Intents /\ (intent.deferred => Busy /\ intent.required)
      BY DEF ConvInv, ClearOK, Clears
    <2>6. /\ records \subseteq (0..MaxClears) \X (1..MaxTurns)
          /\ pane.st \in {"away", "idle", "streaming", "settling", "retained"}
      BY DEF ConvInv, AnswersOK, Panes
    <2> QED  BY <2>1, <2>2, <2>3, <2>4, <2>5, <2>6 DEF TypeOK, Intents
  <1> QED  BY <1>1, ConvInit, ConvStep, PTL DEF Spec

\* No clear the page was told of is forgotten, and none is confirmed that is not
\* shown, whatever order reads, events and the clear's own requests finish in
\* (loadChatHistory, reconcileClear, verifyConversationClear).
THEOREM ClearIsHonestAlways == Spec => []ClearIsHonest
  <1>1. ConvInv => ClearIsHonest
    <2> SUFFICES ASSUME ConvInv
                 PROVE  ClearIsHonest
      OBVIOUS
    <2>1. chat.gen < srv.gen - feed => chat.gen + feed < srv.gen
      BY Shapes
    <2> QED  BY <2>1 DEF ClearIsHonest, ConvInv, ChatOK, ClearOK
  <1> QED  BY <1>1, ConvInit, ConvStep, PTL DEF Spec

\* The history never brings an answer that the pane still shows as its own text,
\* unless the registry dropped it for its age (reconcileCompletedAnswers).
THEOREM AnswerOnceAlways == Spec => []AnswerOnce
  <1>1. ConvInv => AnswerOnce
    BY DEF ConvInv, AnswersOK, AnswerOnce, OwnText, Panes
  <1> QED  BY <1>1, ConvInit, ConvStep, PTL DEF Spec

\* Every step moves what is shown forward, or leaves it.
LEMMA NextUpto ==
  ASSUME ConvInv, Next
  PROVE  Upto(chat, chat')
  <1>1. CASE UNCHANGED chat
    BY <1>1, Shapes, UptoSelf
  <1>2. ASSUME NEW r \in reads, Applied(r) \/ Verified(r)
        PROVE  Upto(chat, chat')
    <2>1. InHand(r)
      BY <1>2 DEF Applied, Verified, Complete, InHand
    <2>2. Upto(chat, r.snap)
      BY <2>1 DEF ConvInv, ReadsOK, ReadOK
    <2>3. chat' = chat \/ chat' = r.snap
      BY <1>2 DEF Applied, Verified, Show
    <2> QED  BY <2>2, <2>3, Shapes, UptoSelf
  <1> QED  BY <1>1, <1>2
           DEF Next, RunEnds, OtherClears, OtherSends, ServerAnswers, AsksDetail,
               WaitsForAssistant, ReadFails, StartClear, PreflightRefuses, Posts, ServerClears,
               Acknowledged, PostRefused, PostUncertain, StartVerify, VerifyFails, StartRefresh,
               RefreshEnds, Dismiss, EventCleared, EventChanged, TimerFires, Sends, RunStream, Completes,
               Settles, PaneRetires, RegistryEffect, Show, Expires, Away, Back

\* What is shown only moves forward, to more of a conversation or to the one after
\* a clear (loadChatHistory's token, shouldReplace).
THEOREM NeverBackwardsAlways == Spec => NeverBackwards
  <1>1. ConvInv /\ [Next]_vars =>
          [\/ chat'.gen > chat.gen
           \/ /\ chat'.gen = chat.gen
              /\ chat'.turns >= chat.turns /\ chat.saved \subseteq chat'.saved]_vars
    BY NextUpto DEF Upto
  <1> QED  BY <1>1, ConvInit, ConvStep, PTL DEF Spec, NeverBackwards

\* An answer handed over stays until the history has it; only a clear the page
\* learns of, one it verified, or its age withdraws it (completedAnswerHandoff).
THEOREM AnswerStaysAlways == Spec => AnswerStays
  <1>1. ConvInv /\ [Next]_vars =>
          [\A t \in 1..MaxTurns : LET a == <<chat.gen, t>> IN
             Held(a) /\ chat'.gen = chat.gen => Held(a)' \/ EventCleared \/ Expires]_vars
    <2> SUFFICES ASSUME ConvInv, Next, NEW t \in 1..MaxTurns, NEW a, a = <<chat.gen, t>>,
                        Held(a), chat'.gen = chat.gen, ~EventCleared, ~Expires
                 PROVE  Held(a)'
      BY DEF Held
    <2>1. Held(a)' <=> a \in records' \/ ConfirmedBy(a, chat')
      BY DEF Held
    <2>2. a[1] = chat.gen /\ a[2] = t
      OBVIOUS
    <2>3. a \in records \/ ConfirmedBy(a, chat)
      BY DEF Held
    <2>4. Upto(chat, chat')
      BY NextUpto
    <2>5. ConfirmedBy(a, chat) => ConfirmedBy(a, chat')
      BY <2>2, <2>4, Shapes DEF ConfirmedBy, Upto
    <2>6. CASE records \subseteq records'
      BY <2>1, <2>3, <2>5, <2>6
    <2>7. CASE records' = Reconciled(chat')
      BY <2>1, <2>3, <2>5, <2>7 DEF Reconciled
    <2>8. ASSUME NEW r \in reads, Verified(r)
          PROVE  Held(a)'
      <3>1. r.by = "verify" /\ r.st = "answered" /\ r.after /\ chat' = r.snap /\ InHand(r)
        BY <2>8 DEF Verified, InHand
      <3>2. r.snap.turns = 0 /\ r.snap.saved \subseteq 1..r.snap.turns
        BY <3>1 DEF ConvInv, ReadsOK, ReadOK
      <3>3. ~ConfirmedBy(a, chat')
        BY <3>1, <3>2 DEF ConfirmedBy
      <3>4. a \in records
        BY <2>3, <2>5, <3>3
      <3>5. Asked(a, r.snap)
        BY <3>1, <3>4 DEF ConvInv, AnswersOK
      <3> QED  BY <2>2, <3>1, <3>2, <3>5, Shapes DEF Asked
    <2>9. \/ records \subseteq records' \/ records' = Reconciled(chat')
          \/ \E r \in reads : Verified(r)
      BY DEF Next, RunEnds, OtherClears, OtherSends, ServerAnswers, AsksDetail,
             WaitsForAssistant, ReadFails, Applied, StartClear, PreflightRefuses, Posts,
             ServerClears, Acknowledged, PostRefused, PostUncertain, StartVerify, VerifyFails,
             StartRefresh, RefreshEnds, Dismiss, EventChanged, TimerFires, Sends, RunStream, Leaves,
             Completes, Settles, PaneRetires, RegistryEffect, Show, Away, Back, Reconciled
    <2> QED  BY <2>6, <2>7, <2>8, <2>9
  <1> QED  BY <1>1, ConvInit, ConvStep, PTL DEF Spec, AnswerStays

=============================================================================
