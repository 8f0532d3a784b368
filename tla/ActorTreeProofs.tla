-------------------------- MODULE ActorTreeProofs ---------------------------
(***************************************************************************)
(* ActorTree, for any views, scopes and revisions: its types, what a step    *)
(* may do to a tree on show, and the law of the views at rest.               *)
(*                                                                           *)
(* The wire drops what the shared cursor covers and what the channel was     *)
(* told last, so what a view was not told is not found on the wire but in    *)
(* what the channel and the other views know.  TreeInv says so for each      *)
(* view (ViewOK), for each listener against the shared cursor (ListenerOK),  *)
(* and for the channel against the server's tree (HearsOfTree): while the    *)
(* news of the tree is not on the wire, every listener knows of it (Knows).  *)
(***************************************************************************)
EXTENDS ActorTree, TLAPS

\* The order in which a Root's trees are; Covers is this within a scope.
Later(a, b) == a[1] > b[1] \/ (a[1] = b[1] /\ a[2] >= b[2])

\* T, here and below, is the server's tree: nothing is ahead of it.
Past(c, T) == c \in Cursors => Later(T, c)

\* The read in flight is the last one.
Reading(w) == w.req \in Cursors /\ ~w.trailing

Flagged(w) == w.error \/ w.gap # "no"

\* Reads are sequential: what a view was answered is later than what it shows; a
\* transport gap has a requirement.
ViewBase(w, T) ==
    /\ w \in View
    /\ Past(w.snap, T) /\ Past(w.sub, T) /\ Past(w.req, T) /\ Past(w.required, T)
    /\ w.req = None => ~w.trailing
    /\ w.error => w.req = None
    /\ w.gap = "transport" => w.required # Undefined
    /\ w.snap \in Cursors /\ w.sub \in Cursors => Later(w.snap, w.sub)
    /\ w.req \in Cursors /\ w.snap \in Cursors => Later(w.req, w.snap)
    /\ w.req \in Cursors /\ w.sub \in Cursors => Later(w.req, w.sub)

ViewOK(w, T) ==
    /\ ViewBase(w, T)
    /\ ~w.active => w = Closed
    /\ w.active /\ w.snap = None => w.req # None \/ w.error
    /\ w.required # Undefined => w.req # None \/ Flagged(w)
    /\ Reading(w) /\ Covers(T, w.required) => Covers(w.req, w.required)
    /\ w.snap # None /\ Covers(T, w.required) /\ w.gap # "regression" =>
          w.req # None \/ w.timer

\* Only a snapshot that covers k can end this requirement.
Bound(w, k) == w.required = None \/ Covers(w.required, k)

\* A listener and the shared cursor k: the answer of its last read is not older.
ListenerOK(w, k) ==
    /\ w.sub[1] <= k[1] \/ Bound(w, k)
    /\ Reading(w) => Later(w.req, k) \/ Covers(w.snap, k) \/ Bound(w, k)
    /\ \/ Covers(w.snap, k) \/ Bound(w, k)
       \/ w.snap # None /\ (w.snap # None => w.snap[1] > k[1])
       \/ w.req # None \/ Flagged(w)

\* Whatever the wire says, this view will show the tree T or a warning.
Knows(w, T) ==
    \/ w.snap = T \/ w.req \in {Unread, T} \/ w.trailing
    \/ w.req = None /\ Flagged(w)
    \/ w.req \in Cursors /\ w.required # Undefined /\ ~Covers(w.req, w.required)

-----------------------------------------------------------------------------
(* Cursors.                                                                 *)

LEMMA CursorsOK ==
  /\ \A c \in Cursors : c[1] \in Nat /\ c[2] \in Nat /\ c = <<c[1], c[2]>>
  /\ None \notin Cursors /\ Undefined \notin Cursors /\ Unread \notin Cursors
  /\ None # Undefined /\ None # Unread
  <1>1. \A c \in Cursors : c[1] \in Nat /\ c[2] \in Nat /\ c = <<c[1], c[2]>>
    BY TreeAssumption DEF Cursors
  <1> QED  BY <1>1, ValuesAssumption

LEMMA CoversOK ==
  ASSUME NEW a, NEW b, Covers(a, b)
  PROVE  a \in Cursors /\ b \in Cursors /\ Later(a, b) /\ a[1] = b[1]
  BY CursorsOK DEF Covers, Later

LEMMA CoversLater ==
  ASSUME NEW a \in Cursors, NEW b \in Cursors, Later(a, b), a[1] <= b[1]
  PROVE  Covers(a, b)
  BY CursorsOK DEF Covers, Later

LEMMA CoversItself ==
  ASSUME NEW a \in Cursors
  PROVE  Covers(a, a) /\ Later(a, a)
  BY CursorsOK DEF Covers, Later

LEMMA CoversTrans ==
  ASSUME NEW a, NEW b, NEW c, Covers(a, b), Covers(b, c)
  PROVE  Covers(a, c)
  BY CursorsOK DEF Covers

LEMMA LaterTrans ==
  ASSUME NEW a \in Cursors, NEW b \in Cursors, NEW c \in Cursors, Later(a, b), Later(b, c)
  PROVE  Later(a, c)
  BY CursorsOK DEF Later

\* What covers the latest tree is that tree.
LEMMA CoversLatest ==
  ASSUME NEW T \in Cursors, NEW a, Past(a, T), Covers(a, T)
  PROVE  a = T
  BY CursorsOK DEF Covers, Past, Later

-----------------------------------------------------------------------------
(* What a view does: reads.                                                 *)

LEMMA StartReadOK ==
  ASSUME NEW T, NEW w, ViewBase(w, T), w.active
  PROVE  LET r == StartRead(w) IN
         /\ ViewOK(r, T) /\ Knows(r, T) /\ ~Reading(r) /\ r.req = Unread
         /\ r.active /\ r.snap = w.snap /\ r.sub = w.sub
         /\ r.required = w.required /\ r.gap = w.gap
  <1> DEFINE r == StartRead(w)
  <1>1. /\ r \in View /\ r.req = Unread /\ ~r.timer /\ ~r.error
        /\ r.active = w.active /\ r.snap = w.snap /\ r.sub = w.sub
        /\ r.trailing = w.trailing /\ r.required = w.required /\ r.gap = w.gap
    BY DEF StartRead, ViewBase, View
  <1> HIDE DEF r
  <1>2. ViewBase(r, T)
    BY <1>1, CursorsOK DEF ViewBase, Past
  <1> QED  BY <1>1, <1>2, CursorsOK DEF ViewOK, Knows, Reading, r

LEMMA AskOK ==
  ASSUME NEW T, NEW w, ViewBase(w, T), w.active
  PROVE  LET r == Ask(w) IN
         /\ ViewOK(r, T) /\ Knows(r, T) /\ ~Reading(r) /\ r.req # None
         /\ r.active /\ r.snap = w.snap /\ r.sub = w.sub
         /\ r.required = w.required /\ r.gap = w.gap
  <1> DEFINE r == Ask(w)
  <1>1. CASE w.req = None
    <2>1. r = StartRead(w)
      BY <1>1 DEF Ask
    <2> QED  BY <2>1, StartReadOK, CursorsOK
  <1>2. CASE w.req # None
    <2>1. /\ r \in View /\ r.trailing /\ r.req = w.req /\ r.timer = w.timer
          /\ r.error = w.error
          /\ r.active = w.active /\ r.snap = w.snap /\ r.sub = w.sub
          /\ r.required = w.required /\ r.gap = w.gap
      BY <1>2 DEF Ask, ViewBase, View
    <2> HIDE DEF r
    <2>2. ViewBase(r, T)
      BY <1>2, <2>1 DEF ViewBase
    <2> QED  BY <1>2, <2>1, <2>2 DEF ViewOK, Knows, Reading, r
  <1> QED  BY <1>1, <1>2

-----------------------------------------------------------------------------
(* What a view does: directives.                                            *)

LEMMA MergedOK ==
  ASSUME NEW T, NEW required \in Cursors \cup {Undefined, None}, Past(required, T),
         NEW cursor \in Cursors \cup {None}, Past(cursor, T)
  PROVE  LET m == Merged(required, cursor) IN
         /\ m \in Cursors \cup {None} /\ Past(m, T)
         /\ cursor \in Cursors => m = None \/ Covers(m, cursor)
         /\ \A k : required = None \/ Covers(required, k) => m = None \/ Covers(m, k)
         /\ \A q : required # Undefined /\ ~Covers(q, required) => ~Covers(q, m)
  <1> DEFINE m == Merged(required, cursor)
  <1>1. \/ (required = Undefined \/ Covers(cursor, required)) /\ m = cursor
        \/ Covers(required, cursor) /\ m = required
        \/ /\ ~(required = Undefined \/ Covers(cursor, required))
           /\ ~Covers(required, cursor) /\ m = None
    BY DEF Merged, Covers
  <1> HIDE DEF m
  <1>2. CASE (required = Undefined \/ Covers(cursor, required)) /\ m = cursor
    <2>1. \A k : required = None \/ Covers(required, k) => Covers(cursor, k)
      BY <1>2, CursorsOK, CoversOK, CoversTrans
    <2>2. \A q : required # Undefined /\ ~Covers(q, required) => ~Covers(q, m)
      BY <1>2, CoversTrans
    <2> QED  BY <1>2, <2>1, <2>2, CoversItself DEF m
  <1>3. CASE Covers(required, cursor) /\ m = required
    BY <1>3, CoversOK DEF m
  <1>4. CASE /\ ~(required = Undefined \/ Covers(cursor, required))
             /\ ~Covers(required, cursor) /\ m = None
    <2>1. Past(m, T) /\ \A q : ~Covers(q, m)
      BY <1>4, CursorsOK DEF Past, Covers
    <2> QED  BY <1>4, <2>1 DEF m
  <1> QED  BY <1>1, <1>2, <1>3, <1>4

\* A directive: what the view knew it still knows, and it now knows this too.
LEMMA RequireOK ==
  ASSUME NEW T \in Cursors, NEW w, ViewOK(w, T), w.active,
         NEW cursor \in Cursors \cup {None}, Past(cursor, T), NEW gap \in BOOLEAN
  PROVE  LET r == Require(w, cursor, gap) IN
         /\ ViewOK(r, T)
         /\ r.active /\ r.snap = w.snap /\ r.sub = w.sub
         /\ r.gap # "no" \/ r.gap = w.gap
         /\ Knows(w, T) \/ gap \/ cursor = T => Knows(r, T)
         /\ \A k \in Cursors : w.sub \in Cursors /\ ListenerOK(w, k) => ListenerOK(r, k)
         /\ cursor \in Cursors /\ w.sub \in Cursors /\ ~gap => ListenerOK(r, cursor)
         /\ gap => r.req # None /\ ~Reading(r) /\ Flagged(r)
  <1> DEFINE r == Require(w, cursor, gap)
             m == Merged(w.required, cursor)
             reading == w.req # None /\ Covers(w.required, cursor)
             noted == [w EXCEPT !.required = Merged(@, cursor),
                                !.gap = IF gap THEN "transport" ELSE @]
  <1>1. ViewBase(w, T) /\ w \in View
    BY DEF ViewOK, ViewBase
  <1>2. /\ m \in Cursors \cup {None} /\ Past(m, T)
        /\ cursor \in Cursors => m = None \/ Covers(m, cursor)
        /\ \A k : w.required = None \/ Covers(w.required, k) => m = None \/ Covers(m, k)
        /\ \A q : w.required # Undefined /\ ~Covers(q, w.required) => ~Covers(q, m)
    <2>1. w.required \in Cursors \cup {Undefined, None} /\ Past(w.required, T)
      BY <1>1 DEF View, ViewBase
    <2> QED  BY <2>1, MergedOK
  <1>3. /\ noted \in View /\ noted.required = m
        /\ noted.gap = IF gap THEN "transport" ELSE w.gap
        /\ noted.active = w.active /\ noted.snap = w.snap /\ noted.sub = w.sub
        /\ noted.req = w.req /\ noted.trailing = w.trailing /\ noted.timer = w.timer
        /\ noted.error = w.error
    <2> HIDE DEF m
    <2>1. noted = [w EXCEPT !.required = m, !.gap = IF gap THEN "transport" ELSE @]
      BY <1>1 DEF View, m
    <2> QED  BY <1>1, <1>2, <2>1 DEF View
  <1>4. r = IF ~gap /\ Covers(w.snap, cursor) THEN w
            ELSE IF ~gap /\ reading THEN noted ELSE Ask(noted)
    BY DEF Require
  <1> HIDE DEF r, m, noted
  <1>5. ViewBase(noted, T)
    BY <1>1, <1>2, <1>3, CursorsOK DEF ViewBase
  <1>6. \A k : Bound(w, k) => Bound(noted, k)
    BY <1>2, <1>3 DEF Bound
  <1>7. CASE ~gap /\ Covers(w.snap, cursor)
    <2>1. r = w
      BY <1>4, <1>7
    <2>2. cursor \in Cursors /\ w.sub \in Cursors => ListenerOK(r, cursor)
      <3> SUFFICES ASSUME cursor \in Cursors, w.sub \in Cursors PROVE ListenerOK(w, cursor)
        BY <2>1
      <3>1. w.snap \in Cursors /\ w.snap[1] = cursor[1] /\ Later(w.snap, w.sub)
        BY <1>1, <1>7, CoversOK DEF ViewBase
      <3>2. w.sub[1] <= cursor[1]
        BY <3>1, CursorsOK DEF Later
      <3> QED  BY <1>7, <3>2 DEF ListenerOK
    <2>3. cursor = T => Knows(r, T)
      <3>1. Past(w.snap, T)
        BY <1>1 DEF ViewBase
      <3> QED  BY <1>7, <2>1, <3>1, CoversLatest DEF Knows
    <2> QED  BY <1>7, <2>1, <2>2, <2>3 DEF r
  <1>8. CASE ~(~gap /\ Covers(w.snap, cursor)) /\ ~gap /\ reading
    <2>1. r = noted
      BY <1>4, <1>8
    <2>2. m = w.required \/ m = cursor
      BY <1>8 DEF m, Merged
    <2>3. Covers(w.required, cursor) /\ w.required # Undefined
      BY <1>8, CoversOK, CursorsOK
    <2>4. \A q : Covers(q, m) => Covers(q, w.required)
      BY <1>2, <2>3
    <2>5. ViewOK(noted, T)
      <3>1. w.req # None
        BY <1>8
      <3>2. Reading(noted) /\ Covers(T, m) => Covers(noted.req, m)
        <4>1. CASE m = w.required
          BY <1>3, <4>1 DEF ViewOK, Reading
        <4>2. CASE m = cursor
          <5>1. Covers(T, m) /\ Reading(noted) => Covers(w.req, w.required)
            BY <1>3, <2>4 DEF ViewOK, Reading
          <5> QED  BY <1>3, <2>3, <4>2, <5>1, CoversTrans
        <4> QED  BY <2>2, <4>1, <4>2
      <3> QED  BY <1>3, <1>5, <3>1, <3>2 DEF ViewOK
    <2>6. Knows(w, T) => Knows(noted, T)
      BY <1>2, <1>3, <2>3, <1>8, CursorsOK DEF Knows, Flagged
    <2>7. cursor = T => Knows(noted, T)
      <3> SUFFICES ASSUME cursor = T PROVE Knows(noted, T)
        OBVIOUS
      <3>1. w.required = T
        BY <1>1, <2>3, CoversLatest DEF ViewBase
      <3>2. Covers(T, w.required)
        BY <3>1, CoversItself
      <3>3. CASE Reading(w)
        <4>1. Covers(w.req, T) /\ Past(w.req, T)
          BY <1>1, <3>1, <3>2, <3>3 DEF ViewOK, ViewBase
        <4>2. w.req = T
          BY <4>1, CoversLatest
        <4> QED  BY <1>3, <4>2 DEF Knows
      <3>4. CASE ~Reading(w)
        <4>1. w.trailing \/ w.req = Unread
          BY <1>1, <1>8, <3>4 DEF Reading, View
        <4> QED  BY <1>3, <4>1 DEF Knows
      <3> QED  BY <3>3, <3>4
    <2>8. \A k \in Cursors : ListenerOK(w, k) => ListenerOK(noted, k)
      BY <1>3, <1>6, <1>8 DEF ListenerOK, Reading, Flagged
    <2>9. cursor \in Cursors => ListenerOK(noted, cursor)
      BY <1>2, <1>3 DEF ListenerOK, Bound
    <2> QED  BY <1>3, <1>8, <2>1, <2>5, <2>6, <2>7, <2>8, <2>9 DEF r
  <1>9. CASE gap \/ (~Covers(w.snap, cursor) /\ ~reading)
    <2>1. r = Ask(noted)
      BY <1>4, <1>9
    <2>2. /\ ViewOK(r, T) /\ Knows(r, T) /\ ~Reading(r) /\ r.req # None
          /\ r.active /\ r.snap = w.snap /\ r.sub = w.sub
          /\ r.required = m /\ r.gap = noted.gap
      BY <1>3, <1>5, <2>1, AskOK
    <2>3. \A k : Bound(w, k) => Bound(r, k)
      BY <1>3, <1>6, <2>2 DEF Bound
    <2>4. \A k \in Cursors : ListenerOK(w, k) => ListenerOK(r, k)
      BY <2>2, <2>3 DEF ListenerOK
    <2>5. cursor \in Cursors => ListenerOK(r, cursor)
      BY <1>2, <2>2 DEF ListenerOK, Bound
    <2>6. gap => Flagged(r)
      BY <1>3, <2>2 DEF Flagged
    <2>7. r.gap # "no" \/ r.gap = w.gap
      BY <1>3, <2>2
    <2> QED  BY <2>2, <2>4, <2>5, <2>6, <2>7 DEF r
  <1> QED  BY <1>7, <1>8, <1>9

-----------------------------------------------------------------------------
(* What a view does: answers.                                               *)

\* The end of a read: the trailing one is begun, or the view rests.
LEMMA FinishedOK ==
  ASSUME NEW m, NEW done, done = [m EXCEPT !.req = None, !.trailing = FALSE], m \in View
  PROVE  /\ Finished(m) = IF m.trailing THEN Ask(done) ELSE done
         /\ done \in View /\ done.req = None /\ ~done.trailing
         /\ done.active = m.active /\ done.snap = m.snap /\ done.sub = m.sub
         /\ done.required = m.required /\ done.gap = m.gap
         /\ done.error = m.error /\ done.timer = m.timer
  BY DEF Finished, View

LEMMA ServerReadsOK ==
  ASSUME NEW T \in Cursors, NEW w, ViewOK(w, T), w.req = Unread,
         NEW r, r = [w EXCEPT !.req = T]
  PROVE  /\ ViewOK(r, T) /\ Knows(r, T)
         /\ r.active = w.active /\ r.snap = w.snap /\ r.sub = w.sub /\ r.gap = w.gap
         /\ \A k \in Cursors : Later(T, k) /\ ListenerOK(w, k) => ListenerOK(r, k)
  <1>1. ViewBase(w, T) /\ w \in View /\ w.active
    BY CursorsOK DEF ViewOK, ViewBase, Closed
  <1>2. /\ r \in View /\ r.req = T /\ r.active = w.active /\ r.snap = w.snap /\ r.sub = w.sub
        /\ r.required = w.required /\ r.gap = w.gap /\ r.timer = w.timer
        /\ r.error = w.error /\ r.trailing = w.trailing
    BY <1>1 DEF View
  <1>3. w.error = FALSE /\ r.req # None
    BY <1>1, <1>2, CursorsOK DEF ViewBase, View
  <1>4. ViewBase(r, T)
    BY <1>1, <1>2, <1>3, CoversItself DEF ViewBase, Past
  <1>5. ViewOK(r, T)
    BY <1>1, <1>2, <1>3, <1>4 DEF ViewOK
  <1>6. \A k : Bound(w, k) => Bound(r, k)
    BY <1>2 DEF Bound
  <1> QED  BY <1>2, <1>3, <1>5, <1>6 DEF Knows, ListenerOK

\* A requirement that an answer meets binds nobody to a scope of later trees.
LEMMA MetScope ==
  ASSUME NEW k \in Cursors, NEW next \in Cursors, NEW sub \in Cursors, NEW required,
         Later(next, sub), Covers(next, required), required = None \/ Covers(required, k)
  PROVE  Covers(next, k) /\ sub[1] <= k[1]
  <1>1. Covers(required, k)
    BY CursorsOK, CoversOK
  <1>2. Covers(next, k) /\ next[1] = k[1]
    BY <1>1, CoversTrans, CoversOK
  <1> QED  BY <1>2, CursorsOK DEF Later

\* What ReadSucceeds makes of the answer.
Answered(w) == IF w.snap # None /\ ~Covers(w.req, w.snap)
               THEN [w EXCEPT !.gap = "regression", !.error = FALSE]
               ELSE Accepted(w, w.req)

LEMMA ReadSucceedsOK ==
  ASSUME NEW T \in Cursors, NEW w, ViewOK(w, T), w.req \in Cursors,
         NEW r, r = Finished(Answered(w))
  PROVE  /\ ViewOK(r, T) /\ w.active /\ r.active /\ r.sub = w.sub
         /\ Knows(w, T) => Knows(r, T)
         /\ \A k \in Cursors : w.sub \in Cursors /\ ListenerOK(w, k) => ListenerOK(r, k)
         /\ w.snap # None => r.snap = w.snap \/ (r.snap = w.req /\ Covers(w.req, w.snap))
         /\ w.gap = "transport" /\ r.gap = "no" =>
               r.snap = w.req /\ Covers(w.req, w.required)
  <1> DEFINE next == w.req
             falls == w.snap # None /\ ~Covers(next, w.snap)
             met == IF Covers(next, w.required) THEN Undefined ELSE w.required
             m == IF falls THEN [w EXCEPT !.gap = "regression", !.error = FALSE]
                  ELSE Accepted(w, next)
             done == [m EXCEPT !.req = None, !.trailing = FALSE]
  <1>1. ViewBase(w, T) /\ w \in View /\ w.active /\ next \in Cursors /\ Past(next, T)
    BY CursorsOK DEF ViewOK, ViewBase, Closed
  <1>2. met \in Cursors \cup {Undefined, None}
    BY <1>1 DEF View
  <1>3. /\ m \in View /\ m.error = FALSE /\ m.req = next /\ m.trailing = w.trailing
        /\ m.active = w.active /\ m.sub = w.sub /\ m.timer = w.timer
        /\ falls => /\ m.snap = w.snap /\ m.required = w.required
                    /\ m.gap = "regression"
        /\ ~falls => /\ m.snap = next /\ m.required = met
                     /\ m.gap = IF met = Undefined THEN "no" ELSE "transport"
    <2>1. CASE falls
      BY <1>1, <2>1 DEF View
    <2>2. CASE ~falls
      <3>1. m = [w EXCEPT !.snap = next, !.required = met, !.error = FALSE,
                          !.gap = IF met = Undefined THEN "no" ELSE "transport"]
        BY <2>2 DEF Accepted
      <3> HIDE DEF m, met
      <3> QED  BY <1>1, <1>2, <2>2, <3>1 DEF View
    <2> QED  BY <2>1, <2>2
  <1> HIDE DEF m
  <1>4. /\ r = IF w.trailing THEN Ask(done) ELSE done
        /\ done \in View /\ done.req = None /\ ~done.trailing
        /\ done.active /\ done.snap = m.snap /\ done.sub = w.sub
        /\ done.required = m.required /\ done.gap = m.gap
        /\ done.error = FALSE /\ done.timer = w.timer
    <2>1. r = Finished(m)
      BY DEF m, Answered
    <2> QED  BY <1>1, <1>3, <2>1, FinishedOK
  <1> HIDE DEF done
  <1>5. ViewBase(done, T)
    <2>1. Past(done.snap, T) /\ Past(done.required, T) /\ Past(done.req, T)
      BY <1>1, <1>3, <1>4, CursorsOK DEF ViewBase, Past
    <2>2. done.snap \in Cursors /\ done.sub \in Cursors => Later(done.snap, done.sub)
      BY <1>1, <1>3, <1>4 DEF ViewBase
    <2>3. done.gap = "transport" => done.required # Undefined
      BY <1>1, <1>3, <1>4 DEF ViewBase
    <2> QED  BY <1>1, <1>4, <2>1, <2>2, <2>3, CursorsOK DEF ViewBase
  <1>5a. w.gap = "transport" /\ m.gap = "no" => m.snap = next /\ Covers(next, w.required)
    BY <1>1, <1>3 DEF ViewBase
  <1>6. \A k : Bound(w, k) => Bound(done, k) \/ (~falls /\ Covers(next, w.required))
    BY <1>3, <1>4 DEF Bound
  <1>7. \A k \in Cursors : w.sub \in Cursors /\ ListenerOK(w, k) =>
           w.sub[1] <= k[1] \/ Bound(done, k)
    <2> SUFFICES ASSUME NEW k \in Cursors, w.sub \in Cursors, ListenerOK(w, k)
                 PROVE  w.sub[1] <= k[1] \/ Bound(done, k)
      OBVIOUS
    <2>1. CASE Bound(w, k) /\ ~falls /\ Covers(next, w.required)
      <3>1. Later(next, w.sub)
        BY <1>1 DEF ViewBase
      <3> QED  BY <1>1, <2>1, <3>1, MetScope DEF Bound
    <2> QED  BY <1>6, <2>1 DEF ListenerOK
  <1>8. CASE w.trailing
    <2>1. r = Ask(done)
      BY <1>4, <1>8
    <2>2. /\ ViewOK(r, T) /\ Knows(r, T) /\ ~Reading(r) /\ r.req # None
          /\ r.active /\ r.snap = m.snap /\ r.sub = w.sub
          /\ r.required = done.required /\ r.gap = m.gap
      BY <1>4, <1>5, <2>1, AskOK
    <2>3. \A k \in Cursors : w.sub \in Cursors /\ ListenerOK(w, k) => ListenerOK(r, k)
      BY <1>7, <2>2 DEF ListenerOK, Bound
    <2> QED  BY <1>1, <1>3, <1>5a, <2>2, <2>3
  <1>9. CASE ~w.trailing
    <2>1. r = done /\ Reading(w)
      BY <1>1, <1>4, <1>9 DEF Reading
    <2>2. ViewOK(done, T)
      <3>1. done.snap # None
        BY <1>1, <1>3, <1>4, CursorsOK
      <3>2. done.required # Undefined => Flagged(done)
        BY <1>3, <1>4 DEF Flagged
      <3>3. Covers(T, done.required) => done.gap = "regression"
        <4> SUFFICES ASSUME ~falls PROVE ~Covers(T, met)
          BY <1>3, <1>4
        <4>1. Covers(T, w.required) => Covers(next, w.required)
          BY <2>1 DEF ViewOK
        <4> QED  BY <4>1, CoversOK, CursorsOK
      <3> QED  BY <1>4, <1>5, <3>1, <3>2, <3>3, CursorsOK DEF ViewOK, Reading
    <2>3. Knows(w, T) => Knows(done, T)
      <3> SUFFICES ASSUME Knows(w, T) PROVE Knows(done, T)
        OBVIOUS
      <3>1. CASE falls
        BY <1>3, <1>4, <3>1 DEF Knows, Flagged
      <3>2. CASE ~falls /\ next = T
        BY <1>3, <1>4, <3>2 DEF Knows
      <3>3. CASE ~falls /\ w.snap = T
        <4>1. Covers(next, T)
          BY <3>3, CursorsOK
        <4> QED  BY <1>1, <3>2, <3>3, <4>1, CoversLatest
      <3>4. CASE ~falls /\ w.required # Undefined /\ ~Covers(next, w.required)
        BY <1>3, <1>4, <3>4 DEF Knows, Flagged
      <3> QED  BY <1>1, <1>9, <3>1, <3>2, <3>3, <3>4, CursorsOK DEF Knows
    <2>4. ASSUME NEW k \in Cursors, w.sub \in Cursors, ListenerOK(w, k)
          PROVE  ListenerOK(done, k)
      <3>1. Later(next, k) \/ Covers(w.snap, k) \/ Bound(w, k)
        BY <2>1, <2>4 DEF ListenerOK
      <3>2. Covers(next, k) \/ next[1] > k[1] \/ Bound(done, k) \/ falls
        <4>1. CASE Later(next, k)
          BY <1>1, <4>1, CursorsOK, CoversLater DEF Later
        <4>2. CASE Covers(w.snap, k) /\ ~falls
          <5>1. w.snap # None
            BY <4>2, CoversOK, CursorsOK
          <5> QED  BY <4>2, <5>1, CoversTrans
        <4>3. CASE Bound(w, k) /\ ~Bound(done, k)
          <5>1. Covers(next, w.required) /\ Later(next, w.sub)
            BY <1>1, <1>6, <2>4, <4>3 DEF ViewBase
          <5> QED  BY <1>1, <2>4, <4>3, <5>1, MetScope DEF Bound
        <4> QED  BY <3>1, <4>1, <4>2, <4>3
      <3>3. \/ Covers(done.snap, k) \/ Bound(done, k)
            \/ done.snap # None /\ (done.snap # None => done.snap[1] > k[1])
            \/ Flagged(done)
        BY <1>1, <1>3, <1>4, <3>2, CursorsOK DEF Flagged
      <3>4. ~Reading(done)
        BY <1>4, CursorsOK DEF Reading
      <3> QED  BY <1>4, <1>7, <2>4, <3>3, <3>4 DEF ListenerOK
    <2> QED  BY <1>1, <1>3, <1>4, <1>5a, <2>1, <2>2, <2>3, <2>4
  <1> QED  BY <1>8, <1>9

LEMMA ReadFailsOK ==
  ASSUME NEW T \in Cursors, NEW w, ViewOK(w, T), w.req = Unread,
         NEW kind \in {"retryable", "conflict", "fatal"},
         NEW r, r = Finished(Failed(w, kind))
  PROVE  /\ ViewOK(r, T) /\ w.active /\ r.active /\ r.sub = w.sub
         /\ Knows(r, T)
         /\ \A k \in Cursors : ListenerOK(w, k) => ListenerOK(r, k)
         /\ r.snap \in {w.snap, None}
         /\ r.gap # "no" \/ r.gap = w.gap
  <1> DEFINE m == Failed(w, kind)
             done == [m EXCEPT !.req = None, !.trailing = FALSE]
  <1>1. ViewBase(w, T) /\ w \in View /\ w.active
    BY CursorsOK DEF ViewOK, ViewBase, Closed
  <1>2. /\ m \in View /\ m.error = TRUE /\ m.req = Unread /\ m.trailing = w.trailing
        /\ m.active = w.active /\ m.sub = w.sub /\ m.required = w.required
        /\ m.snap \in {w.snap, None}
        /\ m.gap # "no" \/ m.gap = w.gap
        /\ m.gap = "transport" => m.required # Undefined
        /\ m.snap # None /\ m.required # Undefined => m.timer
    <2>1. CASE w.snap # None /\ w.required # Undefined /\ kind # "fatal"
      <3>1. m = [w EXCEPT !.error = TRUE, !.gap = "transport", !.timer = TRUE]
        BY <2>1 DEF Failed
      <3> HIDE DEF m
      <3> QED  BY <1>1, <2>1, <3>1 DEF View, ViewBase
    <2>2. CASE ~(w.snap # None /\ w.required # Undefined /\ kind # "fatal")
      <3>1. m = [w EXCEPT !.error = TRUE, !.snap = IF kind = "retryable" THEN @ ELSE None]
        BY <2>2 DEF Failed
      <3> HIDE DEF m
      <3> QED  BY <1>1, <2>2, <3>1 DEF View, ViewBase
    <2> QED  BY <2>1, <2>2
  <1> HIDE DEF m
  <1>3. /\ r = IF w.trailing THEN Ask(done) ELSE done
        /\ done \in View /\ done.req = None /\ ~done.trailing
        /\ done.active /\ done.snap = m.snap /\ done.sub = w.sub
        /\ done.required = w.required /\ done.gap = m.gap
        /\ done.error = TRUE /\ done.timer = m.timer
    <2>1. r = Finished(m)
      BY DEF m
    <2> QED  BY <1>1, <1>2, <2>1, FinishedOK
  <1> HIDE DEF done
  <1>4. ViewBase(done, T)
    <2>1. Past(done.snap, T) /\ Past(done.req, T)
      BY <1>1, <1>2, <1>3, CursorsOK DEF ViewBase, Past
    <2>2. done.snap \in Cursors => done.snap = w.snap
      BY <1>2, <1>3, CursorsOK
    <2> QED  BY <1>1, <1>2, <1>3, <2>1, <2>2, CursorsOK DEF ViewBase
  <1>5. \A k : Bound(w, k) => Bound(done, k)
    BY <1>3 DEF Bound
  <1>6. CASE w.trailing
    <2>1. r = Ask(done)
      BY <1>3, <1>6
    <2>2. /\ ViewOK(r, T) /\ Knows(r, T) /\ ~Reading(r) /\ r.req # None
          /\ r.active /\ r.snap = done.snap /\ r.sub = w.sub
          /\ r.required = w.required /\ r.gap = m.gap
      BY <1>3, <1>4, <2>1, AskOK
    <2>3. \A k \in Cursors : ListenerOK(w, k) => ListenerOK(r, k)
      BY <2>2 DEF ListenerOK, Bound
    <2> QED  BY <1>1, <1>2, <1>3, <2>2, <2>3
  <1>7. CASE ~w.trailing
    <2>1. r = done
      BY <1>3, <1>7
    <2>2. Flagged(done) /\ ~Reading(done)
      BY <1>3, CursorsOK DEF Flagged, Reading
    <2>3. Covers(T, done.required) => done.required # Undefined
      BY CoversOK, CursorsOK
    <2>4. ViewOK(done, T)
      BY <1>2, <1>3, <1>4, <2>2, <2>3 DEF ViewOK
    <2>5. Knows(done, T)
      BY <1>3, <2>2 DEF Knows
    <2>6. \A k \in Cursors : ListenerOK(w, k) => ListenerOK(done, k)
      BY <1>3, <1>5, <2>2 DEF ListenerOK
    <2> QED  BY <1>1, <1>2, <1>3, <2>1, <2>4, <2>5, <2>6
  <1> QED  BY <1>6, <1>7

LEMMA ToldOK ==
  ASSUME NEW T \in Cursors, NEW w, ViewOK(w, T), w.active,
         NEW f \in Directive, Past(f.cursor, T)
  PROVE  LET r == Told(w, f) IN
         /\ ViewOK(r, T) /\ r.active /\ r.snap = w.snap /\ r.sub = w.sub
         /\ r.gap # "no" \/ r.gap = w.gap
         /\ Knows(w, T) \/ f.cursor = T => Knows(r, T)
         /\ \A k \in Cursors : w.sub \in Cursors /\ ListenerOK(w, k) => ListenerOK(r, k)
  <1>1. f.cursor \in Cursors \cup {None} /\ (f.reason = "gap") \in BOOLEAN
    BY DEF Directive
  <1>2. Told(w, f) = Require(w, f.cursor, f.reason = "gap")
    BY DEF Told
  <1> DEFINE gap == f.reason = "gap"
  <1> HIDE DEF gap
  <1>3. gap \in BOOLEAN /\ Told(w, f) = Require(w, f.cursor, gap)
    BY <1>1, <1>2 DEF gap
  <1> QED  BY <1>1, <1>3, RequireOK

LEMMA ToldGapOK ==
  ASSUME NEW T \in Cursors, NEW w, ViewOK(w, T), w.active
  PROVE  LET r == ToldGap(w) IN
         /\ ViewOK(r, T) /\ r.active /\ r.snap = w.snap /\ r.sub = w.sub
         /\ r.gap # "no" \/ r.gap = w.gap
         /\ Knows(r, T) /\ r.req # None /\ ~Reading(r)
         /\ \A k \in Cursors : w.sub \in Cursors /\ ListenerOK(w, k) => ListenerOK(r, k)
  <1>1. w.snap \in Cursors \cup {None} /\ Past(w.snap, T)
    BY DEF ViewOK, ViewBase, View
  <1> DEFINE gap == TRUE
             r == Require(w, w.snap, gap)
  <1>2. ToldGap(w) = r
    BY DEF ToldGap
  <1>3. gap \in BOOLEAN
    OBVIOUS
  <1>4. gap
    OBVIOUS
  <1> HIDE DEF gap
  <1>5. /\ ViewOK(r, T) /\ r.active /\ r.snap = w.snap /\ r.sub = w.sub
        /\ r.gap # "no" \/ r.gap = w.gap
        /\ Knows(w, T) \/ gap \/ w.snap = T => Knows(r, T)
        /\ \A k \in Cursors : w.sub \in Cursors /\ ListenerOK(w, k) => ListenerOK(r, k)
        /\ gap => r.req # None /\ ~Reading(r) /\ Flagged(r)
    BY <1>1, <1>3, RequireOK
  <1> HIDE DEF r
  <1> QED  BY <1>2, <1>5, <1>4

-----------------------------------------------------------------------------
(* The invariant.                                                           *)

\* A frame that will tell the listeners of the server's tree, if the shared cursor
\* does not cover it.
IsNews(f) == IF f = Malformed THEN ~chan.gapNotified ELSE f.cursor = tree

News == \E i \in 1..Len(down) : IsNews(down[i])

LinkOK ==
    /\ tree \in Cursors /\ serving \in BOOLEAN
    /\ up \in {None, Unsubscribe} \cup {Subscribe(c) : c \in Cursors \cup {None}}
    /\ down \in Seq(Directive \cup {Malformed})
    /\ ready \in BOOLEAN /\ dropped \in BOOLEAN /\ swallowed \in BOOLEAN
    /\ chan \in Channel \cup {None}
    /\ \A i \in 1..Len(down) : Past(down[i].cursor, tree)
    /\ ~ready => ~serving /\ up = None /\ down = <<>>
    /\ chan # None /\ up # None => up = Subscribe(chan.cursor)
    /\ ready /\ chan # None /\ up = None => serving

ViewsOK == view \in [Views -> View] /\ \A v \in Views : ViewOK(view[v], tree)

\* The channel was told of the tree last.
ToldOfTree ==
    chan.lastControl # None /\ (chan.lastControl # None => chan.lastControl.cursor = tree)

ChannelOK ==
    /\ chan = None <=> Listeners = {}
    /\ chan # None =>
          /\ Past(chan.cursor, tree)
          /\ chan.lastControl # None => Past(chan.lastControl.cursor, tree)
          /\ chan.cursor # None => \A v \in Listeners : ListenerOK(view[v], chan.cursor)
          /\ ToldOfTree => \A v \in Listeners : Knows(view[v], tree)

\* Once the server has the channel's subscription, the last directive is of the
\* tree, and what is not on the wire is known.
HearsOfTree ==
    ready /\ chan # None /\ up = None /\ ~swallowed =>
        /\ down # <<>> => \/ chan.cursor = tree
                          \/ down[Len(down)] = Malformed \/ down[Len(down)].cursor = tree
        /\ News \/ chan.cursor = tree \/ chan.gapNotified \/ ToldOfTree
        /\ News \/ \A v \in Listeners : Knows(view[v], tree)

TreeInv == LinkOK /\ ViewsOK /\ ChannelOK /\ HearsOfTree

LEMMA Objects ==
  /\ None \notin Channel /\ None \notin Directive /\ Malformed \notin Directive
  /\ None # Unsubscribe
  /\ \A c \in Cursors \cup {None} : None # Subscribe(c) /\ Unsubscribe # Subscribe(c)
  /\ \A c, d : Subscribe(c) = Subscribe(d) => c = d
  <1>1. Malformed \notin Directive
    BY DEF Malformed, Directive
  <1>2. \A c : Unsubscribe # Subscribe(c)
    BY DEF Unsubscribe, Subscribe
  <1>3. \A c, d : Subscribe(c) = Subscribe(d) => c = d
    BY DEF Subscribe
  <1> QED  BY <1>1, <1>2, <1>3, ValuesAssumption

LEMMA ListenersOK ==
  ASSUME TreeInv, NEW v \in Listeners
  PROVE  /\ v \in Views /\ ViewOK(view[v], tree) /\ view[v].active
         /\ view[v].sub \in Cursors
  <1>1. v \in Views /\ ViewOK(view[v], tree) /\ view[v].sub # None
    BY DEF TreeInv, ViewsOK, Listeners
  <1>2. view[v] \in View
    BY <1>1 DEF ViewOK, ViewBase
  <1> QED  BY <1>1, <1>2 DEF ViewOK, Closed, View

-----------------------------------------------------------------------------
(* The steps of one view that leave the channel alone.                      *)

LEMMA LocalOK ==
  ASSUME TreeInv, NEW v \in Views, NEW r, Set(v, r), Local,
         ViewOK(r, tree), r.sub = view[v].sub,
         r.sub # None =>
            /\ Knows(view[v], tree) => Knows(r, tree)
            /\ \A k \in Cursors :
                  Later(tree, k) /\ ListenerOK(view[v], k) => ListenerOK(r, k)
  PROVE  TreeInv'
  <1>1. /\ view' = [view EXCEPT ![v] = r]
        /\ UNCHANGED <<tree, serving, up, down, ready, dropped, chan, swallowed>>
    BY DEF Set, Local, link
  <1>2. view \in [Views -> View] /\ r \in View
    BY DEF TreeInv, ViewsOK, ViewOK, ViewBase
  <1>3. view' \in [Views -> View] /\ view'[v] = r /\ \A u \in Views \ {v} : view'[u] = view[u]
    BY <1>1, <1>2
  <1>4. ViewsOK'
    BY <1>1, <1>3 DEF TreeInv, ViewsOK
  <1>5. Listeners' = Listeners
    BY <1>3 DEF Listeners
  <1>6. LinkOK'
    BY <1>1 DEF TreeInv, LinkOK
  <1>7. \A u \in Listeners : Knows(view[u], tree) => Knows(view'[u], tree)
    BY <1>3 DEF Listeners
  <1>8. \A k \in Cursors, u \in Listeners :
            Later(tree, k) /\ ListenerOK(view[u], k) => ListenerOK(view'[u], k)
    BY <1>3 DEF Listeners
  <1>9. chan # None => chan.cursor = None \/ (chan.cursor \in Cursors /\ Later(tree, chan.cursor))
    BY DEF TreeInv, LinkOK, Channel, ChannelOK, Past
  <1>10. ChannelOK'
    BY <1>1, <1>5, <1>7, <1>8, <1>9 DEF TreeInv, ChannelOK, ToldOfTree
  <1>11. News' = News /\ ToldOfTree' = ToldOfTree
    BY <1>1 DEF News, IsNews, ToldOfTree
  <1>12. HearsOfTree'
    BY <1>1, <1>5, <1>7, <1>11 DEF TreeInv, HearsOfTree
  <1> QED  BY <1>4, <1>6, <1>10, <1>12 DEF TreeInv

LEMMA HookReadsOK ==
  ASSUME TreeInv, NEW v \in Views,
         \/ Open(v) \/ Refresh(v) \/ RetryFires(v)
         \/ ServerReads(v) \/ ReadSucceeds(v) \/ ReadFails(v)
  PROVE  TreeInv'
  <1>a. PICK w : w = view[v]
    OBVIOUS
  <1>1. tree \in Cursors /\ ViewOK(w, tree) /\ w \in View
    BY <1>a DEF TreeInv, LinkOK, ViewsOK
  <1>2. w.sub # None => w.sub \in Cursors
    BY <1>1 DEF View
  <1>3. CASE Open(v)
    <2> DEFINE o == [Closed EXCEPT !.active = TRUE]
    <2>1. Set(v, StartRead(o)) /\ Local /\ w = Closed
      BY <1>1, <1>3, <1>a DEF Open, ViewOK
    <2>2. /\ o \in View /\ o.active /\ o.snap = None /\ o.sub = None /\ o.req = None
          /\ o.required = Undefined /\ ~o.trailing /\ ~o.error /\ o.gap = "no"
      BY DEF Closed, View
    <2> HIDE DEF o
    <2>3. ViewBase(o, tree)
      BY <2>2, CursorsOK DEF ViewBase, Past
    <2>4. ViewOK(StartRead(o), tree) /\ StartRead(o).sub = None
      BY <2>2, <2>3, StartReadOK
    <2>5. view[v].sub = None
      BY <1>a, <2>1 DEF Closed
    <2> QED  BY <2>1, <2>4, <2>5, <1>a, LocalOK
  <1>4. CASE Refresh(v)
    <2>1. Set(v, StartRead(w)) /\ Local /\ w.active
      BY <1>4, <1>a DEF Refresh
    <2>2. /\ ViewOK(StartRead(w), tree) /\ Knows(StartRead(w), tree) /\ ~Reading(StartRead(w))
          /\ StartRead(w).req = Unread
          /\ StartRead(w).sub = w.sub /\ StartRead(w).required = w.required
      BY <1>1, <2>1, StartReadOK DEF ViewOK
    <2>3. \A k \in Cursors : ListenerOK(w, k) => ListenerOK(StartRead(w), k)
      BY <2>2, CursorsOK DEF ListenerOK, Bound
    <2> QED  BY <2>1, <2>2, <2>3, <1>a, LocalOK
  <1>5. CASE RetryFires(v)
    <2> DEFINE o == [w EXCEPT !.timer = FALSE]
    <2>1. Set(v, Ask(o)) /\ Local /\ w.timer
      BY <1>5, <1>a DEF RetryFires
    <2>2. w.active
      BY <1>1, <2>1 DEF ViewOK, Closed
    <2>3. /\ o \in View /\ o.active /\ o.snap = w.snap /\ o.sub = w.sub /\ o.req = w.req
          /\ o.required = w.required /\ o.trailing = w.trailing /\ o.error = w.error
          /\ o.gap = w.gap
      BY <1>1, <2>2 DEF View
    <2> HIDE DEF o
    <2>4. ViewBase(o, tree)
      BY <1>1, <2>3 DEF ViewOK, ViewBase
    <2>5. /\ ViewOK(Ask(o), tree) /\ Knows(Ask(o), tree) /\ ~Reading(Ask(o))
          /\ Ask(o).req # None
          /\ Ask(o).sub = w.sub /\ Ask(o).required = w.required
      BY <2>3, <2>4, AskOK
    <2>6. \A k \in Cursors : ListenerOK(w, k) => ListenerOK(Ask(o), k)
      BY <2>5 DEF ListenerOK, Bound
    <2> QED  BY <2>1, <2>5, <2>6, <1>a, LocalOK
  <1>6. CASE ServerReads(v)
    <2> DEFINE r == [w EXCEPT !.req = tree]
    <2>1. Set(v, r) /\ Local /\ w.req = Unread
      BY <1>6, <1>a DEF ServerReads
    <2>2. /\ ViewOK(r, tree) /\ Knows(r, tree) /\ r.sub = w.sub
          /\ \A k \in Cursors : Later(tree, k) /\ ListenerOK(w, k) => ListenerOK(r, k)
      BY <1>1, <2>1, ServerReadsOK
    <2> HIDE DEF r
    <2> QED  BY <2>1, <2>2, <1>a, LocalOK
  <1>7. CASE ReadSucceeds(v)
    <2> DEFINE r == Finished(Answered(w))
    <2>1. Set(v, r) /\ Local /\ w.req \in Cursors
      BY <1>7, <1>a DEF ReadSucceeds, Answered
    <2>4. /\ ViewOK(r, tree) /\ r.sub = w.sub
          /\ Knows(w, tree) => Knows(r, tree)
          /\ \A k \in Cursors : w.sub \in Cursors /\ ListenerOK(w, k) => ListenerOK(r, k)
      BY <1>1, <2>1, ReadSucceedsOK
    <2> HIDE DEF r
    <2> QED  BY <1>2, <2>1, <2>4, <1>a, LocalOK
  <1>8. CASE ReadFails(v)
    <2>1. w.req = Unread /\ Local
      BY <1>8, <1>a DEF ReadFails
    <2>2. PICK kind \in {"retryable", "conflict", "fatal"} : Set(v, Finished(Failed(w, kind)))
      BY <1>8, <1>a DEF ReadFails
    <2> DEFINE r == Finished(Failed(w, kind))
    <2>3. /\ ViewOK(r, tree) /\ r.sub = w.sub /\ Knows(r, tree)
          /\ \A k \in Cursors : ListenerOK(w, k) => ListenerOK(r, k)
      BY <1>1, <2>1, ReadFailsOK
    <2> HIDE DEF r
    <2>4. Set(v, r)
      BY <2>2 DEF r
    <2> QED  BY <2>1, <2>3, <2>4, <1>a, LocalOK
  <1> QED  BY <1>3, <1>4, <1>5, <1>6, <1>7, <1>8

-----------------------------------------------------------------------------
(* The subscription of a view.                                              *)

Others(v) == Listeners \ {v}

\* The state after the cleanup of v's effect.
Left(v) == IF view[v].sub = None THEN [views |-> view, chan |-> chan, send |-> None]
           ELSE Leaving(v)

LEMMA ClosedOK ==
  ASSUME NEW T
  PROVE  ViewOK(Closed, T) /\ Closed.sub = None
  <1>1. Closed \in View
    BY DEF Closed, View
  <1>2. /\ ~Closed.active /\ Closed.snap = None /\ Closed.sub = None /\ Closed.req = None
        /\ ~Closed.trailing /\ ~Closed.timer /\ Closed.required = Undefined
        /\ Closed.gap = "no" /\ Closed.error = FALSE
    BY DEF Closed
  <1> QED  BY <1>1, <1>2, CursorsOK DEF ViewOK, ViewBase, Past, Reading

\* A view that subscribes with what it shows is no nearer to or farther from it.
LEMMA SubOK ==
  ASSUME NEW T, NEW w, ViewOK(w, T), w.active, NEW c \in {None, w.snap},
         NEW m, m = [w EXCEPT !.sub = c]
  PROVE  /\ ViewOK(m, T) /\ m.sub = c /\ m.active /\ m.snap = w.snap
         /\ Knows(w, T) => Knows(m, T)
         /\ c \in Cursors => ListenerOK(m, c)
  <1>1. ViewBase(w, T) /\ w \in View
    BY DEF ViewOK, ViewBase
  <1>2. /\ m \in View /\ m.active = w.active /\ m.snap = w.snap /\ m.sub = c
        /\ m.req = w.req /\ m.trailing = w.trailing /\ m.timer = w.timer
        /\ m.required = w.required /\ m.gap = w.gap /\ m.error = w.error
    BY <1>1 DEF View
  <1>3. ViewBase(m, T)
    BY <1>1, <1>2, CursorsOK, CoversItself DEF ViewBase, Past
  <1>4. ViewOK(m, T)
    BY <1>2, <1>3 DEF ViewOK, Reading, Flagged
  <1>5. Knows(w, T) => Knows(m, T)
    BY <1>2 DEF Knows, Flagged
  <1>6. ASSUME c \in Cursors PROVE ListenerOK(m, c)
    <2>1. m.snap = c /\ c[1] \in Nat
      BY <1>2, <1>6, CursorsOK
    <2>2. Covers(m.snap, c)
      BY <1>6, <2>1, CoversItself
    <2>3. m.sub[1] <= c[1]
      BY <1>2, <2>1
    <2> QED  BY <2>2, <2>3 DEF ListenerOK
  <1> QED  BY <1>2, <1>4, <1>5, <1>6

LEMMA LeftOK ==
  ASSUME TreeInv, NEW v \in Views
  PROVE  /\ Left(v).views = [view EXCEPT ![v].sub = None]
         /\ Left(v).chan = IF Others(v) = {} THEN None ELSE chan
         /\ Left(v).send \in {None, Unsubscribe}
         /\ Others(v) # {} => Left(v).send = None /\ chan # None
  <1>1. view \in [Views -> View]
    BY DEF TreeInv, ViewsOK
  <1>2. chan = None <=> Listeners = {}
    BY DEF TreeInv, ChannelOK
  <1>3. CASE view[v].sub = None
    <2>1. /\ Left(v).views = view /\ Left(v).chan = chan /\ Left(v).send = None
      BY <1>3 DEF Left
    <2>2. Others(v) = Listeners
      BY <1>3 DEF Others, Listeners
    <2>3. view = [view EXCEPT ![v].sub = None]
      BY <1>1, <1>3 DEF View
    <2> QED  BY <1>2, <2>1, <2>2, <2>3
  <1>4. CASE view[v].sub # None
    <2>1. v \in Listeners
      BY <1>4 DEF Listeners
    <2>2. Listeners = {v} <=> Others(v) = {}
      BY <2>1 DEF Others
    <2>3. /\ Left(v).views = [view EXCEPT ![v].sub = None]
          /\ Left(v).chan = IF Listeners = {v} THEN None ELSE chan
          /\ Left(v).send = IF Listeners = {v} THEN Unsubscribe ELSE None
      BY <1>4 DEF Left, Leaving
    <2> QED  BY <1>2, <2>1, <2>2, <2>3
  <1> QED  BY <1>3, <1>4

\* v has no subscription any more.
LEMMA GoneOK ==
  ASSUME TreeInv, NEW v \in Views, NEW s, Become(s),
         s.chan = Left(v).chan, s.send = Left(v).send,
         NEW r, s.views = [view EXCEPT ![v] = r], ViewOK(r, tree), r.sub = None
  PROVE  TreeInv'
  <1>1. /\ view' = [view EXCEPT ![v] = r]
        /\ chan' = IF Others(v) = {} THEN None ELSE chan
        /\ up' = IF ready /\ s.send # None THEN s.send ELSE up
        /\ UNCHANGED <<tree, serving, down, ready, dropped, swallowed>>
    BY LeftOK DEF Become
  <1>2. s.send \in {None, Unsubscribe} /\ (Others(v) # {} => s.send = None /\ chan # None)
    BY LeftOK
  <1>3. view \in [Views -> View] /\ r \in View
    BY DEF TreeInv, ViewsOK, ViewOK, ViewBase
  <1>4. view' \in [Views -> View] /\ view'[v] = r /\ \A u \in Views \ {v} : view'[u] = view[u]
    BY <1>1, <1>3
  <1>5. ViewsOK'
    BY <1>1, <1>4 DEF TreeInv, ViewsOK
  <1>6. Listeners' = Others(v)
    BY <1>4 DEF Listeners, Others
  <1>7. \A u \in Others(v) : u \in Listeners /\ view'[u] = view[u]
    BY <1>4 DEF Listeners, Others
  <1>8. chan' # None => chan' = chan /\ up' = up
    BY <1>1, <1>2
  <1>9. LinkOK'
    <2>1. up' \in {None, Unsubscribe} \cup {Subscribe(c) : c \in Cursors \cup {None}}
      BY <1>1, <1>2 DEF TreeInv, LinkOK
    <2>2. ~ready => up' = None
      BY <1>1 DEF TreeInv, LinkOK
    <2> QED  BY <1>1, <1>8, <2>1, <2>2 DEF TreeInv, LinkOK
  <1>10. chan' # None => News' = News /\ ToldOfTree' = ToldOfTree
    BY <1>1, <1>8 DEF News, IsNews, ToldOfTree
  <1>11. ChannelOK'
    <2>1. chan' = None <=> Listeners' = {}
      BY <1>1, <1>2, <1>6
    <2> QED  BY <1>1, <1>6, <1>7, <1>8, <1>10, <2>1 DEF TreeInv, ChannelOK
  <1>12. HearsOfTree'
    BY <1>1, <1>6, <1>7, <1>8, <1>10 DEF TreeInv, HearsOfTree
  <1> QED  BY <1>5, <1>9, <1>11, <1>12 DEF TreeInv

\* v joins with a new subscription of the channel: nothing is known of the wire.
LEMMA SubscribedOK ==
  ASSUME TreeInv, NEW s, Become(s),
         NEW c \in Cursors \cup {None}, Past(c, tree), NEW gap \in BOOLEAN,
         s.chan = [cursor |-> c, gapNotified |-> gap, lastControl |-> None],
         s.send = Subscribe(c),
         s.views \in [Views -> View],
         \A u \in Views : ViewOK(s.views[u], tree),
         \E u \in Views : s.views[u].sub # None,
         c # None => \A u \in Views : s.views[u].sub # None => ListenerOK(s.views[u], c)
  PROVE  TreeInv'
  <1>1. s.chan \in Channel /\ s.chan.cursor = c /\ s.chan.lastControl = None
    BY DEF Channel
  <1>2. s.chan # None /\ s.send # None
    BY <1>1, Objects
  <1>3. /\ view' = s.views /\ chan' = s.chan
        /\ up' = IF ready THEN Subscribe(c) ELSE up
        /\ UNCHANGED <<tree, serving, down, ready, dropped, swallowed>>
    BY <1>2 DEF Become
  <1>4. ViewsOK'
    BY <1>3 DEF ViewsOK
  <1>5. up' = IF ready THEN Subscribe(c) ELSE None
    BY <1>3 DEF TreeInv, LinkOK
  <1>6. LinkOK'
    <2>1. up' \in {None, Unsubscribe} \cup {Subscribe(d) : d \in Cursors \cup {None}}
      BY <1>5
    <2>2. chan' \in Channel \cup {None} /\ chan'.cursor = c
      BY <1>1, <1>3
    <2>3. ~(ready' /\ up' = None)
      BY <1>2, <1>3, <1>5, Objects
    <2> QED  BY <1>3, <1>5, <2>1, <2>2, <2>3 DEF TreeInv, LinkOK
  <1>7. ChannelOK'
    <2>1. Listeners' # {} /\ \A u \in Listeners' : u \in Views /\ s.views[u].sub # None
      BY <1>3 DEF Listeners
    <2>2. ~ToldOfTree'
      BY <1>1, <1>3 DEF ToldOfTree
    <2> QED  BY <1>1, <1>2, <1>3, <2>1, <2>2 DEF ChannelOK
  <1>8. HearsOfTree'
    BY <1>3, <1>5, Objects DEF HearsOfTree
  <1> QED  BY <1>4, <1>6, <1>7, <1>8 DEF TreeInv

\* v joins the channel as it is.
LEMMA JoinedOK ==
  ASSUME TreeInv, NEW v \in Views, NEW s, Become(s),
         chan # None, s.chan = chan, s.send = None,
         NEW r, s.views = [view EXCEPT ![v] = r], ViewOK(r, tree), r.sub # None,
         chan.cursor # None => ListenerOK(r, chan.cursor),
         ToldOfTree \/ chan.cursor = tree \/ chan.gapNotified => Knows(r, tree)
  PROVE  TreeInv'
  <1>1. view' = [view EXCEPT ![v] = r]
        /\ UNCHANGED <<tree, serving, up, down, ready, dropped, chan, swallowed>>
    BY DEF Become
  <1>2. view \in [Views -> View] /\ r \in View
    BY DEF TreeInv, ViewsOK, ViewOK, ViewBase
  <1>3. view' \in [Views -> View] /\ view'[v] = r /\ \A u \in Views \ {v} : view'[u] = view[u]
    BY <1>1, <1>2
  <1>4. ViewsOK'
    BY <1>1, <1>3 DEF TreeInv, ViewsOK
  <1>5. Listeners' = Listeners \cup {v}
    BY <1>3 DEF Listeners
  <1>6. \A u \in Listeners' : u = v \/ (u \in Listeners /\ view'[u] = view[u])
    BY <1>3, <1>5 DEF Listeners
  <1>7. LinkOK'
    BY <1>1 DEF TreeInv, LinkOK
  <1>8. News' = News /\ ToldOfTree' = ToldOfTree
    BY <1>1 DEF News, IsNews, ToldOfTree
  <1>9. ChannelOK'
    <2>1. Listeners' # {}
      BY <1>5
    <2>2. chan.cursor # None => \A u \in Listeners' : ListenerOK(view'[u], chan.cursor)
      BY <1>3, <1>6 DEF TreeInv, ChannelOK
    <2>3. ToldOfTree => \A u \in Listeners' : Knows(view'[u], tree)
      BY <1>3, <1>6 DEF TreeInv, ChannelOK
    <2> QED  BY <1>1, <1>8, <2>1, <2>2, <2>3 DEF TreeInv, ChannelOK
  <1>10. HearsOfTree'
    <2>1. ready /\ up = None /\ ~swallowed /\ ~News
              => \A u \in Listeners' : Knows(view'[u], tree)
      BY <1>3, <1>6 DEF TreeInv, HearsOfTree
    <2> QED  BY <1>1, <1>8, <2>1 DEF TreeInv, HearsOfTree
  <1> QED  BY <1>4, <1>7, <1>9, <1>10 DEF TreeInv

LEMMA CloseOK ==
  ASSUME TreeInv, NEW v \in Views, Close(v)
  PROVE  TreeInv'
  <1> DEFINE s == [Left(v) EXCEPT !.views[v] = Closed]
  <1>1. view \in [Views -> View]
    BY DEF TreeInv, ViewsOK
  <1>2. Become(s)
    BY DEF Close, Left
  <1>3. Left(v) = [views |-> Left(v).views, chan |-> Left(v).chan, send |-> Left(v).send]
    BY DEF Left, Leaving
  <1>4. /\ s.chan = Left(v).chan /\ s.send = Left(v).send
        /\ s.views = [Left(v).views EXCEPT ![v] = Closed]
    BY <1>3
  <1>5. s.views = [view EXCEPT ![v] = Closed]
    BY <1>1, <1>4, LeftOK
  <1> HIDE DEF s
  <1>6. ViewOK(Closed, tree) /\ Closed.sub = None
    BY ClosedOK
  <1> QED  BY <1>2, <1>4, <1>5, <1>6, GoneOK

LEMMA ResubscribeOK ==
  ASSUME TreeInv, NEW v \in Views, Resubscribe(v)
  PROVE  TreeInv'
  <1> DEFINE w == view[v]
             c == w.snap
             s == Left(v)
             old == s.chan
             mine == [w EXCEPT !.sub = c]
  <1>1. /\ view \in [Views -> View] /\ w \in View /\ ViewOK(w, tree)
        /\ tree \in Cursors /\ chan \in Channel \cup {None}
    BY DEF TreeInv, ViewsOK, LinkOK
  <1>2. w.active /\ c \in Cursors \cup {None} /\ Past(c, tree)
    BY <1>1 DEF Resubscribe, ViewOK, ViewBase, Closed, View
  <1>3. /\ s.views = [view EXCEPT ![v].sub = None]
        /\ old = IF Others(v) = {} THEN None ELSE chan
        /\ s.send \in {None, Unsubscribe}
        /\ Others(v) # {} => s.send = None /\ chan # None
    BY LeftOK
  <1>4. Become(IF c = None THEN s ELSE Joining(v, s))
    BY DEF Resubscribe, Left
  <1>5. CASE c = None
    <2> DEFINE r == [w EXCEPT !.sub = None]
    <2>1. s.views = [view EXCEPT ![v] = r]
      BY <1>1, <1>3
    <2>2. ViewOK(r, tree) /\ r.sub = None
      BY <1>1, <1>2, SubOK
    <2> HIDE DEF r
    <2> QED  BY <1>4, <1>5, <2>1, <2>2, GoneOK
  <1>6. CASE c # None
    <2> DEFINE fresh(cursor, gap) ==
                 [cursor |-> cursor, gapNotified |-> gap, lastControl |-> None]
               with(me, ch, send) == [views |-> [s.views EXCEPT ![v] = me], chan |-> ch,
                                      send |-> send]
               greeted == IF old.gapNotified THEN ToldGap(mine)
                          ELSE IF old.lastControl # None THEN Told(mine, old.lastControl)
                          ELSE mine
               others == [u \in Views |-> IF u = v THEN mine
                                          ELSE IF s.views[u].sub # None
                                          THEN Require(s.views[u], c, FALSE) ELSE s.views[u]]
    <2>1. c \in Cursors /\ Become(Joining(v, s))
      BY <1>2, <1>4, <1>6
    <2>2. mine = [s.views[v] EXCEPT !.sub = c]
      BY <1>1, <1>3 DEF View
    <2>3. Joining(v, s) =
            IF old = None THEN with(mine, fresh(c, FALSE), Subscribe(c))
            ELSE IF old.cursor = c THEN with(greeted, old, None)
            ELSE IF old.cursor = None \/ Covers(c, old.cursor)
            THEN [views |-> others, chan |-> fresh(c, FALSE), send |-> Subscribe(c)]
            ELSE IF Covers(old.cursor, c) THEN with(ToldGap(mine), old, None)
            ELSE with(ToldGap(mine), fresh(None, TRUE), Subscribe(None))
      BY <2>2 DEF Joining
    <2>4. /\ ViewOK(mine, tree) /\ mine.sub = c /\ mine.active /\ mine.snap = c
          /\ Knows(w, tree) => Knows(mine, tree)
          /\ ListenerOK(mine, c)
      BY <1>1, <1>2, <2>1, SubOK
    <2>5. \A me : [s.views EXCEPT ![v] = me] = [view EXCEPT ![v] = me]
      BY <1>1, <1>3
    <2>6. /\ s.views \in [Views -> View] /\ s.views[v].sub = None
          /\ \A u \in Views \ {v} : s.views[u] = view[u]
      <3>1. [w EXCEPT !.sub = None] \in View
        BY <1>1 DEF View
      <3> QED  BY <1>1, <1>3, <3>1 DEF View
    <2>7. \A u \in Views : u # v => ViewOK(s.views[u], tree) /\ s.views[u] = view[u]
      BY <2>6 DEF TreeInv, ViewsOK
    <2>8. /\ ViewOK(ToldGap(mine), tree) /\ ToldGap(mine).sub = c
          /\ Knows(ToldGap(mine), tree)
          /\ ToldGap(mine).req # None /\ ~Reading(ToldGap(mine))
          /\ \A k \in Cursors : ListenerOK(mine, k) => ListenerOK(ToldGap(mine), k)
      <3> HIDE DEF mine
      <3> QED  BY <1>1, <2>1, <2>4, ToldGapOK
    <2>9. PICK t : t = Joining(v, s)
      OBVIOUS
    <2>10. mine \in View /\ ToldGap(mine) \in View
      BY <2>4, <2>8 DEF ViewOK, ViewBase
    <2>11. old # None => old = chan /\ s.send = None /\ chan # None /\ chan \in Channel
      BY <1>1, <1>3
    <2>12. \A u \in Views \ {v} : s.views[u].sub # None =>
              u \in Others(v) /\ view[u].active /\ view[u].sub \in Cursors
      BY <2>7, ListenersOK DEF Others, Listeners
    <2> HIDE DEF w, s, mine, old, c
    <2>13. CASE old = None
      <3>1. /\ t.views = [s.views EXCEPT ![v] = mine]
            /\ t.chan = [cursor |-> c, gapNotified |-> FALSE, lastControl |-> None]
            /\ t.send = Subscribe(c)
        BY <2>3, <2>9, <2>13
      <3>2. Others(v) = {}
        BY <1>3, <2>13
      <3>3. /\ t.views \in [Views -> View] /\ t.views[v] = mine
            /\ \A u \in Views \ {v} : t.views[u] = s.views[u]
        BY <2>6, <2>10, <3>1
      <3>4. \A u \in Views : ViewOK(t.views[u], tree)
        BY <2>4, <2>7, <3>3
      <3>5. \A u \in Views : t.views[u].sub # None => ListenerOK(t.views[u], c)
        BY <2>4, <2>12, <3>2, <3>3
      <3>6. \E u \in Views : t.views[u].sub # None
        BY <2>1, <2>4, <3>3, CursorsOK
      <3> QED  BY <1>2, <2>1, <2>9, <3>1, <3>3, <3>4, <3>5, <3>6, SubscribedOK
    <2>14. CASE old # None /\ old.cursor = c
      <3>1. t.views = [view EXCEPT ![v] = greeted] /\ t.chan = chan /\ t.send = None
        BY <2>3, <2>5, <2>9, <2>11, <2>14
      <3>2. /\ ViewOK(greeted, tree) /\ greeted.sub = c
            /\ \A k \in Cursors : ListenerOK(mine, k) => ListenerOK(greeted, k)
            /\ ToldOfTree \/ chan.cursor = tree \/ chan.gapNotified => Knows(greeted, tree)
        <4>1. chan.cursor = tree => Knows(mine, tree)
          BY <2>4, <2>11, <2>14 DEF Knows
        <4>2. CASE old.gapNotified
          BY <2>8, <4>2
        <4>3. CASE ~old.gapNotified /\ old.lastControl # None
          <5>1. PICK f : f = old.lastControl
            OBVIOUS
          <5>2. f \in Directive /\ Past(f.cursor, tree)
            BY <2>11, <2>14, <4>3, <5>1 DEF TreeInv, ChannelOK, Channel
          <5>3. greeted = Told(mine, f)
            BY <4>3, <5>1
          <5>4. /\ ViewOK(greeted, tree) /\ greeted.sub = c
                /\ Knows(mine, tree) \/ f.cursor = tree => Knows(greeted, tree)
                /\ \A k \in Cursors : ListenerOK(mine, k) => ListenerOK(greeted, k)
            <6> HIDE DEF greeted
            <6> QED  BY <1>1, <2>1, <2>4, <5>2, <5>3, ToldOK
          <5> HIDE DEF greeted
          <5>5. ToldOfTree => f.cursor = tree
            BY <2>11, <2>14, <4>3, <5>1 DEF ToldOfTree
          <5> QED  BY <2>11, <2>14, <4>1, <4>3, <5>4, <5>5
        <4>4. CASE ~old.gapNotified /\ old.lastControl = None
          <5>1. greeted = mine
            BY <4>4
          <5> HIDE DEF greeted
          <5>2. ~ToldOfTree
            BY <2>11, <2>14, <4>4 DEF ToldOfTree
          <5> QED  BY <2>4, <2>11, <2>14, <4>1, <4>4, <5>1, <5>2
        <4> QED  BY <4>2, <4>3, <4>4
      <3> HIDE DEF greeted
      <3>3. ListenerOK(greeted, chan.cursor)
        BY <2>1, <2>4, <2>11, <2>14, <3>2
      <3>4. greeted.sub # None
        BY <2>1, <3>2, CursorsOK
      <3> QED  BY <2>1, <2>9, <2>11, <2>14, <3>1, <3>2, <3>3, <3>4, JoinedOK
    <2>15. CASE /\ old # None /\ old.cursor # c
                /\ old.cursor = None \/ Covers(c, old.cursor)
      <3>1. /\ t.views = others
            /\ t.chan = [cursor |-> c, gapNotified |-> FALSE, lastControl |-> None]
            /\ t.send = Subscribe(c)
        BY <2>3, <2>9, <2>15
      <3>2. ASSUME NEW u \in Views \ {v}, s.views[u].sub # None
            PROVE  /\ ViewOK(Require(s.views[u], c, FALSE), tree)
                   /\ ListenerOK(Require(s.views[u], c, FALSE), c)
        <4>1. PICK x, gap : x = s.views[u] /\ gap = FALSE
          OBVIOUS
        <4>2. ViewOK(x, tree) /\ x.active /\ x.sub \in Cursors /\ gap \in BOOLEAN /\ ~gap
          BY <2>7, <2>12, <3>2, <4>1
        <4>3. ViewOK(Require(x, c, gap), tree) /\ ListenerOK(Require(x, c, gap), c)
          BY <1>1, <1>2, <2>1, <4>2, RequireOK
        <4> QED  BY <4>1, <4>3
      <3>3. ASSUME NEW u \in Views
            PROVE  /\ ViewOK(t.views[u], tree)
                   /\ t.views[u].sub # None => ListenerOK(t.views[u], c)
        <4>1. CASE u = v
          BY <2>4, <3>1, <4>1
        <4>2. CASE u # v /\ s.views[u].sub # None
          BY <3>1, <3>2, <4>2
        <4>3. CASE u # v /\ s.views[u].sub = None
          BY <2>7, <3>1, <4>3
        <4> QED  BY <4>1, <4>2, <4>3
      <3>4. t.views \in [Views -> View]
        <4>1. \A u \in Views : others[u] \in View
          BY <3>1, <3>3 DEF ViewOK, ViewBase
        <4> QED  BY <3>1, <4>1
      <3>5. t.views[v].sub # None
        BY <2>1, <2>4, <3>1, CursorsOK
      <3> HIDE DEF others
      <3> QED  BY <1>2, <2>1, <2>9, <3>1, <3>3, <3>4, <3>5, SubscribedOK
    <2>16. CASE /\ old # None /\ old.cursor # c
                /\ ~(old.cursor = None \/ Covers(c, old.cursor)) /\ Covers(old.cursor, c)
      <3>1. t.views = [view EXCEPT ![v] = ToldGap(mine)] /\ t.chan = chan /\ t.send = None
        BY <2>3, <2>5, <2>9, <2>11, <2>16
      <3>2. ListenerOK(ToldGap(mine), old.cursor)
        <4>1. c[1] = old.cursor[1] /\ c[1] \in Nat
          BY <2>1, <2>16, CoversOK, CursorsOK
        <4> QED  BY <2>8, <4>1 DEF ListenerOK
      <3>3. ToldGap(mine).sub # None
        BY <2>1, <2>8, CursorsOK
      <3> QED  BY <2>1, <2>8, <2>9, <2>11, <2>16, <3>1, <3>2, <3>3, JoinedOK
    <2>17. CASE /\ old # None /\ old.cursor # c
                /\ ~(old.cursor = None \/ Covers(c, old.cursor)) /\ ~Covers(old.cursor, c)
      <3>1. /\ t.views = [s.views EXCEPT ![v] = ToldGap(mine)]
            /\ t.chan = [cursor |-> None, gapNotified |-> TRUE, lastControl |-> None]
            /\ t.send = Subscribe(None)
        BY <2>3, <2>9, <2>17
      <3>2. /\ t.views \in [Views -> View] /\ t.views[v] = ToldGap(mine)
            /\ \A u \in Views \ {v} : t.views[u] = s.views[u]
        BY <2>6, <2>10, <3>1
      <3>3. \A u \in Views : ViewOK(t.views[u], tree)
        BY <2>7, <2>8, <3>2
      <3>4. \E u \in Views : t.views[u].sub # None
        BY <2>1, <2>8, <3>2, CursorsOK
      <3>5. Past(None, tree)
        BY CursorsOK DEF Past
      <3> QED  BY <2>1, <2>9, <3>1, <3>2, <3>3, <3>4, <3>5, SubscribedOK
    <2> QED  BY <2>13, <2>14, <2>15, <2>16, <2>17
  <1> QED  BY <1>5, <1>6

-----------------------------------------------------------------------------
(* The server and the socket.                                               *)

LEMMA AdvancedOK ==
  ASSUME NEW T \in Cursors, NEW U \in Cursors, Later(U, T), U # T
  PROVE  /\ \A c : Past(c, T) => Past(c, U) /\ (c \in Cursors => c # U)
         /\ \A w : ViewOK(w, T) => ViewOK(w, U)
  <1>1. ASSUME NEW c \in Cursors, Later(T, c)
        PROVE  Later(U, c) /\ c # U
    BY <1>1, CursorsOK DEF Later
  <1>2. \A c : Past(c, T) => Past(c, U) /\ (c \in Cursors => c # U)
    BY <1>1 DEF Past
  <1>3. ASSUME NEW c, Past(c, T), Covers(U, c)
        PROVE  Covers(T, c)
    <2>1. c \in Cursors /\ Later(T, c) /\ U[1] = c[1]
      BY <1>3 DEF Covers, Past
    <2> QED  BY <2>1, CursorsOK DEF Covers, Later
  <1>4. ASSUME NEW w, ViewOK(w, T) PROVE ViewOK(w, U)
    <2>1. ViewBase(w, U)
      BY <1>2, <1>4 DEF ViewOK, ViewBase
    <2>2. Covers(U, w.required) => Covers(T, w.required)
      BY <1>3, <1>4 DEF ViewOK, ViewBase
    <2> QED  BY <1>4, <2>1, <2>2 DEF ViewOK
  <1> QED  BY <1>2, <1>4

\* A listener that is not behind a shared cursor which is the tree's knows the tree.
LEMMA CurrentKnows ==
  ASSUME NEW T \in Cursors, NEW w, ViewOK(w, T), w.active, ListenerOK(w, T)
  PROVE  Knows(w, T)
  <1>1. ViewBase(w, T) /\ w \in View
    BY DEF ViewOK, ViewBase
  <1>2. Covers(w.snap, T) => w.snap = T
    BY <1>1, CoversLatest DEF ViewBase
  <1>3. Bound(w, T) => w.required = None \/ w.required = T
    BY <1>1, CoversLatest DEF ViewBase, Bound
  <1>4. CASE Reading(w)
    <2>1. w.req \in Cursors /\ Later(T, w.req)
      BY <1>1, <1>4 DEF Reading, ViewBase, Past
    <2>2. Later(w.req, T) => w.req = T
      BY <2>1, CursorsOK DEF Later
    <2>3. w.required = None => ~Covers(w.req, w.required)
      BY CursorsOK, CoversOK
    <2>4. w.required = T => w.req = T
      <3>1. Covers(w.req, T) => w.req = T
        BY <1>1, CoversLatest DEF ViewBase
      <3> QED  BY <1>4, <3>1, CoversItself DEF ViewOK
    <2> QED  BY <1>2, <1>3, <1>4, <2>1, <2>2, <2>3, <2>4, CursorsOK DEF ListenerOK, Knows
  <1>5. CASE w.req = None
    <2>1. ~(w.snap # None /\ (w.snap # None => w.snap[1] > T[1]))
      <3> SUFFICES ASSUME w.snap # None PROVE ~(w.snap[1] > T[1])
        OBVIOUS
      <3>1. w.snap \in Cursors /\ Later(T, w.snap)
        BY <1>1 DEF View, ViewBase, Past
      <3> QED  BY <3>1, CursorsOK DEF Later
    <2>2. Bound(w, T) => Flagged(w)
      BY <1>3, <1>5, CursorsOK DEF ViewOK
    <2> QED  BY <1>2, <1>5, <2>1, <2>2 DEF ListenerOK, Knows
  <1>6. CASE ~Reading(w) /\ w.req # None
    BY <1>1, <1>6 DEF Reading, View, Knows
  <1> QED  BY <1>4, <1>5, <1>6

LEMMA AdvanceOK ==
  ASSUME TreeInv, Advance
  PROVE  TreeInv'
  <1>1. tree \in Cursors /\ UNCHANGED <<serving, up, ready, dropped, chan, view>>
    BY DEF TreeInv, LinkOK, Advance
  <1>13. swallowed' \in BOOLEAN
    BY DEF Advance, TreeInv, LinkOK, Channel
  <1>2. tree' \in Cursors /\ Later(tree', tree) /\ tree' # tree
    <2>1. /\ tree = <<tree[1], tree[2]>> /\ tree[1] \in 1..MaxScope /\ tree[2] \in 1..MaxRevision
      BY <1>1, TreeAssumption DEF Cursors
    <2>2. CASE tree[1] + tree[2] <= MaxRevision /\ tree' = <<tree[1], tree[2] + 1>>
      BY <2>1, <2>2, TreeAssumption DEF Cursors, Later
    <2>3. CASE tree[1] < MaxScope /\ tree' = <<tree[1] + 1, 1>>
      BY <2>1, <2>3, TreeAssumption DEF Cursors, Later
    <2> QED  BY <2>2, <2>3 DEF Advance
  <1>3. /\ \A c : Past(c, tree) => Past(c, tree') /\ (c \in Cursors => c # tree')
        /\ \A w : ViewOK(w, tree) => ViewOK(w, tree')
    BY <1>1, <1>2, AdvancedOK
  <1>4. ViewsOK'
    BY <1>1, <1>3 DEF TreeInv, ViewsOK
  <1>5. Past(tree', tree') /\ Past(None, tree')
    BY <1>2, CoversItself, CursorsOK DEF Past
  <1>6. \/ ~serving /\ down' = down
        \/ /\ serving
           /\ \E f \in Directive \cup {Malformed} :
                 /\ down' = Append(down, f) /\ Past(f.cursor, tree')
                 /\ f = Malformed \/ f.cursor = tree'
                 /\ f = Malformed => swallowed' = (chan # None /\ chan.gapNotified)
                 /\ f # Malformed => swallowed' = FALSE
    <2>1. CASE serving
      <3>1. PICK f : /\ down' = Append(down, f)
                     /\ \/ /\ f = [reason |-> "changed", cursor |-> tree']
                           /\ swallowed' = FALSE
                        \/ /\ f = Malformed
                           /\ swallowed' = (chan # None /\ chan.gapNotified)
        BY <2>1 DEF Advance
      <3>2. CASE f = [reason |-> "changed", cursor |-> tree'] /\ swallowed' = FALSE
        <4>1. f \in Directive /\ f.cursor = tree'
          BY <1>2, <3>2 DEF Directive
        <4> QED  BY <1>5, <2>1, <3>1, <4>1, Objects
      <3>3. CASE f = Malformed /\ swallowed' = (chan # None /\ chan.gapNotified)
        <4>1. f.cursor = None
          BY <3>3 DEF Malformed
        <4> QED  BY <1>5, <2>1, <3>1, <3>3, <4>1
      <3> QED  BY <3>1, <3>2, <3>3
    <2>2. CASE ~serving
      <3>1. down' = down
        BY <2>2 DEF Advance
      <3> QED  BY <2>2, <3>1
    <2> QED  BY <2>1, <2>2
  <1>7. down \in Seq(Directive \cup {Malformed}) /\ \A i \in 1..Len(down) : Past(down[i].cursor, tree')
    BY <1>3 DEF TreeInv, LinkOK
  <1>8. /\ down' \in Seq(Directive \cup {Malformed})
        /\ \A i \in 1..Len(down') : Past(down'[i].cursor, tree')
    BY <1>6, <1>7
  <1>9. LinkOK'
    <2>1. serving \/ down' = down
      BY <1>6
    <2> QED  BY <1>1, <1>2, <1>8, <1>13, <2>1 DEF TreeInv, LinkOK
  <1>10. chan # None => ~ToldOfTree'
    <2>1. chan # None /\ chan.lastControl # None => chan.lastControl.cursor \in Cursors
      BY DEF TreeInv, LinkOK, Channel, Directive
    <2> QED  BY <1>1, <1>3, <2>1 DEF TreeInv, ChannelOK, ToldOfTree
  <1>11. ChannelOK'
    <2>1. Listeners' = Listeners
      BY <1>1 DEF Listeners
    <2> QED  BY <1>1, <1>3, <1>10, <2>1 DEF TreeInv, ChannelOK
  <1>12. HearsOfTree'
    <2> SUFFICES ASSUME ready, chan # None, up = None, ~swallowed'
                 PROVE  /\ down'[Len(down')] = Malformed \/ down'[Len(down')].cursor = tree'
                        /\ News'
      BY <1>1 DEF HearsOfTree
    <2>1. serving
      BY DEF TreeInv, LinkOK
    <2>2. PICK f : /\ down' = Append(down, f)
                   /\ f = Malformed \/ f.cursor = tree'
                   /\ f = Malformed => swallowed' = (chan # None /\ chan.gapNotified)
      BY <1>6, <2>1
    <2>3. Len(down') \in 1..Len(down') /\ down'[Len(down')] = f
      BY <1>7, <2>2
    <2>4. f = Malformed => ~chan'.gapNotified
      BY <1>1, <2>2
    <2> QED  BY <2>2, <2>3, <2>4 DEF News, IsNews
  <1> QED  BY <1>4, <1>9, <1>11, <1>12 DEF TreeInv

LEMMA ServerReceivesOK ==
  ASSUME TreeInv, ServerReceives
  PROVE  TreeInv'
  <1>1. /\ UNCHANGED <<tree, ready, dropped, chan, view>> /\ swallowed' = FALSE
        /\ up # None /\ up' = None /\ serving' = (up # Unsubscribe)
    BY DEF ServerReceives
  <1>2. ready /\ tree \in Cursors /\ (chan # None => up = Subscribe(chan.cursor))
    BY <1>1 DEF TreeInv, LinkOK
  <1>3. chan # None => up # Unsubscribe
    <2>1. chan # None => chan.cursor \in Cursors \cup {None}
      BY DEF TreeInv, LinkOK, Channel
    <2> QED  BY <1>2, <2>1, Objects
  <1>4. \/ down' = down /\ (up = Unsubscribe \/ up = Subscribe(tree))
        \/ \E reason \in {"changed", "gap"} :
              down' = Append(down, [reason |-> reason, cursor |-> tree])
    BY DEF ServerReceives
  <1>5. \/ down' = down /\ (up = Unsubscribe \/ up = Subscribe(tree))
        \/ \E f \in Directive : down' = Append(down, f) /\ f.cursor = tree
    <2> SUFFICES ASSUME NEW reason \in {"changed", "gap"},
                        down' = Append(down, [reason |-> reason, cursor |-> tree])
                 PROVE  \E f \in Directive : down' = Append(down, f) /\ f.cursor = tree
      BY <1>4
    <2> DEFINE f == [reason |-> reason, cursor |-> tree]
    <2>1. f \in Directive /\ f.cursor = tree
      BY <1>2 DEF Directive
    <2> QED  BY <2>1
  <1>6. down \in Seq(Directive \cup {Malformed}) /\ \A i \in 1..Len(down) : Past(down[i].cursor, tree)
    BY DEF TreeInv, LinkOK
  <1>7. Past(tree, tree)
    BY <1>2, CoversItself DEF Past
  <1>8. /\ down' \in Seq(Directive \cup {Malformed})
        /\ \A i \in 1..Len(down') : Past(down'[i].cursor, tree)
    BY <1>5, <1>6, <1>7
  <1>9. LinkOK'
    <2>1. chan' # None => serving'
      BY <1>1, <1>3
    <2>2. serving' \in BOOLEAN /\ up' = None
      BY <1>1
    <2> QED  BY <1>1, <1>2, <1>8, <2>1, <2>2 DEF TreeInv, LinkOK
  <1>10. ViewsOK' /\ ChannelOK'
    <2>1. Listeners' = Listeners /\ ToldOfTree' = ToldOfTree
      BY <1>1 DEF Listeners, ToldOfTree
    <2> QED  BY <1>1, <2>1 DEF TreeInv, ViewsOK, ChannelOK
  <1>11. HearsOfTree'
    <2> SUFFICES ASSUME chan # None PROVE HearsOfTree'
      BY <1>1 DEF HearsOfTree
    <2>1. Listeners' = Listeners /\ ToldOfTree' = ToldOfTree
      BY <1>1 DEF Listeners, ToldOfTree
    <2>2. CASE down' = down /\ (up = Unsubscribe \/ up = Subscribe(tree))
      <3>1. chan.cursor = tree
        BY <1>2, <1>3, <2>2, Objects
      <3>2. \A v \in Listeners : ListenerOK(view[v], tree)
        BY <1>2, <3>1, CursorsOK DEF TreeInv, ChannelOK
      <3>3. \A v \in Listeners : Knows(view[v], tree)
        BY <1>2, <3>2, ListenersOK, CurrentKnows
      <3> QED  BY <1>1, <2>1, <3>1, <3>3 DEF HearsOfTree
    <2>3. ASSUME NEW f \in Directive, down' = Append(down, f), f.cursor = tree
          PROVE  HearsOfTree'
      <3>1. Len(down') \in 1..Len(down') /\ down'[Len(down')] = f
        BY <1>6, <2>3
      <3>2. News'
        BY <1>1, <2>3, <3>1, Objects DEF News, IsNews
      <3> QED  BY <1>1, <2>3, <3>1, <3>2 DEF HearsOfTree
    <2> QED  BY <1>5, <2>2, <2>3
  <1> QED  BY <1>9, <1>10, <1>11 DEF TreeInv

\* Every listener is told of a gap.
LEMMA AllToldOK ==
  ASSUME TreeInv, tree' = tree,
         view' = [v \in Views |-> IF v \in Listeners THEN ToldGap(view[v]) ELSE view[v]]
  PROVE  /\ ViewsOK' /\ Listeners' = Listeners
         /\ \A v \in Listeners : Knows(view'[v], tree)
         /\ \A k \in Cursors, v \in Listeners :
               ListenerOK(view[v], k) => ListenerOK(view'[v], k)
  <1>1. tree \in Cursors
    BY DEF TreeInv, LinkOK
  <1>2. ASSUME NEW v \in Listeners
        PROVE  /\ ViewOK(view'[v], tree) /\ view'[v].sub = view[v].sub
               /\ Knows(view'[v], tree)
               /\ \A k \in Cursors : ListenerOK(view[v], k) => ListenerOK(view'[v], k)
    <2>1. PICK w : w = view[v]
      OBVIOUS
    <2>2. v \in Views /\ ViewOK(w, tree) /\ w.active /\ w.sub \in Cursors
      BY <2>1, ListenersOK
    <2>3. view'[v] = ToldGap(w)
      BY <2>1, <2>2
    <2>4. /\ ViewOK(ToldGap(w), tree) /\ ToldGap(w).sub = w.sub /\ Knows(ToldGap(w), tree)
          /\ \A k \in Cursors : ListenerOK(w, k) => ListenerOK(ToldGap(w), k)
      BY <1>1, <2>2, ToldGapOK
    <2> QED  BY <2>1, <2>3, <2>4
  <1>3. \A v \in Views \ Listeners : view'[v] = view[v] /\ ViewOK(view'[v], tree)
    BY DEF TreeInv, ViewsOK
  <1>4. \A v \in Views : ViewOK(view'[v], tree) /\ view'[v].sub = view[v].sub
    BY <1>2, <1>3
  <1>5. view' \in [Views -> View]
    BY <1>4 DEF ViewOK, ViewBase
  <1>6. Listeners' = Listeners
    BY <1>4 DEF Listeners
  <1> QED  BY <1>2, <1>4, <1>5, <1>6 DEF ViewsOK

LEMMA SocketOK ==
  ASSUME TreeInv, BecomeReady \/ Drop
  PROVE  TreeInv'
  <1>1. CASE BecomeReady
    <2>1. /\ ~ready /\ ready' = TRUE /\ dropped' = FALSE
          /\ UNCHANGED <<tree, serving, down, swallowed>>
          /\ ~serving /\ up = None /\ down = <<>>
      BY <1>1 DEF BecomeReady, TreeInv, LinkOK
    <2>2. CASE chan = None
      <3>1. UNCHANGED <<chan, up, view>>
        BY <1>1, <2>2 DEF BecomeReady
      <3>2. LinkOK' /\ HearsOfTree'
        BY <2>1, <2>2, <3>1 DEF TreeInv, LinkOK, HearsOfTree
      <3>3. ViewsOK' /\ ChannelOK'
        <4>1. Listeners' = Listeners
          BY <3>1 DEF Listeners
        <4> QED  BY <2>1, <2>2, <3>1, <4>1 DEF TreeInv, ViewsOK, ChannelOK
      <3> QED  BY <3>2, <3>3 DEF TreeInv
    <2>3. CASE chan # None
      <3>1. /\ up' = Subscribe(chan.cursor)
            /\ chan \in Channel
        BY <1>1, <2>3 DEF BecomeReady, TreeInv, LinkOK
      <3>2. chan.cursor \in Cursors \cup {None} /\ up' # None
        BY <3>1, Objects DEF Channel
      <3>3. HearsOfTree'
        BY <3>2 DEF HearsOfTree
      <3>4. CASE dropped
        <4>1. /\ chan' = [chan EXCEPT !.lastControl = None, !.gapNotified = TRUE]
              /\ view' = [v \in Views |-> IF v \in Listeners THEN ToldGap(view[v])
                                          ELSE view[v]]
          BY <1>1, <2>3, <3>4 DEF BecomeReady
        <4>2. /\ ViewsOK' /\ Listeners' = Listeners
              /\ \A k \in Cursors, v \in Listeners :
                    ListenerOK(view[v], k) => ListenerOK(view'[v], k)
          BY <2>1, <4>1, AllToldOK
        <4>3. /\ chan' \in Channel /\ chan'.cursor = chan.cursor
              /\ chan'.lastControl = None /\ chan' # None
          BY <3>1, <4>1, Objects DEF Channel
        <4>4. LinkOK'
          BY <2>1, <3>1, <3>2, <4>3 DEF TreeInv, LinkOK
        <4>5. ChannelOK'
          <5>1. ~ToldOfTree'
            BY <4>3 DEF ToldOfTree
          <5> QED  BY <2>1, <2>3, <3>2, <4>2, <4>3, <5>1 DEF TreeInv, ChannelOK
        <4> QED  BY <3>3, <4>2, <4>4, <4>5 DEF TreeInv
      <3>5. CASE ~dropped
        <4>1. UNCHANGED <<chan, view>>
          BY <1>1, <2>3, <3>5 DEF BecomeReady
        <4>2. LinkOK'
          BY <2>1, <3>1, <3>2, <4>1 DEF TreeInv, LinkOK
        <4>3. ViewsOK' /\ ChannelOK'
          <5>1. Listeners' = Listeners /\ ToldOfTree' = ToldOfTree
            BY <2>1, <4>1 DEF Listeners, ToldOfTree
          <5> QED  BY <2>1, <4>1, <5>1 DEF TreeInv, ViewsOK, ChannelOK
        <4> QED  BY <3>3, <4>2, <4>3 DEF TreeInv
      <3> QED  BY <3>4, <3>5
    <2> QED  BY <2>2, <2>3
  <1>2. CASE Drop
    <2>1. /\ ready' = FALSE /\ dropped' = TRUE /\ serving' = FALSE /\ up' = None
          /\ down' = <<>> /\ UNCHANGED <<tree, chan, view, swallowed>>
      BY <1>2 DEF Drop
    <2>2. Listeners' = Listeners /\ ToldOfTree' = ToldOfTree
      BY <2>1 DEF Listeners, ToldOfTree
    <2>3. LinkOK' /\ HearsOfTree'
      <3>1. down' \in Seq(Directive \cup {Malformed}) /\ \A i \in 1..Len(down') : FALSE
        BY <2>1
      <3>2. ~ready'
        BY <2>1
      <3>3. chan' = chan /\ tree' = tree /\ ready' \in BOOLEAN /\ dropped' \in BOOLEAN
        BY <2>1
      <3> QED  BY <2>1, <3>1, <3>2, <3>3 DEF TreeInv, LinkOK, HearsOfTree
    <2>4. ViewsOK' /\ ChannelOK'
      BY <2>1, <2>2 DEF TreeInv, ViewsOK, ChannelOK
    <2> QED  BY <2>3, <2>4 DEF TreeInv
  <1> QED  BY <1>1, <1>2

-----------------------------------------------------------------------------
(* Directives arrive.                                                       *)

LEMMA TailOK ==
  ASSUME NEW S, NEW d \in Seq(S), d # <<>>
  PROVE  /\ Tail(d) \in Seq(S) /\ Head(d) = d[1] /\ Head(d) \in S
         /\ \A i \in 1..Len(Tail(d)) : i + 1 \in 1..Len(d) /\ Tail(d)[i] = d[i + 1]
         /\ \A i \in 1..Len(d) : i = 1 \/ (i - 1 \in 1..Len(Tail(d)) /\ d[i] = Tail(d)[i - 1])
         /\ Tail(d) # <<>> => /\ Len(Tail(d)) \in 1..Len(Tail(d))
                              /\ Tail(d)[Len(Tail(d))] = d[Len(d)]
         /\ Tail(d) = <<>> => d[Len(d)] = Head(d)
  <1>1. Len(d) \in Nat \ {0} /\ Head(d) = d[1] /\ Head(d) \in S
    OBVIOUS
  <1>2. /\ Tail(d) \in Seq(S) /\ Len(Tail(d)) = Len(d) - 1
        /\ \A i \in 1..Len(d) - 1 : Tail(d)[i] = d[i + 1]
    OBVIOUS
  <1> DEFINE t == Tail(d)
  <1> HIDE DEF t
  <1>3. /\ t \in Seq(S) /\ Len(t) = Len(d) - 1 /\ \A i \in 1..Len(d) - 1 : t[i] = d[i + 1]
    BY <1>2 DEF t
  <1>4. \A i \in 1..Len(t) : i + 1 \in 1..Len(d) /\ t[i] = d[i + 1]
    BY <1>1, <1>3
  <1>5. ASSUME NEW i \in 1..Len(d), i # 1
        PROVE  i - 1 \in 1..Len(t) /\ d[i] = t[i - 1]
    <2>1. i - 1 \in 1..Len(d) - 1 /\ (i - 1) + 1 = i
      BY <1>1, <1>5
    <2> QED  BY <1>3, <2>1
  <1>6. ASSUME t # <<>>
        PROVE  Len(t) \in 1..Len(t) /\ t[Len(t)] = d[Len(d)]
    <2>1. Len(t) \in 1..Len(d) - 1 /\ Len(t) + 1 = Len(d)
      BY <1>1, <1>3, <1>6
    <2> QED  BY <1>3, <2>1
  <1>7. t = <<>> => d[Len(d)] = Head(d)
    BY <1>1, <1>3
  <1> QED  BY <1>1, <1>3, <1>4, <1>5, <1>6, <1>7 DEF t

\* What every delivery does to the link.
LEMMA ReceivedOK ==
  ASSUME TreeInv, Received, chan' = chan \/ (chan # None /\ chan' # None /\ chan' \in Channel
                                             /\ chan'.cursor = chan.cursor)
  PROVE  /\ LinkOK' /\ ready
         /\ Head(down) \in Directive \cup {Malformed} /\ Past(Head(down).cursor, tree)
         /\ down' # <<>> => down'[Len(down')] = down[Len(down)] /\ Len(down') \in 1..Len(down')
         /\ down' = <<>> => down[Len(down)] = Head(down)
         /\ News => IsNews(Head(down)) \/ \E i \in 1..Len(down') : IsNews(down'[i])
  <1>1. /\ down # <<>> /\ down' = Tail(down) /\ UNCHANGED <<tree, serving, up, ready, dropped, swallowed>>
    BY DEF Received
  <1>2. /\ down \in Seq(Directive \cup {Malformed}) /\ ready
        /\ \A i \in 1..Len(down) : Past(down[i].cursor, tree)
    BY <1>1 DEF TreeInv, LinkOK
  <1>3. /\ Tail(down) \in Seq(Directive \cup {Malformed})
        /\ Head(down) = down[1] /\ Head(down) \in Directive \cup {Malformed}
        /\ \A i \in 1..Len(Tail(down)) : i + 1 \in 1..Len(down) /\ Tail(down)[i] = down[i + 1]
        /\ \A i \in 1..Len(down) :
              i = 1 \/ (i - 1 \in 1..Len(Tail(down)) /\ down[i] = Tail(down)[i - 1])
        /\ Tail(down) # <<>> => /\ Len(Tail(down)) \in 1..Len(Tail(down))
                                /\ Tail(down)[Len(Tail(down))] = down[Len(down)]
        /\ Tail(down) = <<>> => down[Len(down)] = Head(down)
    BY <1>1, <1>2, TailOK
  <1>4. \A i \in 1..Len(down') : Past(down'[i].cursor, tree)
    BY <1>1, <1>2, <1>3
  <1>5. Past(Head(down).cursor, tree)
    BY <1>1, <1>2, <1>3
  <1>6. LinkOK'
    <2>1. down' \in Seq(Directive \cup {Malformed})
      BY <1>1, <1>3
    <2>2. ready'
      BY <1>1, <1>2
    <2> QED  BY <1>1, <1>4, <2>1, <2>2 DEF TreeInv, LinkOK
  <1>7. News => IsNews(Head(down)) \/ \E i \in 1..Len(down') : IsNews(down'[i])
    <2> SUFFICES ASSUME NEW i \in 1..Len(down), IsNews(down[i])
                 PROVE  IsNews(Head(down)) \/ \E j \in 1..Len(down') : IsNews(down'[j])
      BY DEF News
    <2>1. CASE i = 1
      BY <1>3, <2>1
    <2>2. CASE i # 1
      <3>1. i - 1 \in 1..Len(down') /\ down[i] = down'[i - 1]
        BY <1>1, <1>3, <2>2
      <3> QED  BY <3>1
    <2> QED  BY <2>1, <2>2
  <1> QED  BY <1>1, <1>2, <1>3, <1>5, <1>6, <1>7

LEMMA OrphanOK ==
  ASSUME TreeInv, Orphan
  PROVE  TreeInv'
  <1>1. Received /\ chan = None /\ UNCHANGED <<chan, view, tree, swallowed>>
    BY DEF Orphan, Received
  <1>2. LinkOK' /\ HearsOfTree'
    BY <1>1, ReceivedOK DEF HearsOfTree
  <1>3. Listeners' = Listeners
    BY <1>1 DEF Listeners
  <1>4. ViewsOK' /\ ChannelOK'
    BY <1>1, <1>3 DEF TreeInv, ViewsOK, ChannelOK
  <1> QED  BY <1>2, <1>4 DEF TreeInv

LEMMA OnMalformedOK ==
  ASSUME TreeInv, OnMalformed
  PROVE  TreeInv'
  <1>1. Received /\ chan # None /\ Head(down) = Malformed /\ tree' = tree /\ ready' = ready
        /\ up' = up /\ swallowed' = swallowed
    BY DEF OnMalformed, Received
  <1>2. chan \in Channel
    BY <1>1 DEF TreeInv, LinkOK
  <1>3. CASE chan.gapNotified
    <2>1. UNCHANGED <<chan, view>>
      BY <1>3 DEF OnMalformed
    <2>2. /\ LinkOK'
          /\ down' # <<>> => down'[Len(down')] = down[Len(down)] /\ down # <<>>
          /\ News => \E i \in 1..Len(down') : IsNews(down'[i])
      <3>1. ~IsNews(Head(down))
        BY <1>1, <1>3 DEF IsNews
      <3>2. down # <<>>
        BY <1>1 DEF Received
      <3> QED  BY <1>1, <2>1, <3>1, <3>2, ReceivedOK
    <2>3. Listeners' = Listeners /\ ToldOfTree' = ToldOfTree
      BY <1>1, <2>1 DEF Listeners, ToldOfTree
    <2>4. News => News'
      BY <1>1, <2>1, <2>2 DEF News, IsNews
    <2>5. ViewsOK' /\ ChannelOK'
      BY <1>1, <2>1, <2>3 DEF TreeInv, ViewsOK, ChannelOK
    <2>6. HearsOfTree'
      BY <1>1, <1>3, <2>1, <2>2, <2>3, <2>4 DEF TreeInv, HearsOfTree
    <2> QED  BY <2>2, <2>5, <2>6 DEF TreeInv
  <1>4. CASE ~chan.gapNotified
    <2>1. /\ chan' = [chan EXCEPT !.gapNotified = TRUE]
          /\ view' = [v \in Views |-> IF v \in Listeners THEN ToldGap(view[v]) ELSE view[v]]
      BY <1>4 DEF OnMalformed
    <2>2. /\ chan' \in Channel /\ chan'.cursor = chan.cursor /\ chan'.gapNotified = TRUE
          /\ chan'.lastControl = chan.lastControl /\ chan' # None
      BY <1>2, <2>1, Objects DEF Channel
    <2>3. /\ LinkOK'
          /\ down' # <<>> => down'[Len(down')] = down[Len(down)] /\ down # <<>>
      <3>1. down # <<>>
        BY <1>1 DEF Received
      <3> QED  BY <1>1, <2>2, <3>1, ReceivedOK
    <2>4. /\ ViewsOK' /\ Listeners' = Listeners
          /\ \A v \in Listeners : Knows(view'[v], tree)
          /\ \A k \in Cursors, v \in Listeners :
                ListenerOK(view[v], k) => ListenerOK(view'[v], k)
      BY <1>1, <2>1, AllToldOK
    <2>5. chan.cursor \in Cursors \cup {None}
      BY <1>2 DEF Channel
    <2>6. ChannelOK'
      BY <1>1, <2>2, <2>4, <2>5 DEF TreeInv, ChannelOK
    <2>7. HearsOfTree'
      BY <1>1, <2>2, <2>3, <2>4 DEF TreeInv, HearsOfTree
    <2> QED  BY <2>3, <2>4, <2>6, <2>7 DEF TreeInv
  <1> QED  BY <1>3, <1>4

LEMMA OnControlOK ==
  ASSUME TreeInv, OnControl
  PROVE  TreeInv'
  <1> DEFINE f == Head(down)
  <1>1. /\ Received /\ chan # None /\ f # Malformed /\ tree' = tree /\ ready' = ready
        /\ up' = up /\ down # <<>> /\ swallowed' = swallowed
    BY DEF OnControl, Received
  <1>2. chan \in Channel /\ tree \in Cursors /\ chan.cursor \in Cursors \cup {None}
    BY <1>1 DEF TreeInv, LinkOK, Channel
  <1>3. IsNews(f) => f.cursor = tree
    BY <1>1 DEF IsNews
  <1>4. CASE Covers(chan.cursor, f.cursor) \/ chan.lastControl = f
    <2>1. UNCHANGED <<chan, view>>
      BY <1>4 DEF OnControl
    <2>2. /\ LinkOK'
          /\ down' # <<>> => down'[Len(down')] = down[Len(down)]
          /\ News => f.cursor = tree \/ \E i \in 1..Len(down') : IsNews(down'[i])
      BY <1>1, <1>3, <2>1, ReceivedOK
    <2>3. Listeners' = Listeners /\ ToldOfTree' = ToldOfTree
      BY <1>1, <2>1 DEF Listeners, ToldOfTree
    <2>4. News => f.cursor = tree \/ News'
      BY <1>1, <2>1, <2>2 DEF News, IsNews
    <2>5. ViewsOK' /\ ChannelOK'
      BY <1>1, <2>1, <2>3 DEF TreeInv, ViewsOK, ChannelOK
    <2>6. f.cursor = tree =>
             /\ chan.cursor = tree \/ ToldOfTree
             /\ \A v \in Listeners : Knows(view[v], tree)
      <3> SUFFICES ASSUME f.cursor = tree
                   PROVE  /\ chan.cursor = tree \/ ToldOfTree
                          /\ \A v \in Listeners : Knows(view[v], tree)
        OBVIOUS
      <3>1. CASE Covers(chan.cursor, f.cursor)
        <4>1. chan.cursor = tree
          <5>1. Past(chan.cursor, tree)
            BY <1>1 DEF TreeInv, ChannelOK
          <5> QED  BY <1>2, <3>1, <5>1, CoversLatest
        <4>2. \A v \in Listeners : ListenerOK(view[v], tree)
          BY <1>1, <1>2, <4>1, CursorsOK DEF TreeInv, ChannelOK
        <4> QED  BY <1>2, <4>1, <4>2, ListenersOK, CurrentKnows
      <3>2. CASE chan.lastControl = f
        <4>1. f # None
          <5>1. f \in Directive
            BY <1>1, <2>1, ReceivedOK
          <5> QED  BY <5>1, Objects
        <4>2. ToldOfTree
          BY <3>2, <4>1 DEF ToldOfTree
        <4> QED  BY <1>1, <4>2 DEF TreeInv, ChannelOK
      <3> QED  BY <1>4, <3>1, <3>2
    <2>7. HearsOfTree'
      BY <1>1, <2>1, <2>2, <2>3, <2>4, <2>6 DEF TreeInv, HearsOfTree
    <2> QED  BY <2>2, <2>5, <2>7 DEF TreeInv
  <1>5. CASE ~(Covers(chan.cursor, f.cursor) \/ chan.lastControl = f)
    <2>1. /\ chan' = [chan EXCEPT !.lastControl = f, !.gapNotified = FALSE]
          /\ view' = [v \in Views |-> IF v \in Listeners THEN Told(view[v], f) ELSE view[v]]
      BY <1>5 DEF OnControl
    <2>2. f \in Directive /\ Past(f.cursor, tree)
      <3>1. down \in Seq(Directive \cup {Malformed})
            /\ \A i \in 1..Len(down) : Past(down[i].cursor, tree)
        BY DEF TreeInv, LinkOK
      <3>2. f \in Directive \cup {Malformed} /\ f = down[1] /\ 1 \in 1..Len(down)
        BY <1>1, <3>1
      <3> QED  BY <1>1, <3>1, <3>2
    <2> HIDE DEF f
    <2>3. /\ chan' \in Channel /\ chan'.cursor = chan.cursor /\ chan'.gapNotified = FALSE
          /\ chan'.lastControl = f /\ chan' # None /\ f # None
      BY <1>2, <2>1, <2>2, Objects DEF Channel
    <2>4. /\ LinkOK'
          /\ down' # <<>> => down'[Len(down')] = down[Len(down)] /\ Len(down') \in 1..Len(down')
          /\ down' = <<>> => down[Len(down)] = f
      BY <1>1, <2>3, ReceivedOK DEF f
    <2>5. ASSUME NEW v \in Listeners
          PROVE  /\ ViewOK(view'[v], tree) /\ view'[v].sub = view[v].sub
                 /\ view'[v].active
                 /\ Knows(view[v], tree) \/ f.cursor = tree => Knows(view'[v], tree)
                 /\ \A k \in Cursors : ListenerOK(view[v], k) => ListenerOK(view'[v], k)
      <3>1. PICK w : w = view[v]
        OBVIOUS
      <3>2. v \in Views /\ ViewOK(w, tree) /\ w.active /\ w.sub \in Cursors
        BY <3>1, ListenersOK
      <3>3. view'[v] = Told(w, f)
        BY <2>1, <3>1, <3>2
      <3>4. /\ ViewOK(Told(w, f), tree) /\ Told(w, f).sub = w.sub /\ Told(w, f).active
            /\ Knows(w, tree) \/ f.cursor = tree => Knows(Told(w, f), tree)
            /\ \A k \in Cursors : ListenerOK(w, k) => ListenerOK(Told(w, f), k)
        BY <1>2, <2>2, <3>2, ToldOK
      <3> QED  BY <3>1, <3>3, <3>4
    <2>6. \A v \in Views \ Listeners : view'[v] = view[v] /\ ViewOK(view'[v], tree)
      BY <2>1 DEF TreeInv, ViewsOK
    <2>7. \A v \in Views : ViewOK(view'[v], tree) /\ view'[v].sub = view[v].sub
      BY <2>5, <2>6
    <2>8. view' \in [Views -> View]
      <3>1. \A v \in Views : view'[v] \in View
        BY <2>7 DEF ViewOK, ViewBase
      <3> QED  BY <2>1, <3>1
    <2>9. Listeners' = Listeners
      BY <2>7 DEF Listeners
    <2>10. ViewsOK'
      BY <1>1, <2>7, <2>8 DEF ViewsOK
    <2>11. ToldOfTree' <=> f.cursor = tree
      BY <1>1, <2>3 DEF ToldOfTree
    <2>12. ChannelOK'
      BY <1>1, <1>2, <2>2, <2>3, <2>5, <2>9, <2>11 DEF TreeInv, ChannelOK
    <2>13. HearsOfTree'
      <3> SUFFICES ASSUME ready, up = None, ~swallowed
                   PROVE  HearsOfTree'
        BY <1>1 DEF HearsOfTree
      <3>1. \/ chan.cursor = tree
            \/ down[Len(down)] = Malformed \/ down[Len(down)].cursor = tree
        BY <1>1 DEF TreeInv, HearsOfTree
      <3>2. chan.cursor = tree \/ f.cursor = tree \/ News'
        <4>1. CASE down' = <<>>
          BY <1>1, <2>4, <3>1, <4>1
        <4>2. CASE down' # <<>>
          BY <1>1, <2>3, <2>4, <3>1, <4>2 DEF News, IsNews
        <4> QED  BY <4>1, <4>2
      <3>3. chan.cursor = tree => \A v \in Listeners : Knows(view'[v], tree)
        <4> SUFFICES ASSUME chan.cursor = tree, NEW v \in Listeners
                     PROVE  Knows(view'[v], tree)
          OBVIOUS
        <4>1. ListenerOK(view[v], tree)
          BY <1>1, <1>2, CursorsOK DEF TreeInv, ChannelOK
        <4>2. ListenerOK(view'[v], tree) /\ ViewOK(view'[v], tree) /\ view'[v].active
          BY <1>2, <2>5, <4>1
        <4> QED  BY <1>2, <4>2, CurrentKnows
      <3>4. News' \/ \A v \in Listeners' : Knows(view'[v], tree)
        BY <2>5, <2>9, <3>2, <3>3
      <3> QED  BY <1>1, <2>3, <2>4, <2>11, <3>1, <3>2, <3>4 DEF HearsOfTree
    <2> QED  BY <2>4, <2>10, <2>12, <2>13 DEF TreeInv
  <1> QED  BY <1>4, <1>5

-----------------------------------------------------------------------------
(* What a step may do to a view.                                            *)

MayBecome(w, x) ==
    /\ w.snap # None /\ x.snap # None => Covers(x.snap, w.snap)
    /\ w.gap = "transport" /\ x.gap = "no" /\ x.active => Covers(x.snap, w.required)

LEMMA KeepsOK ==
  ASSUME NEW w \in View, NEW x, x.snap \in {w.snap, None}, x.gap # "no" \/ x.gap = w.gap
  PROVE  MayBecome(w, x)
  <1>1. w.snap # None => Covers(w.snap, w.snap)
    BY CoversItself DEF View
  <1> QED  BY <1>1 DEF MayBecome

LEMMA ReadsMayBecome ==
  ASSUME TreeInv, NEW v \in Views, Hook(v), ~Resubscribe(v)
  PROVE  \E r : view' = [view EXCEPT ![v] = r] /\ MayBecome(view[v], r)
  <1>a. PICK w : w = view[v]
    OBVIOUS
  <1>1. tree \in Cursors /\ ViewOK(w, tree) /\ w \in View
    BY <1>a DEF TreeInv, LinkOK, ViewsOK
  <1>2. ViewBase(w, tree)
    BY <1>1 DEF ViewOK
  <1>3. CASE Open(v)
    <2>1. view' = [view EXCEPT ![v] = StartRead([Closed EXCEPT !.active = TRUE])] /\ w = Closed
      BY <1>1, <1>3, <1>a DEF Open, Set, ViewOK
    <2>2. w.snap = None /\ w.gap = "no"
      BY <2>1 DEF Closed
    <2>3. MayBecome(w, StartRead([Closed EXCEPT !.active = TRUE]))
      BY <2>2 DEF MayBecome
    <2> QED  BY <1>a, <2>1, <2>3
  <1>4. CASE Close(v)
    <2>1. view' = [view EXCEPT ![v] = Closed]
      <3>1. view \in [Views -> View]
        BY DEF TreeInv, ViewsOK
      <3> QED  BY <1>4, <3>1 DEF Close, Become, Leaving
    <2>2. Closed.snap = None /\ ~Closed.active
      BY DEF Closed
    <2> QED  BY <1>a, <2>1, <2>2 DEF MayBecome
  <1>5. CASE Refresh(v)
    <2>1. view' = [view EXCEPT ![v] = StartRead(w)] /\ w.active
      BY <1>5, <1>a DEF Refresh, Set
    <2>2. StartRead(w).snap = w.snap /\ StartRead(w).gap = w.gap
      BY <1>2, <2>1, StartReadOK
    <2>3. MayBecome(w, StartRead(w))
      BY <1>1, <2>2, KeepsOK
    <2> QED  BY <1>a, <2>1, <2>3
  <1>6. CASE RetryFires(v)
    <2> DEFINE o == [w EXCEPT !.timer = FALSE]
    <2>1. view' = [view EXCEPT ![v] = Ask(o)] /\ w.timer
      BY <1>6, <1>a DEF RetryFires, Set
    <2>2. w.active
      BY <1>1, <2>1 DEF ViewOK, Closed
    <2>3. /\ o \in View /\ o.active /\ o.snap = w.snap /\ o.sub = w.sub /\ o.req = w.req
          /\ o.required = w.required /\ o.trailing = w.trailing /\ o.error = w.error
          /\ o.gap = w.gap
      BY <1>1, <2>2 DEF View
    <2> HIDE DEF o
    <2>4. ViewBase(o, tree)
      BY <1>2, <2>3 DEF ViewBase
    <2>5. Ask(o).snap = w.snap /\ Ask(o).gap = w.gap
      BY <2>3, <2>4, AskOK
    <2>6. MayBecome(w, Ask(o))
      BY <1>1, <2>5, KeepsOK
    <2> QED  BY <1>a, <2>1, <2>6
  <1>7. CASE ServerReads(v)
    <2> DEFINE r == [w EXCEPT !.req = tree]
    <2>1. view' = [view EXCEPT ![v] = r] /\ w.req = Unread
      BY <1>7, <1>a DEF ServerReads, Set
    <2>2. r.snap = w.snap /\ r.gap = w.gap
      BY <1>1 DEF View
    <2> HIDE DEF r
    <2>3. MayBecome(w, r)
      BY <1>1, <2>2, KeepsOK
    <2> QED  BY <1>a, <2>1, <2>3
  <1>8. CASE ReadSucceeds(v)
    <2> DEFINE r == Finished(Answered(w))
    <2>1. view' = [view EXCEPT ![v] = r] /\ w.req \in Cursors
      BY <1>8, <1>a DEF ReadSucceeds, Set, Answered
    <2>2. /\ w.snap # None => r.snap = w.snap \/ (r.snap = w.req /\ Covers(w.req, w.snap))
          /\ w.gap = "transport" /\ r.gap = "no" => r.snap = w.req /\ Covers(w.req, w.required)
      BY <1>1, <2>1, ReadSucceedsOK
    <2> HIDE DEF r
    <2>3. w.snap # None => Covers(w.snap, w.snap)
      BY <1>1, CoversItself DEF View
    <2>4. MayBecome(w, r)
      BY <2>2, <2>3 DEF MayBecome
    <2> QED  BY <1>a, <2>1, <2>4
  <1>9. CASE ReadFails(v)
    <2>1. PICK kind \in {"retryable", "conflict", "fatal"} :
             view' = [view EXCEPT ![v] = Finished(Failed(w, kind))] /\ w.req = Unread
      BY <1>9, <1>a DEF ReadFails, Set
    <2> DEFINE r == Finished(Failed(w, kind))
    <2>2. r.snap \in {w.snap, None} /\ (r.gap # "no" \/ r.gap = w.gap)
      BY <1>1, <2>1, ReadFailsOK
    <2>3. view' = [view EXCEPT ![v] = r]
      BY <2>1
    <2> HIDE DEF r
    <2>4. MayBecome(w, r)
      BY <1>1, <2>2, KeepsOK
    <2> QED  BY <1>a, <2>3, <2>4
  <1> QED  BY <1>3, <1>4, <1>5, <1>6, <1>7, <1>8, <1>9 DEF Hook

\* A directive leaves the tree on show and takes no warning of a gap back.
Spared(w, x) == x.snap = w.snap /\ (x.gap # "no" \/ x.gap = w.gap)

LEMMA RequireSpares ==
  ASSUME NEW w \in View, NEW cursor, NEW gap \in BOOLEAN
  PROVE  Spared(w, Require(w, cursor, gap))
  <1> DEFINE m == Merged(w.required, cursor)
             noted == [w EXCEPT !.required = Merged(@, cursor),
                                !.gap = IF gap THEN "transport" ELSE @]
             r == Require(w, cursor, gap)
  <1>1. r = w \/ r = noted \/ r = Ask(noted)
    BY DEF Require
  <1>2. Spared(w, w)
    BY DEF Spared
  <1> HIDE DEF r
  <1>3. /\ noted.snap = w.snap /\ noted.gap = IF gap THEN "transport" ELSE w.gap
        /\ DOMAIN noted = DOMAIN w
    BY DEF View
  <1> HIDE DEF noted
  <1>4. DOMAIN w = {"active", "snap", "sub", "req", "trailing", "timer", "required", "gap",
                    "error"}
    BY DEF View
  <1>5. Ask(noted).snap = noted.snap /\ Ask(noted).gap = noted.gap
    BY <1>3, <1>4 DEF Ask, StartRead
  <1>6. Spared(w, noted) /\ Spared(w, Ask(noted))
    BY <1>3, <1>5 DEF Spared
  <1> QED  BY <1>1, <1>2, <1>6 DEF r

LEMMA ResubscribeSpares ==
  ASSUME TreeInv, NEW v \in Views, Resubscribe(v), NEW u \in Views
  PROVE  Spared(view[u], view'[u])
  <1> DEFINE w == view[v]
             c == w.snap
             s == Left(v)
             mine == [w EXCEPT !.sub = c]
             greeted == IF s.chan.gapNotified THEN ToldGap(mine)
                        ELSE IF s.chan.lastControl # None THEN Told(mine, s.chan.lastControl)
                        ELSE mine
             others == [x \in Views |-> IF x = v THEN mine
                                        ELSE IF s.views[x].sub # None
                                        THEN Require(s.views[x], c, FALSE) ELSE s.views[x]]
  <1>1. view \in [Views -> View] /\ w \in View
    BY DEF TreeInv, ViewsOK
  <1>2. s.views = [view EXCEPT ![v].sub = None]
    BY LeftOK
  <1>3. /\ s.views = [view EXCEPT ![v] = [w EXCEPT !.sub = None]]
        /\ mine = [s.views[v] EXCEPT !.sub = c]
    BY <1>1, <1>2 DEF View
  <1>4. view' = (IF c = None THEN s ELSE Joining(v, s)).views
    BY DEF Resubscribe, Become, Left
  <1>5. \/ view' = s.views \/ view' = others
        \/ \E me \in {mine, ToldGap(mine), greeted} : view' = [s.views EXCEPT ![v] = me]
    <2>1. CASE c = None
      BY <1>4, <2>1
    <2>2. CASE c # None
      BY <1>3, <1>4, <2>2 DEF Joining
    <2> QED  BY <2>1, <2>2
  <1>6. mine \in View /\ Spared(w, mine) /\ Spared(w, [w EXCEPT !.sub = None])
    BY <1>1 DEF View, Spared
  <1> HIDE DEF w, s, mine
  <1>7. \A me \in {mine, ToldGap(mine), greeted} : Spared(w, me)
    <2>1. ASSUME NEW cursor, NEW gap \in BOOLEAN
          PROVE  Spared(w, Require(mine, cursor, gap))
      BY <1>6, RequireSpares DEF Spared
    <2>2. Spared(w, ToldGap(mine))
      <3>1. ToldGap(mine) = Require(mine, mine.snap, TRUE)
        BY DEF ToldGap
      <3> QED  BY <2>1, <3>1
    <2>3. \A f : Spared(w, Told(mine, f))
      <3> TAKE f
      <3>1. Told(mine, f) = Require(mine, f.cursor, f.reason = "gap")
        BY DEF Told
      <3>2. (f.reason = "gap") \in BOOLEAN
        OBVIOUS
      <3> QED  BY <2>1, <3>1, <3>2
    <2> QED  BY <1>6, <2>2, <2>3
  <1>8. CASE u = v
    <2>1. view'[v] \in {mine, ToldGap(mine), greeted, [w EXCEPT !.sub = None]}
      BY <1>1, <1>3, <1>5
    <2> QED  BY <1>6, <1>7, <1>8, <2>1 DEF w
  <1>9. CASE u # v
    <2>1. s.views[u] = view[u] /\ view[u] \in View
      BY <1>1, <1>3, <1>9
    <2>2. view'[u] = view[u] \/ view'[u] = Require(view[u], c, FALSE)
      BY <1>1, <1>3, <1>5, <1>9, <2>1
    <2>3. Spared(view[u], view[u])
      BY DEF Spared
    <2> QED  BY <2>1, <2>2, <2>3, RequireSpares
  <1> QED  BY <1>8, <1>9

LEMMA LinkSpares ==
  ASSUME TreeInv, NEW u \in Views,
         Advance \/ ServerReceives \/ BecomeReady \/ Drop \/ Deliver
  PROVE  Spared(view[u], view'[u])
  <1>1. view[u] \in View /\ Spared(view[u], view[u])
    BY DEF TreeInv, ViewsOK, Spared
  <1>2. Spared(view[u], ToldGap(view[u]))
    <2>1. ToldGap(view[u]) = Require(view[u], view[u].snap, TRUE)
      BY DEF ToldGap
    <2> QED  BY <1>1, <2>1, RequireSpares
  <1>3. \A f : Spared(view[u], Told(view[u], f))
    <2> TAKE f
    <2>1. Told(view[u], f) = Require(view[u], f.cursor, f.reason = "gap")
      BY DEF Told
    <2>2. (f.reason = "gap") \in BOOLEAN
      OBVIOUS
    <2> QED  BY <1>1, <2>1, <2>2, RequireSpares
  <1>4. CASE Advance \/ ServerReceives \/ Drop \/ Orphan
    BY <1>1, <1>4 DEF Advance, ServerReceives, Drop, Orphan
  <1>5. CASE BecomeReady \/ OnMalformed
    BY <1>1, <1>2, <1>5 DEF BecomeReady, OnMalformed
  <1>6. CASE OnControl
    BY <1>1, <1>3, <1>6 DEF OnControl
  <1> QED  BY <1>4, <1>5, <1>6 DEF Deliver

LEMMA StepsMayBecome ==
  ASSUME TreeInv, Next, NEW u \in Views
  PROVE  MayBecome(view[u], view'[u])
  <1>1. view \in [Views -> View] /\ view[u] \in View
    BY DEF TreeInv, ViewsOK
  <1>2. Spared(view[u], view'[u]) => MayBecome(view[u], view'[u])
    BY <1>1, KeepsOK DEF Spared
  <1>3. ASSUME NEW v \in Views, Hook(v), ~Resubscribe(v)
        PROVE  MayBecome(view[u], view'[u])
    <2>1. PICK r : view' = [view EXCEPT ![v] = r] /\ MayBecome(view[v], r)
      BY <1>3, ReadsMayBecome
    <2>2. view'[u] = IF u = v THEN r ELSE view[u]
      BY <1>1, <2>1
    <2>3. Spared(view[u], view[u])
      BY DEF Spared
    <2> QED  BY <1>2, <2>1, <2>2, <2>3
  <1>4. ASSUME NEW v \in Views, Resubscribe(v)
        PROVE  MayBecome(view[u], view'[u])
    BY <1>2, <1>4, ResubscribeSpares
  <1>5. CASE Advance \/ ServerReceives \/ BecomeReady \/ Drop \/ Deliver
    BY <1>2, <1>5, LinkSpares
  <1> QED  BY <1>3, <1>4, <1>5 DEF Next

-----------------------------------------------------------------------------
(* The theorems.                                                            *)

LEMMA InitOK ==
  ASSUME Init
  PROVE  TreeInv
  <1>1. /\ tree = <<1, 1>> /\ serving = FALSE /\ up = None /\ down = <<>>
        /\ ready = FALSE /\ dropped = FALSE /\ chan = None /\ swallowed = FALSE
        /\ view = [v \in Views |-> Closed]
    BY DEF Init
  <1>2. \A v \in Views : view[v] = Closed /\ ViewOK(view[v], tree) /\ view[v].sub = None
    BY <1>1, ClosedOK
  <1>3. ViewsOK
    <2>1. Closed \in View
      BY DEF Closed, View
    <2> QED  BY <1>1, <1>2, <2>1 DEF ViewsOK
  <1>4. Listeners = {}
    BY <1>2 DEF Listeners
  <1>5. LinkOK
    <2>1. tree \in Cursors
      BY <1>1, TreeAssumption DEF Cursors
    <2>2. down \in Seq(Directive \cup {Malformed}) /\ \A i \in 1..Len(down) : FALSE
      BY <1>1
    <2>3. /\ serving \in BOOLEAN /\ ready \in BOOLEAN /\ dropped \in BOOLEAN /\ ~ready
          /\ swallowed \in BOOLEAN
      BY <1>1
    <2> QED  BY <1>1, <2>1, <2>2, <2>3 DEF LinkOK
  <1>6. ChannelOK /\ HearsOfTree
    BY <1>1, <1>4 DEF ChannelOK, HearsOfTree
  <1> QED  BY <1>3, <1>5, <1>6 DEF TreeInv

LEMMA StutterOK ==
  ASSUME TreeInv, UNCHANGED vars
  PROVE  TreeInv'
  <1>1. UNCHANGED <<tree, serving, up, down, ready, dropped, chan, view, swallowed>>
    BY DEF vars, link
  <1>2. Listeners' = Listeners /\ ToldOfTree' = ToldOfTree /\ News' = News
    BY <1>1 DEF Listeners, ToldOfTree, News, IsNews
  <1>3. LinkOK' /\ ViewsOK' /\ ChannelOK' /\ HearsOfTree'
    BY <1>1, <1>2 DEF TreeInv, LinkOK, ViewsOK, ChannelOK, HearsOfTree
  <1> QED  BY <1>3 DEF TreeInv

LEMMA StepOK ==
  ASSUME TreeInv, [Next]_vars
  PROVE  TreeInv'
  <1>1. ASSUME NEW v \in Views, Hook(v) PROVE TreeInv'
    BY <1>1, HookReadsOK, CloseOK, ResubscribeOK DEF Hook
  <1>2. CASE Deliver
    BY <1>2, OrphanOK, OnMalformedOK, OnControlOK DEF Deliver
  <1> QED  BY <1>1, <1>2, AdvanceOK, ServerReceivesOK, SocketOK, StutterOK DEF Next

LEMMA Inductive == Spec => []TreeInv
  <1> QED  BY InitOK, StepOK, PTL DEF Spec

\* Cursors, directives, the channel and the views have their types, and a read is
\* owed after the flight only while there is one (v2Stream.ts, useActorSnapshot.ts).
THEOREM TypesAlways == Spec => []TypeOK
  <1>1. TreeInv => TypeOK
    BY DEF TreeInv, LinkOK, ViewsOK, ViewOK, ViewBase, TypeOK
  <1> QED  BY <1>1, Inductive, PTL

LEMMA LawOK ==
  ASSUME TreeInv
  PROVE  ViewLaw
  <1>1. /\ tree \in Cursors /\ view \in [Views -> View]
        /\ \A v \in Views : ViewOK(view[v], tree) /\ ViewBase(view[v], tree)
    BY DEF TreeInv, LinkOK, ViewsOK, ViewOK
  <1>2. FreshOrWarned
    <2> SUFFICES ASSUME NEW v \in Views, AtRest(v), ~swallowed
                 PROVE  view[v].snap = tree \/ Warned(v)
      BY DEF FreshOrWarned
    <2>1. CASE view[v].snap = None
      BY <1>1, <2>1 DEF AtRest, ViewOK, Warned
    <2>2. CASE view[v].snap # None
      <3>1. v \in Listeners
        BY <2>2 DEF AtRest, Listeners
      <3>2. ready /\ up = None /\ chan # None /\ down = <<>>
        BY <3>1 DEF AtRest, TreeInv, ChannelOK
      <3>3. ~News
        BY <3>2 DEF News
      <3>4. Knows(view[v], tree)
        BY <3>1, <3>2, <3>3 DEF TreeInv, HearsOfTree
      <3>5. view[v].req = None /\ ~view[v].trailing
        BY <1>1 DEF AtRest, ViewBase
      <3> QED  BY <1>1, <3>4, <3>5, CursorsOK DEF Knows, Flagged, Warned
    <2> QED  BY <2>1, <2>2
  <1>3. BehindKnowsIt
    <2> SUFFICES ASSUME chan # None, chan.cursor # None, NEW v \in Listeners,
                        view[v].sub = view[v].snap
                 PROVE  \/ Covers(view[v].snap, chan.cursor)
                        \/ view[v].required # Undefined
                        \/ view[v].req # None \/ Warned(v)
      BY DEF BehindKnowsIt
    <2>1. chan.cursor \in Cursors /\ ListenerOK(view[v], chan.cursor)
      BY DEF TreeInv, LinkOK, Channel, ChannelOK
    <2>2. view[v].sub \in Cursors
      BY ListenersOK
    <2>3. Bound(view[v], chan.cursor) => view[v].required # Undefined
      BY CursorsOK, CoversOK DEF Bound
    <2>4. ~(view[v].sub[1] <= chan.cursor[1] /\ view[v].snap[1] > chan.cursor[1])
      BY <2>1, <2>2, CursorsOK
    <2> QED  BY <2>1, <2>3, <2>4 DEF ListenerOK, Flagged, Warned
  <1>4. NothingOwedAtRest
    <2> SUFFICES ASSUME NEW v \in Views, AtRest(v), Covers(tree, view[v].required),
                        view[v].snap # None
                 PROVE  view[v].gap = "regression"
      BY DEF NothingOwedAtRest
    <2> QED  BY <1>1 DEF AtRest, ViewOK
  <1> QED  BY <1>2, <1>3, <1>4 DEF ViewLaw

\* At rest every view shows the server's tree or says that it may not, a listener
\* behind the shared cursor knows it, and no read that could repair a gap was given
\* up (v2Stream.ts:1121-1125, 1535-1542; useActorSnapshot.ts:101-116, 208-226).
THEOREM ViewLawAlways == Spec => []ViewLaw
  <1> QED  BY LawOK, Inductive, PTL

\* A tree on show is never replaced by one that does not cover it
\* (useActorSnapshot.ts:82-87).
THEOREM NeverBackAlways == Spec => NeverBack
  <1> DEFINE Forward == \A v \in Views : view[v].snap # None /\ view'[v].snap # None
                                             => Covers(view'[v].snap, view[v].snap)
  <1>1. TreeInv /\ [Next]_vars => [Forward]_vars
    BY StepsMayBecome DEF MayBecome
  <1> QED  BY <1>1, Inductive, PTL DEF Spec, NeverBack

\* A transport gap ends only with a snapshot that covers what was required
\* (useActorSnapshot.ts:17, 90-93).
THEOREM GapEndsWithProofAlways == Spec => GapEndsWithProof
  <1> DEFINE Proven == \A v \in Views :
                          view[v].gap = "transport" /\ view'[v].gap = "no" /\ view'[v].active
                             => Covers(view'[v].snap, view[v].required)
  <1>1. TreeInv /\ [Next]_vars => [Proven]_vars
    BY StepsMayBecome DEF MayBecome
  <1> QED  BY <1>1, Inductive, PTL DEF Spec, GapEndsWithProof
=============================================================================
