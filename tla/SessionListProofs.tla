------------------------- MODULE SessionListProofs -------------------------
(***************************************************************************)
(* SessionList, for any sessions, changes and calls: its types, and that   *)
(* the list stays a forest, and drops no child that it goes on showing.    *)
(*                                                                         *)
(* What makes this more than a fact about one answer is that answers are   *)
(* late: a read, loadChats, a worker and a deletion each apply what was    *)
(* true when they were answered.  ListInv holds on to one thing, that a    *)
(* deleted session does not come back (`gone`): everything that any of     *)
(* them brings was on the server once (KnownOK), so that a root which an   *)
(* answer lacks is gone for good, and no later answer can list it again.   *)
(***************************************************************************)
EXTENDS SessionList, FiniteSetTheorems, TLAPS

Known == index \cup gone

Reads == [st : {"none", "asked", "answered"}, snap : SUBSET Sessions]
Trees == [st : {"none", "asked", "answered"}, snap : SUBSET Sessions,
          again : BOOLEAN, moved : BOOLEAN]

ServerOK ==
  /\ index \subseteq Sessions /\ gone \subseteq Sessions \ index
  /\ version \in Nat /\ heard \in Nat /\ heard <= version

TimersOK ==
  /\ debounce \in BOOLEAN /\ timer \in BOOLEAN /\ trailing \in BOOLEAN
  /\ effect \in BOOLEAN
  /\ trailing => timer

RequestsOK ==
  /\ boot \in Reads /\ read \in Reads
  /\ read.st # "answered" => read.snap = {}
  /\ forced \in {"none", "waiting", "reading"}
  /\ forced # "none" => read.st # "none"
  /\ indexCall \in {"none", "read", "trailing", "forced"}
  /\ deletion \in [st : {"none", "asked", "answered"}, s : Sessions \cup {None}]
  /\ tree \in [Roots -> Trees]
  /\ \A r \in Roots : tree[r].snap \subseteq KidsOf(r)

RowsOK ==
  /\ chats \subseteq Sessions
  /\ count \in [Roots -> 0..Cardinality(Kids)]
  /\ current \in Sessions \cup {None} /\ seen \in BOOLEAN
  /\ \A k \in chats \cap Kids : RootOf[k] \in chats

\* What the page lists, or will list by an answer it waits for, was on the
\* server once.
KnownOK == (chats \cap Roots) \cup read.snap \cup boot.snap \subseteq Known

\* A listed root that the answer in hand lacks is gone from the server, unless
\* loadChats listed it after the answer.
AnswerOK ==
  read.st = "answered" /\ ~crossed => (chats \cap Roots) \ read.snap \subseteq gone

\* The root of a selected child that was listed and is not any more is neither
\* listed, nor in the answer in hand, nor on the server.
SelectionOK ==
  current \in Kids \ chats /\ seen /\ ~crossed =>
    RootOf[current] \in gone \ (chats \cup read.snap)

ListInv ==
  /\ ServerOK /\ TimersOK /\ RequestsOK /\ RowsOK
  /\ KnownOK /\ AnswerOK /\ SelectionOK
-----------------------------------------------------------------------------
(* Records and counts.                                                      *)

LEMMA ReadShapes ==
  /\ NoRead \in Reads /\ NoRead.st = "none" /\ NoRead.snap = {}
  /\ Asked \in Reads /\ Asked.st = "asked" /\ Asked.snap = {}
  /\ NoTree \in Trees /\ NoTree.snap = {}
  /\ index \subseteq Sessions =>
       Answer \in Reads /\ Answer.st = "answered" /\ Answer.snap = index
  BY DEF NoRead, Asked, Answer, NoTree, Reads, Trees

LEMMA CountsOK ==
  ASSUME NEW snap
  PROVE  CountIn(snap) \in [Roots -> 0..Cardinality(Kids)]
  <1>1. ASSUME NEW r \in Roots
        PROVE  Cardinality(KidsOf(r) \cap snap) \in 0..Cardinality(Kids)
    <2>1. KidsOf(r) \cap snap \subseteq Kids
      BY DEF KidsOf
    <2>2. /\ Cardinality(KidsOf(r) \cap snap) \in Nat /\ Cardinality(Kids) \in Nat
          /\ Cardinality(KidsOf(r) \cap snap) <= Cardinality(Kids)
      BY <2>1, SessionsAssumption, FS_Subset, FS_CardinalityType
    <2> QED  BY <2>2
  <1>2. Cardinality(Kids) \in Nat
    BY SessionsAssumption, FS_CardinalityType
  <1> QED  BY <1>1, <1>2 DEF CountIn

LEMMA Families ==
  /\ \A k \in Kids : RootOf[k] \in Roots /\ k \notin Roots
  /\ \A r \in Roots : KidsOf(r) \subseteq Kids /\ r \notin Kids
  BY RootOfAssumption, SessionsAssumption DEF KidsOf

-----------------------------------------------------------------------------
(* What changes on the server, and what that leaves true of the page.       *)

LEMMA ServerMoves ==
  ASSUME ServerOK, NEW s \in Sessions, Created(s) \/ Deleted(s)
  PROVE  /\ index' \subseteq Sessions /\ gone' \subseteq Sessions \ index'
         /\ gone \subseteq gone' /\ Known \subseteq Known'
  <1>1. CASE Created(s)
    BY <1>1 DEF Created, ServerOK, Known
  <1>2. CASE Deleted(s)
    <2> DEFINE out == {s} \cup IF s \in Roots THEN KidsOf(s) \cap index ELSE {}
    <2>1. index' = index \ out /\ gone' = gone \cup out /\ s \in index
      BY <1>2 DEF Deleted
    <2>2. out \subseteq index
      BY <2>1
    <2> HIDE DEF out
    <2> QED  BY <2>1, <2>2 DEF ServerOK, Known
  <1> QED  BY <1>1, <1>2

\* Answers in hand may be dropped, and the server may move on: the list is as
\* good as it was.
LEMMA ListKept ==
  ASSUME ListInv, UNCHANGED list, gone \subseteq gone', Known \subseteq Known',
         read'.snap \subseteq read.snap, boot'.snap \subseteq boot.snap,
         read'.st = "answered" => read' = read
  PROVE  RowsOK' /\ KnownOK' /\ AnswerOK' /\ SelectionOK'
  <1>1. UNCHANGED <<chats, count, crossed, current, seen>>
    BY DEF list
  <1>2. RowsOK'
    BY <1>1 DEF ListInv, RowsOK
  <1>3. KnownOK'
    BY <1>1 DEF ListInv, KnownOK
  <1>4. AnswerOK'
    BY <1>1 DEF ListInv, AnswerOK
  <1>5. SelectionOK'
    BY <1>1 DEF ListInv, SelectionOK
  <1> QED  BY <1>2, <1>3, <1>4, <1>5

-----------------------------------------------------------------------------
(* Coalescing.                                                              *)

LEMMA ExecuteOK ==
  ASSUME RequestsOK, executeRefreshChats
  PROVE  /\ read' \in Reads /\ read'.st # "none" /\ read'.snap \subseteq read.snap
         /\ read'.st = "answered" => read' = read
         /\ read'.st # "answered" => read'.snap = {}
  BY ReadShapes DEF RequestsOK, executeRefreshChats

LEMMA refreshChatsOK ==
  ASSUME RequestsOK, TimersOK, NEW promise, refreshChats(promise)
  PROVE  /\ read' \in Reads /\ read'.snap \subseteq read.snap
         /\ read'.st = "answered" => read' = read
         /\ read'.st # "answered" => read'.snap = {}
         /\ read.st # "none" => read'.st # "none"
         /\ timer' \in BOOLEAN /\ trailing' \in BOOLEAN /\ (trailing' => timer')
         /\ promise \in {"read", "trailing"}
  <1>1. CASE read.st # "none" /\ promise = "read" /\ UNCHANGED <<read, throttle>>
    BY <1>1 DEF RequestsOK, TimersOK, throttle
  <1>2. CASE promise = "trailing" /\ trailing' = TRUE /\ timer /\ UNCHANGED <<read, timer>>
    BY <1>2 DEF RequestsOK, TimersOK
  <1>3. CASE promise = "read" /\ timer' = TRUE /\ executeRefreshChats /\ UNCHANGED trailing
    BY <1>3, ExecuteOK DEF TimersOK
  <1> QED  BY <1>1, <1>2, <1>3 DEF refreshChats

LEMMA refreshChatsNowOK ==
  ASSUME RequestsOK, refreshChatsNow
  PROVE  /\ read' \in Reads /\ read'.snap \subseteq read.snap
         /\ read'.st = "answered" => read' = read
         /\ read'.st # "answered" => read'.snap = {}
         /\ timer' = FALSE /\ trailing' = FALSE
         /\ forced' \in {"none", "waiting", "reading"}
         /\ forced' # "none" => read'.st # "none"
         /\ indexCall' \in {"none", "read", "trailing", "forced"}
  BY ExecuteOK DEF RequestsOK, refreshChatsNow

LEMMA refreshSessionsIndexOK ==
  ASSUME RequestsOK, TimersOK, refreshSessionsIndex
  PROVE  /\ read' \in Reads /\ read'.snap \subseteq read.snap
         /\ read'.st = "answered" => read' = read
         /\ read'.st # "answered" => read'.snap = {}
         /\ read.st # "none" => read'.st # "none"
         /\ timer' \in BOOLEAN /\ trailing' \in BOOLEAN /\ (trailing' => timer')
         /\ indexCall' \in {"none", "read", "trailing", "forced"}
  <1>1. CASE UNCHANGED <<read, throttle, indexCall>>
    BY <1>1 DEF RequestsOK, TimersOK, throttle
  <1>2. ASSUME NEW promise \in {"read", "trailing"},
               refreshChats(promise), indexCall' = promise
        PROVE  /\ read' \in Reads /\ read'.snap \subseteq read.snap
               /\ read'.st = "answered" => read' = read
               /\ read'.st # "answered" => read'.snap = {}
               /\ read.st # "none" => read'.st # "none"
               /\ timer' \in BOOLEAN /\ trailing' \in BOOLEAN /\ (trailing' => timer')
               /\ indexCall' \in {"none", "read", "trailing", "forced"}
    BY <1>2, refreshChatsOK
  <1> QED  BY <1>1, <1>2 DEF refreshSessionsIndex

LEMMA SettleOK ==
  ASSUME RequestsOK, NEW ok \in BOOLEAN, SettleRead(ok)
  PROVE  /\ read' \in Reads /\ read'.snap = {} /\ read'.st # "answered"
         /\ forced' \in {"none", "waiting", "reading"}
         /\ forced' # "none" => read'.st # "none"
         /\ indexCall' \in {"none", "read", "trailing", "forced"}
  BY ReadShapes DEF RequestsOK, SettleRead

-----------------------------------------------------------------------------
(* The handlers that only ask, or give up.                                  *)

LEMMA AsksOK ==
  ASSUME ListInv,
         \/ ThrottleFires \/ ChangeHeard \/ DebounceFires \/ Poll
         \/ RefreshesNow \/ FeedReset
  PROVE  ListInv'
  <1>1. /\ UNCHANGED <<server, list, boot, effect, tree, deletion>>
        /\ gone' = gone /\ Known' = Known /\ boot'.snap = boot.snap
    BY DEF ThrottleFires, ChangeHeard, DebounceFires, Poll, RefreshesNow,
           FeedReset, server, Known
  <1>2. ServerOK'
    BY <1>1 DEF ListInv, ServerOK, server, ThrottleFires, ChangeHeard, DebounceFires,
                Poll, RefreshesNow, FeedReset
  <1>3. /\ read' \in Reads /\ read'.snap \subseteq read.snap
        /\ read'.st = "answered" => read' = read
        /\ read'.st # "answered" => read'.snap = {}
        /\ timer' \in BOOLEAN /\ trailing' \in BOOLEAN /\ (trailing' => timer')
        /\ forced' \in {"none", "waiting", "reading"}
        /\ forced' # "none" => read'.st # "none"
        /\ indexCall' \in {"none", "read", "trailing", "forced"}
        /\ debounce' \in BOOLEAN
    <2> USE DEF ListInv
    <2>1. CASE ThrottleFires
      <3>1. /\ timer' = FALSE /\ trailing' = FALSE
            /\ UNCHANGED <<forced, debounce>>
            /\ indexCall' = indexCall \/ indexCall' = "read"
            /\ executeRefreshChats \/ read' = read
        BY <2>1 DEF ThrottleFires
      <3> QED  BY <3>1, ExecuteOK DEF RequestsOK, TimersOK
    <2>2. CASE ChangeHeard
      <3>1. debounce' = TRUE
        BY <2>2 DEF ChangeHeard
      <3>2. CASE UNCHANGED <<throttle, requests>>
        BY <3>1, <3>2 DEF RequestsOK, TimersOK, throttle, requests
      <3>3. CASE refreshChatsNow
        BY <3>1, <3>3, refreshChatsNowOK
      <3> QED  BY <2>2, <3>2, <3>3 DEF ChangeHeard
    <2>3. CASE DebounceFires \/ Poll
      <3>1. refreshSessionsIndex /\ forced' = forced /\ debounce' \in BOOLEAN
        BY <2>3 DEF DebounceFires, Poll, TimersOK
      <3> QED  BY <3>1, refreshSessionsIndexOK DEF RequestsOK
    <2>4. CASE RefreshesNow \/ FeedReset
      <3>1. refreshChatsNow /\ debounce' \in BOOLEAN
        BY <2>4 DEF RefreshesNow, FeedReset, TimersOK
      <3> QED  BY <3>1, refreshChatsNowOK
    <2> QED  BY <2>1, <2>2, <2>3, <2>4
  <1>4. TimersOK' /\ RequestsOK'
    BY <1>1, <1>3 DEF ListInv, TimersOK, RequestsOK
  <1>5. RowsOK' /\ KnownOK' /\ AnswerOK' /\ SelectionOK'
    BY <1>1, <1>3, ListKept
  <1> QED  BY <1>2, <1>4, <1>5 DEF ListInv

LEMMA FailuresOK ==
  ASSUME ListInv, ReadFails \/ BootFails \/ \E r \in Roots : TreeFails(r)
  PROVE  ListInv'
  <1>1. /\ UNCHANGED <<server, heard, list, debounce, throttle, deletion>>
        /\ gone' = gone /\ Known' = Known /\ effect' \in BOOLEAN
    BY DEF ReadFails, BootFails, TreeFails, server, Known, ListInv, TimersOK
  <1>2. ServerOK' /\ TimersOK'
    BY <1>1 DEF ListInv, ServerOK, TimersOK, server, throttle
  <1>3. CASE ReadFails
    <2>1. SettleRead(FALSE) /\ UNCHANGED <<boot, tree>>
      BY <1>3 DEF ReadFails
    <2>2. /\ read' \in Reads /\ read'.snap = {} /\ read'.st # "answered"
          /\ forced' \in {"none", "waiting", "reading"}
          /\ forced' # "none" => read'.st # "none"
          /\ indexCall' \in {"none", "read", "trailing", "forced"}
      BY <2>1, SettleOK DEF ListInv
    <2>3. RequestsOK'
      BY <1>1, <2>1, <2>2 DEF ListInv, RequestsOK
    <2>4. RowsOK' /\ KnownOK' /\ AnswerOK' /\ SelectionOK'
      BY <1>1, <2>1, <2>2, ListKept
    <2> QED  BY <1>2, <2>3, <2>4 DEF ListInv
  <1>4. CASE BootFails
    <2>1. boot' = NoRead /\ UNCHANGED <<requests, tree>>
      BY <1>4 DEF BootFails
    <2>2. RequestsOK'
      BY <1>1, <2>1, ReadShapes DEF ListInv, RequestsOK, requests
    <2>3. RowsOK' /\ KnownOK' /\ AnswerOK' /\ SelectionOK'
      BY <1>1, <2>1, ReadShapes, ListKept DEF requests
    <2> QED  BY <1>2, <2>2, <2>3 DEF ListInv
  <1>5. ASSUME NEW r \in Roots, TreeFails(r)
        PROVE  ListInv'
    <2>1. tree' = [tree EXCEPT ![r] = NoTree] /\ UNCHANGED <<requests, boot>>
      BY <1>5 DEF TreeFails, EndTree
    <2>2. RequestsOK'
      BY <1>1, <2>1, ReadShapes DEF ListInv, RequestsOK, requests
    <2>3. RowsOK' /\ KnownOK' /\ AnswerOK' /\ SelectionOK'
      BY <1>1, <2>1, ListKept DEF requests
    <2> QED  BY <1>2, <2>2, <2>3 DEF ListInv
  <1> QED  BY <1>3, <1>4, <1>5

-----------------------------------------------------------------------------
(* The server.                                                              *)

LEMMA IndexChangesOK ==
  ASSUME ListInv, IndexChanges
  PROVE  ListInv'
  <1>1. PICK s \in Sessions : Created(s) \/ Deleted(s)
    BY DEF IndexChanges
  <1>2. /\ version' = version + 1
        /\ UNCHANGED <<heard, list, boot, debounce, throttle, requests, effect, tree, deletion>>
    BY DEF IndexChanges
  <1>3. /\ index' \subseteq Sessions /\ gone' \subseteq Sessions \ index'
        /\ gone \subseteq gone' /\ Known \subseteq Known'
    BY <1>1, ServerMoves DEF ListInv
  <1>4. ServerOK' /\ TimersOK' /\ RequestsOK'
    BY <1>2, <1>3 DEF ListInv, ServerOK, TimersOK, RequestsOK, throttle, requests
  <1>5. RowsOK' /\ KnownOK' /\ AnswerOK' /\ SelectionOK'
    BY <1>2, <1>3, ListKept DEF requests
  <1> QED  BY <1>4, <1>5 DEF ListInv

LEMMA AnswersOK ==
  ASSUME ListInv, ReadAnswered \/ BootAnswered \/ \E r \in Roots : TreeAnswered(r)
  PROVE  ListInv'
  <1>1. /\ UNCHANGED <<server, heard, list, debounce, throttle, effect, deletion,
                       forced, indexCall>>
        /\ UNCHANGED <<index, gone, chats, count, crossed, current, seen>>
    BY DEF ReadAnswered, BootAnswered, TreeAnswered, server, requests, list
  <1>2. ServerOK' /\ TimersOK' /\ RowsOK' /\ index \subseteq Sessions
    BY <1>1 DEF ListInv, ServerOK, TimersOK, RowsOK, server, throttle
  <1>3. CASE ReadAnswered
    <2>1. read.st = "asked" /\ read' = Answer /\ UNCHANGED <<boot, tree>>
      BY <1>3 DEF ReadAnswered
    <2>2. RequestsOK'
      BY <1>1, <1>2, <2>1, ReadShapes DEF ListInv, RequestsOK
    <2>3. KnownOK'
      BY <1>1, <1>2, <2>1, ReadShapes DEF ListInv, KnownOK, Known
    <2>4. AnswerOK'
      BY <1>1, <1>2, <2>1, ReadShapes DEF ListInv, AnswerOK, KnownOK, Known
    <2>5. SelectionOK'
      BY <1>1, <1>2, <2>1, ReadShapes DEF ListInv, SelectionOK, ServerOK
    <2> QED  BY <1>2, <2>2, <2>3, <2>4, <2>5 DEF ListInv
  <1>4. CASE BootAnswered
    <2>1. boot' = Answer /\ UNCHANGED <<read, tree>>
      BY <1>4 DEF BootAnswered, requests
    <2>2. RequestsOK'
      BY <1>1, <1>2, <2>1, ReadShapes DEF ListInv, RequestsOK
    <2>3. KnownOK'
      BY <1>1, <1>2, <2>1, ReadShapes DEF ListInv, KnownOK, Known
    <2>4. AnswerOK' /\ SelectionOK'
      BY <1>1, <2>1 DEF ListInv, AnswerOK, SelectionOK
    <2> QED  BY <1>2, <2>2, <2>3, <2>4 DEF ListInv
  <1>5. ASSUME NEW r \in Roots, TreeAnswered(r)
        PROVE  ListInv'
    <2>1. /\ tree' = [tree EXCEPT ![r].st = "answered", ![r].snap = KidsOf(r) \cap index]
          /\ UNCHANGED <<read, boot>>
      BY <1>5 DEF TreeAnswered, requests
    <2>2. RequestsOK'
      <3>1. tree' \in [Roots -> Trees]
        BY <1>2, <2>1 DEF ListInv, RequestsOK, Trees
      <3>2. \A q \in Roots : tree'[q].snap \subseteq KidsOf(q)
        BY <2>1 DEF ListInv, RequestsOK, Trees
      <3> QED  BY <1>1, <2>1, <3>1, <3>2 DEF ListInv, RequestsOK
    <2>3. KnownOK' /\ AnswerOK' /\ SelectionOK'
      BY <1>1, <2>1 DEF ListInv, KnownOK, Known, AnswerOK, SelectionOK
    <2> QED  BY <1>2, <2>2, <2>3 DEF ListInv
  <1> QED  BY <1>3, <1>4, <1>5

-----------------------------------------------------------------------------
(* Deleting, and selecting.                                                 *)

LEMMA DeleteOK ==
  ASSUME ListInv, DeleteAnswered \/ \E s \in Sessions : DeleteAsked(s)
  PROVE  ListInv'
  <1>1. UNCHANGED <<heard, list, boot, debounce, throttle, requests, effect, tree>>
    BY DEF DeleteAnswered, DeleteAsked
  <1>2. deletion' \in [st : {"none", "asked", "answered"}, s : Sessions \cup {None}]
    BY DEF DeleteAnswered, DeleteAsked, ListInv, RequestsOK
  <1>3. /\ index' \subseteq Sessions /\ gone' \subseteq Sessions \ index'
        /\ gone \subseteq gone' /\ Known \subseteq Known'
        /\ version' \in {version, version + 1}
    <2>1. CASE UNCHANGED server
      BY <2>1 DEF server, ListInv, ServerOK, Known
    <2>2. CASE version' = version + 1 /\ deletion.s \in index /\ Deleted(deletion.s)
      <3>1. deletion.s \in Sessions
        BY <2>2 DEF ListInv, ServerOK
      <3> QED  BY <2>2, <3>1, ServerMoves DEF ListInv
    <2> QED  BY <2>1, <2>2 DEF DeleteAnswered, DeleteAsked
  <1>4. ServerOK' /\ TimersOK' /\ RequestsOK'
    BY <1>1, <1>2, <1>3 DEF ListInv, ServerOK, TimersOK, RequestsOK, throttle, requests
  <1>5. RowsOK' /\ KnownOK' /\ AnswerOK' /\ SelectionOK'
    BY <1>1, <1>3, ListKept DEF requests
  <1> QED  BY <1>4, <1>5 DEF ListInv

\* What a change of the rows has to show, when no request is touched.
LEMMA RowsChange ==
  ASSUME ListInv, UNCHANGED <<server, heard, boot, debounce, throttle, requests>>,
         effect' \in BOOLEAN, RequestsOK', RowsOK',
         crossed' = crossed, chats' \cap Roots \subseteq chats, SelectionOK'
  PROVE  ListInv'
  <1>1. ServerOK' /\ TimersOK'
    BY DEF ListInv, ServerOK, TimersOK, server, throttle
  <1>2. KnownOK'
    BY DEF ListInv, KnownOK, Known, server, requests
  <1>3. AnswerOK'
    BY DEF ListInv, AnswerOK, server, requests
  <1> QED  BY <1>1, <1>2, <1>3 DEF ListInv

\* A selection of a session that need not be listed.
LEMMA SelectionMoves ==
  ASSUME ListInv, NEW s \in Sessions, selectSession(s), gone' = gone,
         read'.snap \subseteq read.snap
  PROVE  /\ RowsOK' /\ SelectionOK' /\ effect' \in BOOLEAN
         /\ crossed' = crossed /\ chats' = chats
  <1>1. /\ current' = s /\ UNCHANGED <<chats, count, crossed>>
        /\ seen' = (s \in chats \/ (seen /\ s = current))
        /\ effect' = (effect \/ s # current)
    BY DEF selectSession, Follow
  <1>2. RowsOK' /\ effect' \in BOOLEAN
    BY <1>1 DEF ListInv, RowsOK, TimersOK
  <1>3. SelectionOK'
    BY <1>1 DEF ListInv, SelectionOK
  <1> QED  BY <1>1, <1>2, <1>3

LEMMA SelectOK ==
  ASSUME ListInv, NEW s \in Sessions, Select(s)
  PROVE  ListInv'
  <1>1. /\ selectSession(s)
        /\ UNCHANGED <<server, heard, boot, debounce, throttle, requests, tree, deletion>>
        /\ gone' = gone /\ read' = read
    BY DEF Select, server, requests
  <1>2. /\ RowsOK' /\ SelectionOK' /\ effect' \in BOOLEAN
        /\ crossed' = crossed /\ chats' = chats
    BY <1>1, SelectionMoves
  <1>3. RequestsOK'
    BY <1>1 DEF ListInv, RequestsOK, requests
  <1> QED  BY <1>1, <1>2, <1>3, RowsChange

\* The same, with a request for the list.
LEMMA OpenOK ==
  ASSUME ListInv, NEW s \in Sessions, OpenRefreshes(s)
  PROVE  ListInv'
  <1>1. /\ selectSession(s)
        /\ UNCHANGED <<server, heard, boot, debounce, forced, indexCall, tree, deletion>>
        /\ gone' = gone /\ Known' = Known
    BY DEF OpenRefreshes, server, Known
  <1>2. PICK promise \in {"read", "trailing"} : refreshChats(promise)
    BY DEF OpenRefreshes
  <1>3. /\ read' \in Reads /\ read'.snap \subseteq read.snap
        /\ read'.st = "answered" => read' = read
        /\ read'.st # "answered" => read'.snap = {}
        /\ read.st # "none" => read'.st # "none"
        /\ timer' \in BOOLEAN /\ trailing' \in BOOLEAN /\ (trailing' => timer')
    BY <1>2, refreshChatsOK DEF ListInv
  <1>4. /\ RowsOK' /\ SelectionOK' /\ effect' \in BOOLEAN
        /\ crossed' = crossed /\ chats' = chats
    BY <1>1, <1>3, SelectionMoves
  <1>5. ServerOK' /\ TimersOK' /\ RequestsOK'
    BY <1>1, <1>3, <1>4 DEF ListInv, ServerOK, TimersOK, RequestsOK, server
  <1>6. KnownOK' /\ AnswerOK'
    BY <1>1, <1>3, <1>4 DEF ListInv, KnownOK, AnswerOK
  <1> QED  BY <1>4, <1>5, <1>6 DEF ListInv

\* The rows of a deleted session leave with its children, and with the selection
\* if it was among them.
LEMMA DeleteReturnsOK ==
  ASSUME ListInv, DeleteReturns
  PROVE  ListInv'
  <1> DEFINE s == deletion.s
             out == chats \cap ({s} \cup IF s \in Roots THEN KidsOf(s) ELSE {})
  <1>1. /\ chats' = chats \ out
        /\ current' = IF current \in out THEN None ELSE current
        /\ seen' = (current' \in chats' \/ (seen /\ current' = current))
        /\ effect' = (effect \/ current' # current) /\ deletion' = NoDeletion
        /\ UNCHANGED <<server, heard, count, crossed, boot, debounce, throttle,
                       requests, tree>>
    BY DEF DeleteReturns, Follow
  <1>2. \A k \in (chats \ out) \cap Kids : RootOf[k] \in chats \ out
    <2> SUFFICES ASSUME NEW k \in (chats \ out) \cap Kids
                 PROVE  RootOf[k] \in chats \ out
      OBVIOUS
    <2>1. RootOf[k] \in chats /\ RootOf[k] \in Roots
      BY Families DEF ListInv, RowsOK
    <2>2. RootOf[k] = s => k \in out
      BY <2>1 DEF KidsOf
    <2>3. RootOf[k] \in out => RootOf[k] = s
      BY <2>1, Families
    <2> QED  BY <2>1, <2>2, <2>3
  <1>3. current \in Kids /\ current \notin out /\ current \notin chats \ out => current \notin chats
    OBVIOUS
  <1> HIDE DEF out
  <1>4. RowsOK'
    BY <1>1, <1>2 DEF ListInv, RowsOK
  <1>5. SelectionOK'
    BY <1>1, <1>3, NoneAssumption DEF ListInv, SelectionOK, Sessions, server, requests
  <1>6. RequestsOK'
    BY <1>1 DEF ListInv, RequestsOK, requests, NoDeletion
  <1>7. effect' \in BOOLEAN /\ chats' \cap Roots \subseteq chats
    BY <1>1 DEF ListInv, TimersOK
  <1> QED  BY <1>1, <1>4, <1>5, <1>6, <1>7, RowsChange

-----------------------------------------------------------------------------
(* Trees of children.                                                       *)

\* One tree is replaced under a listed root.
LEMMA MergeOK ==
  ASSUME ListInv, NEW r \in Roots, r \in chats, NEW kids \in SUBSET KidsOf(r),
         MergeChildren(r, kids), gone' = gone, read' = read
  PROVE  /\ RowsOK' /\ SelectionOK'
         /\ crossed' = crossed /\ chats' \cap Roots \subseteq chats
  <1>1. /\ chats' = (chats \ KidsOf(r)) \cup kids
        /\ current' = IF current \in (KidsOf(r) \cap chats) \ kids THEN r ELSE current
        /\ seen' = (current' \in chats' \/ (seen /\ current' = current))
        /\ UNCHANGED <<count, crossed>>
    BY DEF MergeChildren, Follow
  <1>2. kids \subseteq Kids /\ chats \cap Roots = chats' \cap Roots
    BY <1>1, Families
  <1>3. RowsOK'
    <2>1. chats' \subseteq Sessions
      BY <1>1, <1>2 DEF ListInv, RowsOK, Sessions
    <2>2. \A k \in chats' \cap Kids : RootOf[k] \in chats'
      <3> SUFFICES ASSUME NEW k \in chats' \cap Kids
                   PROVE  RootOf[k] \in chats'
        OBVIOUS
      <3>1. RootOf[k] \in Roots
        BY Families
      <3>2. CASE k \in kids
        <4>1. RootOf[k] = r
          BY <3>2 DEF KidsOf
        <4> QED  BY <1>2, <4>1
      <3>3. CASE k \in chats
        <4>1. RootOf[k] \in chats
          BY <3>3 DEF ListInv, RowsOK
        <4> QED  BY <1>2, <3>1, <4>1
      <3> QED  BY <1>1, <3>2, <3>3
    <2> QED  BY <1>1, <2>1, <2>2 DEF ListInv, RowsOK, Sessions
  <1>4. SelectionOK'
    <2> SUFFICES ASSUME current' \in Kids \ chats', seen', ~crossed'
                 PROVE  RootOf[current'] \in gone \ (chats' \cup read.snap)
      BY DEF SelectionOK
    <2>1. current' = current
      BY <1>1, Families
    <2>2. current \notin chats
      BY <1>1, <2>1, Families
    <2>3. seen
      BY <1>1
    <2>4. RootOf[current] \in gone \ (chats \cup read.snap) /\ RootOf[current] \in Roots
      BY <1>1, <2>3, <2>1, <2>2, Families DEF ListInv, SelectionOK
    <2> QED  BY <1>2, <2>1, <2>4
  <1> QED  BY <1>1, <1>2, <1>3, <1>4

LEMMA TreeEffectOK ==
  ASSUME ListInv, TreeEffect
  PROVE  ListInv'
  <1> DEFINE r == TreeRoot(current)
  <1>1. /\ UNCHANGED <<server, heard, boot, debounce, throttle, requests, deletion>>
        /\ UNCHANGED <<gone, read>> /\ effect' \in BOOLEAN
    BY DEF TreeEffect, server, requests
  <1>2. CASE {current, r} \subseteq chats
    <2>1. r \in Roots /\ r \in chats
      BY <1>2, Families DEF TreeRoot, ListInv, RowsOK, Sessions
    <2>2. RequestsOK'
      <3>1. tree' \in [Roots -> Trees] /\ \A q \in Roots : tree'[q].snap \subseteq KidsOf(q)
        <4> HIDE DEF r
        <4>1. CASE tree' = [tree EXCEPT ![r].again = tree[r].again \/ tree[r].moved,
                                        ![r].moved = FALSE]
          BY <2>1, <4>1 DEF ListInv, RequestsOK, Trees
        <4>2. CASE tree' = [tree EXCEPT ![r] = [NoTree EXCEPT !.st = "asked", !.moved = FALSE]]
          BY <2>1, <4>2 DEF ListInv, RequestsOK, Trees, NoTree
        <4>3. CASE UNCHANGED tree
          BY <4>3 DEF ListInv, RequestsOK
        <4> QED  BY <1>2, <4>1, <4>2, <4>3 DEF TreeEffect, AskTree, r
      <3> QED  BY <1>1, <3>1 DEF ListInv, RequestsOK, requests
    <2>3. CASE UNCHANGED list
      <3>1. RowsOK' /\ SelectionOK' /\ crossed' = crossed /\ chats' = chats
        BY <1>1, <2>3 DEF ListInv, RowsOK, SelectionOK, list
      <3> QED  BY <1>1, <2>2, <3>1, RowsChange
    <2>4. CASE MergeChildren(r, {})
      <3>1. /\ RowsOK' /\ SelectionOK'
            /\ crossed' = crossed /\ chats' \cap Roots \subseteq chats
        <4> HIDE DEF r
        <4> QED  BY <1>1, <2>1, <2>4, MergeOK
      <3> QED  BY <1>1, <2>2, <3>1, RowsChange
    <2> QED  BY <1>2, <2>3, <2>4 DEF TreeEffect
  <1>3. CASE ~({current, r} \subseteq chats)
    <2>1. UNCHANGED <<list, tree>>
      BY <1>3 DEF TreeEffect
    <2>2. RequestsOK' /\ RowsOK' /\ SelectionOK' /\ crossed' = crossed /\ chats' = chats
      BY <1>1, <2>1 DEF ListInv, RequestsOK, RowsOK, SelectionOK, list, requests
    <2> QED  BY <1>1, <2>2, RowsChange
  <1> QED  BY <1>2, <1>3

LEMMA TreeAppliedOK ==
  ASSUME ListInv, NEW r \in Roots, TreeApplied(r)
  PROVE  ListInv'
  <1>1. /\ UNCHANGED <<server, heard, boot, debounce, throttle, requests, deletion>>
        /\ UNCHANGED <<gone, read>> /\ effect' \in BOOLEAN
    BY DEF TreeApplied, server, requests, ListInv, TimersOK
  <1>2. RequestsOK'
    <2>1. \/ tree' = [tree EXCEPT ![r] = NoTree]
          \/ tree' = [tree EXCEPT ![r] = [NoTree EXCEPT !.st = "asked", !.moved = tree[r].moved]]
      BY DEF TreeApplied, EndTree, AskTree
    <2>2. tree[r].moved \in BOOLEAN
      BY DEF ListInv, RequestsOK, Trees
    <2>3. \E t \in Trees : t.snap = {} /\ tree' = [tree EXCEPT ![r] = t]
      BY <2>1, <2>2 DEF Trees, NoTree
    <2>4. tree' \in [Roots -> Trees] /\ \A q \in Roots : tree'[q].snap \subseteq KidsOf(q)
      BY <2>3 DEF ListInv, RequestsOK
    <2> QED  BY <1>1, <2>4 DEF ListInv, RequestsOK, requests
  <1>3. CASE UNCHANGED list
    <2>1. RowsOK' /\ SelectionOK' /\ crossed' = crossed /\ chats' = chats
      BY <1>1, <1>3 DEF ListInv, RowsOK, SelectionOK, list
    <2> QED  BY <1>1, <1>2, <2>1, RowsChange
  <1>4. CASE r \in chats /\ \E kids \in SUBSET KidsOf(r) : MergeChildren(r, kids)
    <2>1. /\ RowsOK' /\ SelectionOK'
          /\ crossed' = crossed /\ chats' \cap Roots \subseteq chats
      BY <1>1, <1>4, MergeOK
    <2> QED  BY <1>1, <1>2, <2>1, RowsChange
  <1>5. tree[r].snap \in SUBSET KidsOf(r) /\ {} \in SUBSET KidsOf(r)
    BY DEF ListInv, RequestsOK
  <1> QED  BY <1>3, <1>4, <1>5 DEF TreeApplied

-----------------------------------------------------------------------------
(* The roots.                                                               *)

\* loadChats takes over the list, and the selection with it.
LEMMA BootLoadsOK ==
  ASSUME ListInv, BootLoads
  PROVE  ListInv'
  <1>1. /\ crossed' = (read.st # "none") /\ boot' = NoRead /\ effect' = TRUE
        /\ UNCHANGED <<heard, debounce, throttle, requests, tree, deletion>>
        /\ seen' \in BOOLEAN
    BY DEF BootLoads, Follow
  <1>2. TimersOK' /\ RequestsOK'
    BY <1>1, ReadShapes DEF ListInv, TimersOK, RequestsOK, throttle, requests
  <1>3. /\ ServerOK' /\ Known \subseteq Known'
        /\ chats' \subseteq Roots /\ chats' \subseteq Known' /\ current' \in chats'
        /\ count' \in [Roots -> 0..Cardinality(Kids)]
    <2>1. CASE /\ chats' = boot.snap \cap Roots /\ count' = CountIn(boot.snap)
               /\ current' \in chats' /\ UNCHANGED server
      BY <1>1, <2>1, CountsOK DEF ListInv, ServerOK, KnownOK, Known, server
    <2>2. ASSUME NEW r \in Roots, Created(r), chats' = {r}, current' = r,
                 count' = [q \in Roots |-> 0], version' = version + 1
          PROVE  /\ ServerOK' /\ Known \subseteq Known'
                 /\ chats' \subseteq Roots /\ chats' \subseteq Known' /\ current' \in chats'
                 /\ count' \in [Roots -> 0..Cardinality(Kids)]
      <3>1. r \in Sessions
        BY DEF Sessions
      <3>2. /\ index' \subseteq Sessions /\ gone' \subseteq Sessions \ index'
            /\ Known \subseteq Known'
        BY <2>2, <3>1, ServerMoves DEF ListInv
      <3>3. ServerOK' /\ Known \subseteq Known'
        BY <1>1, <2>2, <3>2 DEF ListInv, ServerOK
      <3>4. r \in Known'
        BY <2>2 DEF Created, Known
      <3>5. Cardinality(Kids) \in Nat
        BY SessionsAssumption, FS_CardinalityType
      <3>6. count' \in [Roots -> 0..Cardinality(Kids)]
        BY <2>2, <3>5
      <3> QED  BY <2>2, <3>3, <3>4, <3>6
    <2> QED  BY <2>1, <2>2 DEF BootLoads
  <1>4. RowsOK'
    BY <1>1, <1>3, Families DEF RowsOK, Sessions
  <1>5. KnownOK'
    BY <1>1, <1>3, ReadShapes DEF ListInv, KnownOK, requests
  <1>6. AnswerOK'
    BY <1>1 DEF AnswerOK, requests
  <1>7. SelectionOK'
    BY <1>3 DEF SelectionOK
  <1> QED  BY <1>2, <1>3, <1>4, <1>5, <1>6, <1>7 DEF ListInv

\* A refresh replaces the roots, and takes the children of a lost root along.
LEMMA ReadAppliedOK ==
  ASSUME ListInv, ReadApplied
  PROVE  ListInv'
  <1> DEFINE snap == read.snap
  <1>1. /\ read.st = "answered"
        /\ chats' = (snap \cap Roots) \cup {k \in chats \cap Kids : RootOf[k] \in snap}
        /\ count' = CountIn(snap)
        /\ tree' = [r \in Roots |-> [tree[r] EXCEPT !.moved = tree[r].st # "none"]]
        /\ effect' = (effect \/ Booted) /\ SettleRead(TRUE)
        /\ UNCHANGED <<server, heard, crossed, current, boot, debounce, throttle, deletion>>
        /\ seen' = (current \in chats' \/ seen)
    BY DEF ReadApplied, Follow, ListInv, RowsOK
  <1>2. /\ read' \in Reads /\ read'.snap = {} /\ read'.st # "answered"
        /\ forced' \in {"none", "waiting", "reading"}
        /\ forced' # "none" => read'.st # "none"
        /\ indexCall' \in {"none", "read", "trailing", "forced"}
    BY <1>1, SettleOK DEF ListInv
  <1>3. ServerOK' /\ TimersOK' /\ gone' = gone /\ Known' = Known
    BY <1>1 DEF ListInv, ServerOK, TimersOK, server, throttle, Known, Booted
  <1>4. RequestsOK'
    <2>1. \A r \in Roots : [tree[r] EXCEPT !.moved = tree[r].st # "none"] \in Trees
                           /\ [tree[r] EXCEPT !.moved = tree[r].st # "none"].snap \subseteq KidsOf(r)
      BY DEF ListInv, RequestsOK, Trees
    <2>2. tree' \in [Roots -> Trees] /\ \A q \in Roots : tree'[q].snap \subseteq KidsOf(q)
      BY <1>1, <2>1
    <2> QED  BY <1>1, <1>2, <2>2 DEF ListInv, RequestsOK
  <1>5. \A k \in Kids : RootOf[k] \in Roots /\ (RootOf[k] \in chats' <=> RootOf[k] \in snap)
    BY <1>1, Families
  <1>6. RowsOK'
    <2>1. chats' \subseteq Sessions
      BY <1>1 DEF ListInv, RowsOK, Sessions
    <2>2. \A k \in chats' \cap Kids : RootOf[k] \in chats'
      BY <1>1, <1>5, Families
    <2> QED  BY <1>1, <2>1, <2>2, CountsOK DEF ListInv, RowsOK
  <1>7. KnownOK'
    <2>1. chats' \cap Roots \subseteq snap
      BY <1>1, Families
    <2> QED  BY <1>1, <1>2, <1>3, <2>1 DEF ListInv, KnownOK
  <1>8. AnswerOK'
    <2>1. read'.st # "answered"
      BY <1>2
    <2> QED  BY <2>1 DEF AnswerOK
  <1>9. SelectionOK'
    <2> SUFFICES ASSUME current \in Kids \ chats', seen, ~crossed
                 PROVE  RootOf[current] \in gone \ chats'
      BY <1>1, <1>2, <1>3 DEF SelectionOK
    <2>1. CASE current \in chats
      <3>1. RootOf[current] \in chats /\ RootOf[current] \notin snap
        BY <1>1, <2>1 DEF ListInv, RowsOK
      <3> QED  BY <1>1, <1>5, <3>1 DEF ListInv, AnswerOK
    <2>2. CASE current \notin chats
      BY <1>5, <2>2 DEF ListInv, SelectionOK
    <2> QED  BY <2>1, <2>2
  <1> QED  BY <1>3, <1>4, <1>6, <1>7, <1>8, <1>9 DEF ListInv

-----------------------------------------------------------------------------
(* The theorems.                                                            *)

LEMMA ListInvInit == Init => ListInv
  <1> SUFFICES ASSUME Init PROVE ListInv
    OBVIOUS
  <1>0. index \subseteq Sessions /\ gone = {} /\ version = 0 /\ heard = 0
    BY DEF Init
  <1>1. ServerOK /\ TimersOK
    <2>1. ServerOK
      BY <1>0 DEF ServerOK
    <2>2. TimersOK
      BY DEF Init, TimersOK
    <2> QED  BY <2>1, <2>2
  <1>2. RequestsOK
    BY ReadShapes DEF Init, RequestsOK, NoDeletion
  <1>3. Cardinality(Kids) \in Nat
    BY SessionsAssumption, FS_CardinalityType
  <1>4. RowsOK
    <2>1. count \in [Roots -> 0..Cardinality(Kids)]
      BY <1>3 DEF Init
    <2>2. chats = {} /\ current = None /\ seen = FALSE
      BY DEF Init
    <2> QED  BY <2>1, <2>2 DEF RowsOK
  <1>5. KnownOK /\ AnswerOK /\ SelectionOK
    BY ReadShapes, NoneAssumption DEF Init, KnownOK, AnswerOK, SelectionOK
  <1> QED  BY <1>1, <1>2, <1>4, <1>5 DEF ListInv

LEMMA ListInvStep == ListInv /\ [Next]_vars => ListInv'
  <1> SUFFICES ASSUME ListInv, [Next]_vars PROVE ListInv'
    OBVIOUS
  <1>1. CASE \/ ThrottleFires \/ ChangeHeard \/ DebounceFires \/ Poll
             \/ RefreshesNow \/ FeedReset
    BY <1>1, AsksOK
  <1>2. CASE ReadFails \/ BootFails \/ \E r \in Roots : TreeFails(r)
    BY <1>2, FailuresOK
  <1>3. CASE IndexChanges
    BY <1>3, IndexChangesOK
  <1>4. CASE ReadAnswered \/ BootAnswered \/ \E r \in Roots : TreeAnswered(r)
    BY <1>4, AnswersOK
  <1>5. CASE DeleteAnswered \/ \E s \in Sessions : DeleteAsked(s)
    BY <1>5, DeleteOK
  <1>6. CASE DeleteReturns
    BY <1>6, DeleteReturnsOK
  <1>7. CASE \E s \in Sessions : Select(s) \/ OpenRefreshes(s)
    BY <1>7, SelectOK, OpenOK
  <1>8. CASE TreeEffect
    BY <1>8, TreeEffectOK
  <1>9. CASE \E r \in Roots : TreeApplied(r)
    BY <1>9, TreeAppliedOK
  <1>10. CASE BootLoads
    BY <1>10, BootLoadsOK
  <1>11. CASE ReadApplied
    BY <1>11, ReadAppliedOK
  <1>12. CASE UNCHANGED vars
    <2>1. ServerOK' /\ TimersOK' /\ RequestsOK'
      BY <1>12 DEF vars, server, throttle, requests, ListInv, ServerOK, TimersOK, RequestsOK
    <2>2. RowsOK' /\ KnownOK' /\ AnswerOK' /\ SelectionOK'
      BY <1>12, ListKept DEF vars, server, requests, Known
    <2> QED  BY <2>1, <2>2 DEF ListInv
  <1> QED  BY <1>1, <1>2, <1>3, <1>4, <1>5, <1>6, <1>7, <1>8, <1>9, <1>10, <1>11, <1>12
           DEF Next

LEMMA ListInvAlways == Spec => []ListInv
  BY ListInvInit, ListInvStep, PTL DEF Spec

\* The list, its requests and timers keep their shapes, whatever is shared,
\* forced, throttled or lost (refreshChats.ts, chatSessionSlice.ts).
THEOREM TypesAlways == Spec => []TypeOK
  <1>1. ListInv => TypeOK
    BY DEF ListInv, ServerOK, TimersOK, RequestsOK, RowsOK, Reads, Trees, TypeOK
  <1> QED  BY <1>1, ListInvAlways, PTL

\* However late an answer is, and whatever was deleted here or elsewhere while it
\* was under way, the list is a forest, and a selected child leaves it
\* only together with its selection or with its root, which stays away
\* (applySessionsList, loadSubagentTree's worker, deleteSession).
THEOREM ListWellFormedAlways == Spec => []ListWellFormed
  <1>1. ListInv => ListWellFormed
    BY DEF ListInv, RowsOK, SelectionOK, ListWellFormed
  <1> QED  BY <1>1, ListInvAlways, PTL
=============================================================================
