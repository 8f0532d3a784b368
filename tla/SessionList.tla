---------------------------- MODULE SessionList ----------------------------
(***************************************************************************)
(* The session list of the store: who asks for it to be read again, how    *)
(* requests are coalesced, and what each answer does to the list.          *)
(*                                                                         *)
(*   accountFeed.ts       a change schedules a debounced refresh           *)
(*   appStore/index.ts    refreshSessionsIndex, one call at a time         *)
(*   chatSessionSlice.ts  refreshChats (throttled, with a trailing call),  *)
(*                        refreshChatsNow (forced), deleteSession          *)
(*   refreshChats.ts      the shared read of the roots, the forced second  *)
(*                        read, and one worker per tree of children        *)
(*   useChat.ts           the pane's effect that asks for the open tree    *)
(*                                                                         *)
(* The server's index changes on its own and tells the page through the    *)
(* account feed (V2Feed models that channel: every change arrives, in      *)
(* order).  Reads answer late and may fail.  A read is one answer of the   *)
(* server, however many pages it is put together from.  Row contents       *)
(* are reduced to which sessions exist and how many children a root has.   *)
(***************************************************************************)
EXTENDS Naturals, FiniteSets

CONSTANTS
  Roots,        \* root sessions that may exist
  Kids,         \* child sessions that may exist
  RootOf,       \* the root of each child
  MaxChanges,   \* bound: changes of the server's index
  MaxEvents,    \* bound: calls the page makes beyond feed and poll, and
                \* requests that fail, together
  None

ASSUME RootOfAssumption == RootOf \in [Kids -> Roots]
ASSUME SessionsAssumption == Roots \cap Kids = {} /\ IsFiniteSet(Kids)
ASSUME BoundsAssumption == MaxChanges \in Nat /\ MaxEvents \in Nat
ASSUME NoneAssumption == None \notin Roots \cup Kids

Sessions == Roots \cup Kids
KidsOf(r) == {k \in Kids : RootOf[k] = r}
TreeRoot(s) == IF s \in Kids THEN RootOf[s] ELSE s

VARIABLES
  index,      \* server: the sessions that exist
  gone,       \* server: the sessions deleted (ids are not used again)
  version,    \* server: changes so far
  heard,      \* page: changes the feed has handed over
  chats,      \* page: the sessions in the store's list
  count,      \* page: subagentCount of each root row
  crossed,    \* ghost: a refresh was under way when loadChats took over
  current,    \* page: currentSessionId
  seen,       \* ghost: the selected session was listed since it was selected
  boot,       \* page: loadChats, and what the server answered it
  debounce,   \* page: accountFeed's refreshTimer is running
  timer,      \* page: the throttle window is open
  trailing,   \* page: a trailing promise waits for the window's end
  read,       \* page: refreshChatsState.inFlight and what the server answered
  forced,     \* page: refreshChatsState.forcedPromise and where it stands
  indexCall,  \* page: sessionsIndexRefreshInFlight and the promise it awaits
  effect,     \* page: the pane's tree effect has to run
  tree,       \* page: subagentTreeRequests
  deletion,   \* page: a deleteSession in progress
  events

server == <<index, gone, version>>
list == <<chats, count, crossed, current, seen>>
throttle == <<timer, trailing>>
requests == <<read, forced, indexCall>>
vars == <<server, heard, list, boot, debounce, throttle, requests, effect,
          tree, deletion, events>>

NoRead == [st |-> "none", snap |-> {}]
Asked == [NoRead EXCEPT !.st = "asked"]
Answer == [st |-> "answered", snap |-> index]
\* A worker's revisions, compared: `again` when requestedRevision is past the
\* revision this turn reads for, `moved` when sessionIndexRevision is past
\* requestedRevision.
NoTree == [st |-> "none", snap |-> {}, again |-> FALSE, moved |-> FALSE]
NoDeletion == [st |-> "none", s |-> None]

CountIn(snap) == [r \in Roots |-> IF r \in snap
                                   THEN Cardinality(KidsOf(r) \cap snap) ELSE 0]

Init ==
  /\ index \in {i \in SUBSET Sessions : \A k \in i \cap Kids : RootOf[k] \in i}
  /\ gone = {}
  /\ version = 0 /\ heard = 0
  /\ chats = {} /\ count = [r \in Roots |-> 0]
  /\ crossed = FALSE /\ current = None /\ seen = FALSE
  /\ boot = Asked
  /\ debounce = FALSE /\ timer = FALSE /\ trailing = FALSE
  /\ read = NoRead /\ forced = "none" /\ indexCall = "none"
  /\ effect = FALSE
  /\ tree = [r \in Roots |-> NoTree]
  /\ deletion = NoDeletion
  /\ events = 0

Booted == boot.st = "none"
Event == events < MaxEvents /\ events' = events + 1
Call == Booted /\ Event

\* What is selected now was listed since it was selected.
Follow == seen' = (current' \in chats' \/ (seen /\ current' = current))

-----------------------------------------------------------------------------
(* The server.                                                             *)

Created(s) ==
  /\ s \notin index \cup gone
  /\ s \in Kids => RootOf[s] \in index
  /\ index' = index \cup {s} /\ UNCHANGED gone

Deleted(s) ==
  /\ s \in index
  /\ LET out == {s} \cup IF s \in Roots THEN KidsOf(s) \cap index ELSE {} IN
     index' = index \ out /\ gone' = gone \cup out

IndexChanges ==
  /\ version < MaxChanges
  /\ version' = version + 1
  /\ \E s \in Sessions : Created(s) \/ Deleted(s)
  /\ UNCHANGED <<heard, list, boot, debounce, throttle, requests, effect,
                 tree, deletion, events>>

ReadAnswered ==
  /\ read.st = "asked"
  /\ read' = Answer
  /\ UNCHANGED <<server, heard, list, boot, debounce, throttle, forced,
                 indexCall, effect, tree, deletion, events>>

BootAnswered ==
  /\ boot.st = "asked"
  /\ boot' = Answer
  /\ UNCHANGED <<server, heard, list, debounce, throttle, requests, effect,
                 tree, deletion, events>>

TreeAnswered(r) ==
  /\ tree[r].st = "asked"
  /\ tree' = [tree EXCEPT ![r].st = "answered", ![r].snap = KidsOf(r) \cap index]
  /\ UNCHANGED <<server, heard, list, boot, debounce, throttle, requests,
                 effect, deletion, events>>

-----------------------------------------------------------------------------
(* Starting up: loadChats reads the roots beside the feed and the poll, and *)
(* takes over the list with what it read, creating a first session when     *)
(* there is none.                                                           *)

BootLoads ==
  /\ boot.st = "answered"
  /\ \/ /\ boot.snap \cap Roots # {}
        /\ chats' = boot.snap \cap Roots
        /\ count' = CountIn(boot.snap)
        /\ current' \in chats'                  \* the first row
        /\ UNCHANGED server
     \/ /\ boot.snap \cap Roots = {}
        /\ \E r \in Roots :
             /\ Created(r)
             /\ chats' = {r} /\ current' = r
        /\ count' = [r \in Roots |-> 0]
        /\ version' = version + 1
  /\ crossed' = (read.st # "none") /\ Follow
  /\ boot' = NoRead
  /\ effect' = TRUE                            \* booted turns true
  /\ UNCHANGED <<heard, debounce, throttle, requests, tree, deletion,
                 events>>

\* The shell starts without it, with the list the poll has read or will read.
BootFails ==
  /\ boot.st # "none"
  /\ Event
  /\ boot' = NoRead
  /\ effect' = TRUE
  /\ UNCHANGED <<server, heard, list, debounce, throttle, requests, tree,
                 deletion>>

-----------------------------------------------------------------------------
(* Reading the roots.                                                      *)

\* A request is served by the read in flight, whatever that will bring.
executeRefreshChats == read' = IF read.st = "none" THEN Asked ELSE read

\* refreshChats, and the promise its caller is given.
refreshChats(promise) ==
  \/ /\ read.st # "none"
     /\ promise = "read"
     /\ UNCHANGED <<read, throttle>>
  \/ /\ read.st = "none" /\ timer
     /\ promise = "trailing"
     /\ trailing' = TRUE
     /\ UNCHANGED <<read, timer>>
  \/ /\ read.st = "none" /\ ~timer
     /\ promise = "read"
     /\ timer' = TRUE /\ executeRefreshChats /\ UNCHANGED trailing

\* Mutant: the window is closed and whoever waited for its end is forgotten.
RefreshNowForgetsWaiters ==
  /\ timer' = FALSE /\ trailing' = FALSE
  /\ forced' = IF read.st # "none" /\ forced = "none" THEN "waiting" ELSE forced
  /\ indexCall' = indexCall
  /\ executeRefreshChats

\* The window is closed and whoever waited for its end follows the new read.
refreshChatsNow ==
  /\ timer' = FALSE /\ trailing' = FALSE
  /\ forced' = IF read.st # "none" /\ forced = "none" THEN "waiting" ELSE forced
  /\ indexCall' = IF indexCall # "trailing" THEN indexCall
                  ELSE IF read.st = "none" THEN "read" ELSE "forced"
  /\ executeRefreshChats

\* Mutant: the trailing callbacks are not consumed.
ThrottleFiresKeepsTrailing ==
  /\ timer
  /\ timer' = FALSE
  /\ IF trailing THEN executeRefreshChats ELSE UNCHANGED read
  /\ UNCHANGED <<server, heard, list, boot, debounce, trailing, forced,
                 indexCall, effect, tree, deletion, events>>

\* The window ends: a trailing call starts a read or shares the one in flight.
ThrottleFires ==
  /\ timer
  /\ timer' = FALSE /\ trailing' = FALSE
  /\ IF trailing
       THEN /\ executeRefreshChats
            /\ indexCall' = IF indexCall = "trailing" THEN "read" ELSE indexCall
       ELSE UNCHANGED <<read, indexCall>>
  /\ UNCHANGED <<server, heard, list, boot, debounce, forced, effect, tree,
                 deletion, events>>

\* The promises that settle with the read: the call waiting for it, and the
\* forced refresh, which reads once more only if the read it waited for worked.
SettleRead(ok) ==
  LET again == forced = "waiting" /\ ok IN
  /\ forced' = IF again THEN "reading" ELSE "none"
  /\ read' = IF again THEN Asked ELSE NoRead
  /\ indexCall' = IF indexCall = "read" \/ (indexCall = "forced" /\ ~again)
                    THEN "none" ELSE indexCall

\* applySessionsList, scope "roots": children stay with the roots that remain.
ReadApplied ==
  /\ read.st = "answered"
  /\ LET snap == read.snap IN
     /\ chats' = (snap \cap Roots) \cup {k \in chats \cap Kids : RootOf[k] \in snap}
     /\ count' = CountIn(snap)
  /\ tree' = [r \in Roots |-> [tree[r] EXCEPT !.moved = tree[r].st # "none"]]
  /\ effect' = (effect \/ Booted)
  /\ SettleRead(TRUE)
  /\ UNCHANGED <<server, heard, crossed, current, boot, debounce, throttle,
                 deletion, events>>
  /\ Follow

ReadFails ==
  /\ read.st # "none"
  /\ Event
  /\ SettleRead(FALSE)
  /\ UNCHANGED <<server, heard, list, boot, debounce, throttle, effect, tree,
                 deletion>>

-----------------------------------------------------------------------------
(* Who asks.                                                               *)

\* refreshSessionsIndex: one call at a time, a second is given the first.
refreshSessionsIndex ==
  \/ /\ indexCall # "none"
     /\ UNCHANGED <<read, throttle, indexCall>>
  \/ /\ indexCall = "none"
     /\ \E promise \in {"read", "trailing"} :
          refreshChats(promise) /\ indexCall' = promise

\* A change schedules a refresh; a run that starts elsewhere on the open
\* session refreshes at once as well.
ChangeHeard ==
  /\ heard < version
  /\ heard' = heard + 1
  /\ debounce' = TRUE
  /\ \/ UNCHANGED <<throttle, requests>>
     \/ current # None /\ refreshChatsNow
  /\ UNCHANGED <<server, list, boot, effect, tree, deletion, events>>

DebounceFires ==
  /\ debounce
  /\ debounce' = FALSE
  /\ refreshSessionsIndex
  /\ UNCHANGED <<server, heard, list, boot, forced, effect, tree, deletion,
                 events>>

\* The low-frequency poll that heals what was missed.
Poll ==
  /\ refreshSessionsIndex
  /\ UNCHANGED <<server, heard, list, boot, debounce, forced, effect, tree,
                 deletion, events>>

\* A run ends, a socket reconnects, a session was cleared.
RefreshesNow ==
  /\ Event
  /\ refreshChatsNow
  /\ UNCHANGED <<server, heard, list, boot, debounce, effect, tree, deletion>>

\* The feed is reset: the changes up to now will not be replayed one by one.  The
\* feed is started before loadChats.
FeedReset ==
  /\ Event
  /\ heard' = version
  /\ debounce' = FALSE
  /\ refreshChatsNow
  /\ UNCHANGED <<server, list, boot, effect, tree, deletion>>

\* Nothing checks that the session is listed, or that it still exists.
selectSession(s) ==
  /\ current' = s /\ UNCHANGED <<chats, count, crossed>>
  /\ Follow
  /\ effect' = (effect \/ s # current)

Select(s) ==
  /\ Call
  /\ s \in index \cup gone /\ s # current
  /\ selectSession(s)
  /\ UNCHANGED <<server, heard, boot, debounce, throttle, requests, tree, deletion>>

\* openSession of a session that is not listed, or with forceRefreshIndex: it is
\* selected at once, and the list is read.
OpenRefreshes(s) ==
  /\ Call
  /\ s \in index \cup gone
  /\ selectSession(s)
  /\ \E promise \in {"read", "trailing"} : refreshChats(promise)
  /\ UNCHANGED <<server, heard, boot, debounce, forced, indexCall, tree, deletion>>

-----------------------------------------------------------------------------
(* Trees of children.                                                      *)

\* Mutant: the selection stays on a child that is gone.
MergeForgetsSelection(r, kids) ==
  /\ chats' = (chats \ KidsOf(r)) \cup kids
  /\ current' = current
  /\ Follow
  /\ UNCHANGED <<count, crossed>>

\* applySessionsList, scope "children": one tree is replaced, and a selected
\* child that is gone hands the selection to its root.
MergeChildren(r, kids) ==
  /\ chats' = (chats \ KidsOf(r)) \cup kids
  /\ current' = IF current \in (KidsOf(r) \cap chats) \ kids THEN r ELSE current
  /\ Follow
  /\ UNCHANGED <<count, crossed>>

AskTree(r, moved) ==
  tree' = [tree EXCEPT ![r] = [NoTree EXCEPT !.st = "asked", !.moved = moved]]

EndTree(r) == tree' = [tree EXCEPT ![r] = NoTree]

\* The effect's forced load of the open tree: join the worker, or start one,
\* which needs no request when the root row has no children.
TreeEffect ==
  /\ effect
  /\ LET r == TreeRoot(current) IN
     \/ /\ {current, r} \subseteq chats /\ tree[r].st # "none"
        /\ tree' = [tree EXCEPT ![r].again = tree[r].again \/ tree[r].moved,
                               ![r].moved = FALSE]
        /\ UNCHANGED list /\ effect' = FALSE
     \/ /\ {current, r} \subseteq chats /\ tree[r].st = "none"
        /\ IF count[r] = 0 THEN MergeChildren(r, {}) /\ UNCHANGED tree
                           ELSE AskTree(r, FALSE) /\ UNCHANGED list
        /\ effect' = (current' # current)
     \/ /\ ~({current, r} \subseteq chats)
        /\ UNCHANGED <<list, tree>> /\ effect' = FALSE
  /\ UNCHANGED <<server, heard, boot, debounce, throttle, requests, deletion,
                 events>>

\* The worker's request came back: another turn if the index moved meanwhile.
TreeApplied(r) ==
  /\ tree[r].st = "answered"
  /\ \/ /\ r \notin chats
        /\ EndTree(r) /\ UNCHANGED list
     \/ /\ r \in chats /\ ~tree[r].again
        /\ MergeChildren(r, tree[r].snap) /\ EndTree(r)
     \/ /\ r \in chats /\ tree[r].again /\ count[r] > 0
        /\ MergeChildren(r, tree[r].snap) /\ AskTree(r, tree[r].moved)
     \/ /\ r \in chats /\ tree[r].again /\ count[r] = 0
        /\ MergeChildren(r, {}) /\ EndTree(r)
  /\ effect' = (effect \/ current' # current)
  /\ UNCHANGED <<server, heard, boot, debounce, throttle, requests, deletion,
                 events>>

TreeFails(r) ==
  /\ tree[r].st # "none"
  /\ Event
  /\ EndTree(r)
  /\ UNCHANGED <<server, heard, list, boot, debounce, throttle, requests,
                 effect, deletion>>

-----------------------------------------------------------------------------
(* Deleting a session from this page.                                      *)

DeleteAsked(s) ==
  /\ Call
  /\ deletion.st = "none" /\ s \in chats
  /\ deletion' = [st |-> "asked", s |-> s]
  /\ UNCHANGED <<server, heard, list, boot, debounce, throttle, requests,
                 effect, tree>>

DeleteAnswered ==
  /\ deletion.st = "asked"
  /\ deletion' = [deletion EXCEPT !.st = "answered"]
  /\ \/ deletion.s \in index /\ version' = version + 1 /\ Deleted(deletion.s)
     \/ UNCHANGED server                      \* gone already, or refused
  /\ UNCHANGED <<heard, list, boot, debounce, throttle, requests, effect, tree,
                 events>>

\* The rows leave the list whether or not the server did as it was asked.
DeleteReturns ==
  /\ deletion.st = "answered"
  /\ LET out == chats \cap ({deletion.s} \cup
                  IF deletion.s \in Roots THEN KidsOf(deletion.s) ELSE {}) IN
     /\ chats' = chats \ out
     /\ current' = IF current \in out THEN None ELSE current
  /\ Follow
  /\ effect' = (effect \/ current' # current)
  /\ deletion' = NoDeletion
  /\ UNCHANGED <<server, heard, count, crossed, boot, debounce, throttle,
                 requests, tree, events>>

-----------------------------------------------------------------------------
Next ==
  \/ IndexChanges \/ ReadAnswered \/ ReadApplied \/ ReadFails
  \/ BootAnswered \/ BootLoads \/ BootFails
  \/ ThrottleFires \/ ChangeHeard \/ DebounceFires \/ Poll
  \/ RefreshesNow \/ FeedReset
  \/ TreeEffect
  \/ \E r \in Roots : TreeAnswered(r) \/ TreeApplied(r) \/ TreeFails(r)
  \/ \E s \in Sessions : Select(s) \/ OpenRefreshes(s) \/ DeleteAsked(s)
  \/ DeleteAnswered \/ DeleteReturns

\* Intervals and timers fire, effects run, and the server answers what it is
\* asked; nobody has to change the index, ask for a refresh or lose a request.
Fairness ==
  /\ WF_vars(Poll) /\ WF_vars(ThrottleFires)
  /\ WF_vars(ReadAnswered) /\ WF_vars(ReadApplied)
  /\ WF_vars(BootAnswered) /\ WF_vars(BootLoads)
  /\ WF_vars(TreeEffect)
  /\ \A r \in Roots : WF_vars(TreeAnswered(r)) /\ WF_vars(TreeApplied(r))
  /\ WF_vars(DeleteAnswered) /\ WF_vars(DeleteReturns)

Spec == Init /\ [][Next]_vars /\ Fairness

-----------------------------------------------------------------------------
TypeOK ==
  /\ index \subseteq Sessions /\ gone \subseteq Sessions \ index
  /\ heard <= version
  /\ chats \subseteq Sessions
  /\ count \in [Roots -> 0..Cardinality(Kids)]
  /\ current \in Sessions \cup {None} /\ seen \in BOOLEAN
  /\ boot.st \in {"none", "asked", "answered"}
  /\ {debounce, timer, trailing, effect} \subseteq BOOLEAN
  /\ trailing => timer
  /\ read.st \in {"none", "asked", "answered"}
  /\ forced \in {"none", "waiting", "reading"}
  /\ forced # "none" => read.st # "none"
  /\ indexCall \in {"none", "read", "trailing", "forced"}
  /\ \A r \in Roots : tree[r].st \in {"none", "asked", "answered"}
                      /\ tree[r].snap \subseteq KidsOf(r)
  /\ deletion.st \in {"none", "asked", "answered"}

\* Every listed child has its root listed: a tree's answer that comes back after
\* its root went is discarded, and a refresh takes a lost root's children along.
\* And the page never goes on with a child it dropped: when a selected child that
\* was listed has left the list, whoever removed it, the selection went with it
\* or its root left too and does not come back.  A session may be selected that
\* was never listed (openSession.ts:115), and a refresh that loadChats overtook
\* may drop a root that exists, which then returns without the child.
ListWellFormed ==
  /\ \A k \in chats \cap Kids : RootOf[k] \in chats
  /\ current \in Kids \ chats /\ seen /\ ~crossed => RootOf[current] \notin chats

\* Once the index and the requests are quiet, the list becomes what the server
\* has, and so does the tree of the session that is open: whatever was shared
\* with a read already answered, lost, or deleted only here is healed.
Converges ==
  <>[](/\ chats \cap Roots = index \cap Roots
       /\ LET r == TreeRoot(current) IN
          {current, r} \subseteq chats => KidsOf(r) \cap (chats \ index) = {}
                                       /\ KidsOf(r) \cap (index \ chats) = {})
=============================================================================
