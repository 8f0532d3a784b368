---------------------------- MODULE Conversation ----------------------------
(***************************************************************************)
(* One session's conversation in one pane: what the page shows while the   *)
(* history is read again, cleared, or catches up with a finished answer.   *)
(*                                                                         *)
(*   chatSessionSlice.ts      loadChatHistory and its read token, the      *)
(*                            clear operations, reconcileOpenSession       *)
(*   conversationClear.ts     the preflight, the POST and the readback     *)
(*   completedAnswerHandoff*  answers that finished before the history     *)
(*                            has them, and the leases of their runs       *)
(*   useChat.ts               how a run settles, and what its pane shows   *)
(*   accountFeed.ts           session_cleared and the other changes        *)
(*                                                                         *)
(* The server keeps a conversation that is cleared as a whole; a turn is a *)
(* user message and, once it is saved, its answer.  Reads answer late and  *)
(* in any order, requests fail, feed events are delayed; how often a read  *)
(* is tried again is left open.                                            *)
(***************************************************************************)
EXTENDS Naturals, FiniteSets

CONSTANTS
  MaxClears,  \* bound: clears the server performs
  MaxTurns    \* bound: turns of a generation and clears before it

ASSUME BoundsAssumption == MaxClears \in Nat /\ MaxTurns \in Nat

VARIABLES
  srv,      \* server: the generation, its turns, the saved ones, the run
  feed,     \* session_cleared events on their way to the page
  chat,     \* the conversation the store shows
  reads,    \* history reads in flight whose answer still counts
  clear,    \* conversationClears and the step its operation is at
  intent,   \* replacementRequired, deferredClears, acknowledgedClears
  timer,    \* reconcileTimers: whether one runs
  records,  \* completed answers the registry holds
  pane      \* the run this pane follows and its lease

vars == <<srv, feed, chat, reads, clear, intent, timer, records, pane>>

Empty(g) == [gen |-> g, turns |-> 0, saved |-> {}]
Snapshot == [gen |-> srv.gen, turns |-> srv.turns, saved |-> srv.saved]

Read(by) == [by |-> by, st |-> "asked", after |-> FALSE, snap |-> Empty(0)]
\* These reads are "monotonic"; the one after a send is not retried.
Monotonic(r) == r.by \in {"sent", "reconcile", "settle"}
Retried(r) == r.by \in {"reconcile", "settle"}

\* `lapsed` only records that the registry dropped the pane's answer unconfirmed.
NoPane == [st |-> "idle", answer |-> <<0, 0>>, valid |-> FALSE,
           confirmed |-> FALSE, lapsed |-> FALSE]

Init ==
  /\ srv = [gen |-> 0, turns |-> 0, saved |-> {}, run |-> FALSE,
            post |-> FALSE, own |-> 0]
  /\ feed = 0
  /\ chat = Empty(0)
  /\ reads = {}
  /\ clear = [step |-> "none", error |-> "none", confirmed |-> FALSE]
  /\ intent = [required |-> FALSE, deferred |-> FALSE, acknowledged |-> FALSE]
  /\ timer = FALSE
  /\ records = {}
  /\ pane = NoPane

Busy == clear.step # "none"

-----------------------------------------------------------------------------
(* The registry of completed answers.                                      *)

\* projectCompletedAnswers confirms an answer when its turn is saved in `c`.
ConfirmedBy(a, c) == a[1] = c.gen /\ a[2] \in c.saved

\* Mutants: an answer is dropped as soon as its question is not shown, and a
\* lease that is not told.
ReconciledWithAnchors(c) == {a \in records : ~ConfirmedBy(a, c) /\ a[2] <= c.turns}
ReconciledPaneUntold(c) == pane

\* reconcileCompletedAnswers: what `c` has is dropped, its lease confirmed.
Reconciled(c) == {a \in records : ~ConfirmedBy(a, c)}
ReconciledPane(c) ==
  IF pane.answer \in records /\ ConfirmedBy(pane.answer, c)
    THEN [pane EXCEPT !.confirmed = TRUE] ELSE pane

\* invalidateCompletedAnswers without a truncate: every record and every lease.
Invalidated == /\ records' = {}
               /\ pane' = [pane EXCEPT !.valid = FALSE]

-----------------------------------------------------------------------------
(* The server, and the feed.                                               *)

\* A run that ends is saved or not; the completion the pane sees may come first.
RunEnds ==
  /\ srv.run
  /\ \E saved \in {srv.saved, srv.saved \cup {srv.turns}} :
       srv' = [srv EXCEPT !.run = FALSE, !.saved = saved]
  /\ UNCHANGED <<feed, chat, reads, clear, intent, timer, records, pane>>

CanClear == ~srv.run /\ srv.gen < MaxClears
Erased == [srv EXCEPT !.gen = @ + 1, !.turns = 0, !.saved = {}]

OtherClears ==
  /\ CanClear
  /\ srv' = Erased
  /\ feed' = feed + 1
  /\ UNCHANGED <<chat, reads, clear, intent, timer, records, pane>>

OtherSends ==
  /\ ~srv.run /\ srv.gen + srv.turns < MaxTurns
  /\ srv' = [srv EXCEPT !.turns = @ + 1, !.run = TRUE]
  /\ UNCHANGED <<feed, chat, reads, clear, intent, timer, records, pane>>

-----------------------------------------------------------------------------
(* Reading the history.                                                    *)

\* Mutant: another read does not take the token away.
RetiredKeepsReads(rs) == rs

\* Each read is the current one until another starts or the token is taken
\* away; then nothing of it is applied when it returns, and whoever awaits it
\* goes on at some time.
Retired(rs) == {}
Start(by) == reads' = Retired(reads) \cup {Read(by)}
Becomes(r, new) == reads' = (reads \ {r}) \cup {new}

\* loadChatHistory refuses while a clear is busy.
Load(by) == IF Busy THEN UNCHANGED reads ELSE Start(by)

\* A verification asks for the session and then for the history; `after` says
\* whether both have shown a cleared, idle conversation.
ServerAnswers(r) ==
  LET first == r.by = "verify" /\ r.st = "asked" IN
  /\ r.st \in {"asked", "half"}
  /\ Becomes(r, [r EXCEPT !.st = IF first THEN "half" ELSE "answered",
                          !.snap = IF first THEN @ ELSE Snapshot,
                          !.after = r.by = "verify" /\ srv.turns = 0
                                    /\ IF first THEN ~srv.run ELSE @])
  /\ UNCHANGED <<srv, feed, chat, clear, intent, timer, records, pane>>

Ready(c) == c.turns \in c.saved
Messages(c) == c.turns + Cardinality(c.saved)

\* The monotonic mode keeps what is shown unless the answer is longer, or of
\* the same length and ends in another message.
ShouldReplace(c) ==
  \/ Messages(c) > Messages(chat)
  \/ /\ Messages(c) = Messages(chat) /\ Messages(c) > 0
     /\ <<c.gen, c.turns, Ready(c)>> # <<chat.gen, chat.turns, Ready(chat)>>

Show(c) == /\ chat' = c
           /\ records' = Reconciled(c)
           /\ pane' = ReconciledPane(c)

\* A replacement that is owed makes every read ask for the session as well.
AsksDetail(r) ==
  /\ r.st = "answered" /\ r.by # "verify"
  /\ intent.required
  /\ Becomes(r, [r EXCEPT !.st = "detailed", !.after = TRUE])
  /\ UNCHANGED <<srv, feed, chat, clear, intent, timer, records, pane>>

Complete(r) ==
  /\ r.by # "verify"
  /\ r.st = (IF intent.required THEN "detailed" ELSE "answered")

\* waitForAssistant: the answer of the last turn is not there yet.
WaitsForAssistant(r) ==
  /\ Complete(r) /\ Retried(r) /\ ~Ready(r.snap)
  /\ Becomes(r, Read(r.by))
  /\ UNCHANGED <<srv, feed, chat, clear, intent, timer, records, pane>>

Applied(r) ==
  /\ Complete(r)
  /\ reads' = reads \ {r}
  /\ Show(IF Monotonic(r) /\ ~r.after /\ ~ShouldReplace(r.snap) THEN chat ELSE r.snap)
  /\ intent' = [intent EXCEPT !.required = @ /\ ~r.after]
  /\ UNCHANGED <<srv, feed, clear, timer>>

\* One of its requests fails.
ReadFails(r) ==
  /\ r.st \in {"asked", "answered"} /\ r.by # "verify"
  /\ \/ reads' = reads \ {r}
     \/ Retried(r) /\ Becomes(r, Read(r.by))
  /\ UNCHANGED <<srv, feed, chat, clear, intent, timer, records, pane>>

-----------------------------------------------------------------------------
(* Clearing the conversation.                                              *)

Uncertain == clear.error \in {"unknown", "readback_failed"}

\* clearState once an operation is over: a reconciliation that had to wait
\* for it is made now.
Ends(error, confirmed) ==
  /\ clear' = [step |-> "none", error |-> error, confirmed |-> confirmed]
  /\ IF intent.deferred THEN Start("clear") /\ timer' = FALSE
                        ELSE reads' = Retired(reads) /\ UNCHANGED timer

\* clearConversation; an uncertain outcome stays locked.
StartClear ==
  /\ ~Busy /\ ~Uncertain
  /\ clear' = [step |-> "preflight", error |-> "none", confirmed |-> FALSE]
  /\ intent' = [intent EXCEPT !.acknowledged = FALSE]
  /\ reads' = Retired(reads)
  /\ UNCHANGED <<srv, feed, chat, timer, records, pane>>

\* The session runs, waits for an approval, or could not be read.
PreflightRefuses ==
  /\ clear.step = "preflight"
  /\ Ends("refused", FALSE)
  /\ intent' = [intent EXCEPT !.deferred = FALSE]
  /\ UNCHANGED <<srv, feed, chat, records, pane>>

Posts ==
  /\ clear.step = "preflight" /\ ~srv.run
  /\ clear' = [clear EXCEPT !.step = "posted"]
  /\ srv' = [srv EXCEPT !.post = TRUE, !.own = 0]
  /\ UNCHANGED <<feed, chat, reads, intent, timer, records, pane>>

ServerClears ==
  /\ srv.post /\ CanClear
  /\ srv' = [Erased EXCEPT !.post = FALSE, !.own = srv.gen + 1]
  /\ feed' = feed + 1
  /\ UNCHANGED <<chat, reads, clear, intent, timer, records, pane>>

\* The receipt: verifyConversationClear follows at once.
Acknowledged ==
  /\ clear.step = "posted" /\ srv.own # 0
  /\ clear' = [clear EXCEPT !.step = "verifying"]
  /\ intent' = [intent EXCEPT !.acknowledged = TRUE]
  /\ Start("verify")
  /\ UNCHANGED <<srv, feed, chat, timer, records, pane>>

PostRefused ==
  /\ clear.step = "posted" /\ srv.post
  /\ srv' = [srv EXCEPT !.post = FALSE]
  /\ Ends("refused", FALSE)
  /\ intent' = [intent EXCEPT !.deferred = FALSE]
  /\ UNCHANGED <<feed, chat, records, pane>>

\* The write may have happened, or may happen yet.
PostUncertain ==
  /\ clear.step = "posted"
  /\ Ends("unknown", FALSE)
  /\ intent' = [intent EXCEPT !.deferred = FALSE]
  /\ UNCHANGED <<srv, feed, chat, records, pane>>

\* The user asks to verify what is uncertain.
StartVerify ==
  /\ ~Busy /\ Uncertain
  /\ clear' = [clear EXCEPT !.step = "verifying"]
  /\ Start("verify")
  /\ UNCHANGED <<srv, feed, chat, intent, timer, records, pane>>

Verified(r) ==
  LET sure == intent.acknowledged /\ clear.error # "unknown" IN
  /\ r.by = "verify" /\ r.st = "answered" /\ r.after
  /\ chat' = r.snap
  /\ Invalidated
  /\ Ends(IF sure THEN "none" ELSE "unknown", sure)
  /\ intent' = [intent EXCEPT !.deferred = FALSE, !.acknowledged = @ /\ ~sure]
  /\ UNCHANGED <<srv, feed>>

\* A request failed, the answers show no cleared conversation, or an event
\* retired the read.
VerifyFails ==
  /\ clear.step = "verifying"
  /\ Ends(IF clear.error = "unknown" THEN "unknown" ELSE "readback_failed", FALSE)
  /\ intent' = [intent EXCEPT !.deferred = FALSE]
  /\ UNCHANGED <<srv, feed, chat, records, pane>>

\* refreshConversationClear: the read starts before the state turns busy.
StartRefresh ==
  /\ ~Busy /\ clear.error = "refused"
  /\ clear' = [clear EXCEPT !.step = "refreshing"]
  /\ Start("refresh")
  /\ UNCHANGED <<srv, feed, chat, intent, timer, records, pane>>

\* Mutant: the state is set without clearState.
RefreshEndsPlainly ==
  /\ clear.step = "refreshing" /\ \A r \in reads : r.by # "refresh"
  /\ clear' = [clear EXCEPT !.step = "none"]
  /\ UNCHANGED <<srv, feed, chat, reads, intent, timer, records, pane>>

RefreshEnds ==
  /\ clear.step = "refreshing" /\ \A r \in reads : r.by # "refresh"
  /\ Ends(clear.error, FALSE)
  /\ intent' = [intent EXCEPT !.deferred = FALSE]
  /\ UNCHANGED <<srv, feed, chat, records, pane>>

Dismiss ==
  /\ ~Busy /\ ~Uncertain /\ (clear.error # "none" \/ clear.confirmed)
  /\ clear' = [step |-> "none", error |-> "none", confirmed |-> FALSE]
  /\ UNCHANGED <<srv, feed, chat, reads, intent, timer, records, pane>>

-----------------------------------------------------------------------------
(* The account feed.                                                       *)

\* Mutant: a deferred reconciliation fences nothing now.
EventClearedFencesLater ==
  /\ feed > 0 /\ feed' = feed - 1
  /\ Invalidated
  /\ timer' = FALSE
  /\ intent' = [intent EXCEPT !.required = TRUE, !.deferred = Busy]
  /\ IF Busy THEN UNCHANGED reads ELSE Start("clear")
  /\ UNCHANGED <<srv, chat, clear>>

\* reconcileClear: work known now is fenced, and a replacement is owed.
EventCleared ==
  /\ feed > 0 /\ feed' = feed - 1
  /\ Invalidated
  /\ timer' = FALSE
  /\ intent' = [intent EXCEPT !.required = TRUE, !.deferred = Busy]
  /\ IF Busy THEN reads' = Retired(reads) ELSE Start("clear")
  /\ UNCHANGED <<srv, chat, clear>>

\* reconcileOpenSession, for the open session: on a change, or a reconnect.
EventChanged ==
  /\ ~timer /\ timer' = TRUE
  /\ pane.st # "away"
  /\ UNCHANGED <<srv, feed, chat, reads, clear, intent, records, pane>>

TimerFires ==
  /\ timer /\ timer' = FALSE
  /\ IF pane.st = "away" THEN UNCHANGED reads ELSE Load("reconcile")
  /\ UNCHANGED <<srv, feed, chat, clear, intent, records, pane>>

-----------------------------------------------------------------------------
(* The pane.                                                               *)

\* retainTerminalAcrossUnmount, then the lease is released.
Leaves == records' = IF pane.st \in {"settling", "retained"} THEN Reconciled(chat) ELSE records

\* runStream leaves the last run and takes a lease for the new one.
RunStream(answer) ==
  /\ Leaves
  /\ pane' = [NoPane EXCEPT !.st = "streaming", !.valid = TRUE, !.answer = answer]

\* A message was accepted: its run is followed, and the history is read.  send()
\* knows of no clear: while one is busy its dialog cannot be dismissed and covers
\* the composer.
Sends ==
  /\ ~Busy /\ pane.st \in {"idle", "retained"}
  /\ ~srv.run /\ srv.gen + srv.turns < MaxTurns
  /\ srv' = [srv EXCEPT !.turns = @ + 1, !.run = TRUE]
  /\ RunStream(<<srv.gen, srv.turns + 1>>)
  /\ Load("sent")
  /\ UNCHANGED <<feed, chat, clear, intent, timer>>

\* settleCompleted: the answer is handed to the registry, then the history is
\* awaited.
Completes ==
  /\ pane.st = "streaming" /\ pane.valid
  /\ pane' = [pane EXCEPT !.st = "settling"]
  /\ records' = records \cup {pane.answer}
  /\ Load("settle")
  /\ UNCHANGED <<srv, feed, chat, clear, intent, timer>>

\* The read is over, or was discarded: the pane keeps its own text unless the
\* history has the answer.
Settles ==
  LET p == ReconciledPane(chat) IN
  /\ pane.st = "settling" /\ pane.valid
  /\ \A r \in reads : r.by # "settle"
  /\ records' = Reconciled(chat)
  /\ pane' = IF p.confirmed THEN NoPane ELSE [p EXCEPT !.st = "retained"]
  /\ UNCHANGED <<srv, feed, chat, reads, clear, intent, timer>>

\* Effects: a run whose lease was revoked stops, a tail that was confirmed goes.
PaneRetires ==
  /\ \/ pane.st \in {"streaming", "settling", "retained"} /\ ~pane.valid
     \/ pane.st = "retained" /\ pane.confirmed
  /\ pane' = NoPane
  /\ UNCHANGED <<srv, feed, chat, reads, clear, intent, timer, records>>

RegistryEffect ==
  /\ records # Reconciled(chat)
  /\ Show(chat)
  /\ UNCHANGED <<srv, feed, reads, clear, intent, timer>>

\* An answer is kept for half an hour, and 128 of them.
Expires ==
  /\ \E a \in records : /\ records' = records \ {a}
                        /\ pane' = [pane EXCEPT !.lapsed = @ \/ a = pane.answer]
  /\ UNCHANGED <<srv, feed, chat, reads, clear, intent, timer>>

Away ==
  /\ pane.st # "away"
  /\ Leaves
  /\ pane' = [NoPane EXCEPT !.st = "away"]
  /\ UNCHANGED <<srv, feed, chat, reads, clear, intent, timer>>

\* select, and loadChatHistory in its default mode.
Back ==
  /\ pane.st = "away"
  /\ pane' = NoPane
  /\ Load("open")
  /\ UNCHANGED <<srv, feed, chat, clear, intent, timer, records>>

Next ==
  \/ RunEnds \/ OtherClears \/ OtherSends
  \/ \E r \in reads : \/ ServerAnswers(r) \/ AsksDetail(r) \/ WaitsForAssistant(r)
                      \/ Applied(r) \/ ReadFails(r) \/ Verified(r)
  \/ StartClear \/ PreflightRefuses \/ Posts \/ ServerClears \/ Acknowledged
  \/ PostRefused \/ PostUncertain \/ StartVerify \/ VerifyFails \/ StartRefresh \/ RefreshEnds \/ Dismiss
  \/ EventCleared \/ EventChanged \/ TimerFires
  \/ Sends \/ Completes \/ Settles \/ PaneRetires \/ RegistryEffect \/ Expires
  \/ Away \/ Back

Spec == Init /\ [][Next]_vars

-----------------------------------------------------------------------------
History == [gen : 0..MaxClears, turns : 0..MaxTurns, saved : SUBSET (1..MaxTurns)]

TypeOK ==
  /\ Snapshot \in History /\ chat \in History
  /\ \A r \in reads : r.snap \in History
  /\ reads # {} => \E r \in reads : reads = {r}
  /\ clear.step \in {"none", "preflight", "posted", "verifying", "refreshing"}
  /\ clear.error \in {"none", "refused", "unknown", "readback_failed"}
  /\ intent \in [required : BOOLEAN, deferred : BOOLEAN, acknowledged : BOOLEAN]
  /\ timer \in BOOLEAN
  /\ records \subseteq (0..MaxClears) \X (1..MaxTurns)
  /\ pane.st \in {"away", "idle", "streaming", "settling", "retained"}
  /\ intent.deferred => Busy /\ intent.required

\* A clear is dealt with honestly.  One the page was told of is never forgotten:
\* until the conversation it shows is at least as new, every read it makes
\* replaces it.  And "confirmed" is only said of a request the server
\* acknowledged and of a conversation that shows it.
ClearIsHonest ==
  /\ chat.gen < srv.gen - feed => intent.required
  /\ clear.confirmed => srv.own # 0 /\ chat.gen >= srv.own

\* What the pane shows of its own answer, besides the history.
OwnText(a) ==
  /\ pane.st \in {"settling", "retained"} /\ pane.answer = a /\ pane.valid
  /\ ~pane.confirmed /\ ~(a \in records /\ ConfirmedBy(a, chat))

\* The history never brings an answer the pane still shows as its own text, as
\* long as the registry has not dropped it for its age or its number; then the
\* text stays until the pane leaves it.
AnswerOnce == ConfirmedBy(pane.answer, chat) /\ OwnText(pane.answer) => pane.lapsed

\* An answer that was handed over stays until the history has it, whatever is
\* read, sent, left or settled meanwhile; only a clear the page learns of, a
\* verified one, or its age withdraws it.
Held(a) == a \in records \/ ConfirmedBy(a, chat)
AnswerStays ==
  [][\A t \in 1..MaxTurns : LET a == <<chat.gen, t>> IN
       Held(a) /\ chat'.gen = chat.gen => Held(a)' \/ EventCleared \/ Expires]_vars

\* What the store shows never goes back: not to a conversation that was
\* cleared, and not to fewer messages of the same one.
NeverBackwards ==
  [][\/ chat'.gen > chat.gen
     \/ /\ chat'.gen = chat.gen
        /\ chat'.turns >= chat.turns /\ chat.saved \subseteq chat'.saved]_vars
=============================================================================
