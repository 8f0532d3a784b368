---------------------------- MODULE VisibleActor ----------------------------
(***************************************************************************)
(* services/chat/visibleActorSubscriptions.ts: the leases panes hold on one  *)
(* actor, the logical channel that serves them all, the recovery after a    *)
(* gap and the replay of the final snapshot to panes that come late.        *)
(*                                                                          *)
(* Entries of different actors share nothing but the topology, so one actor *)
(* is modelled.  A port callback or promise whose captured epoch is stale   *)
(* does nothing; the epoch is therefore kept as two facts of the entry:     *)
(* whether the recovery, and the terminal replay, still in flight are of    *)
(* the current epoch.  A callback the port runs inside subscribe() has the  *)
(* effect it has right after it.                                            *)
(***************************************************************************)
EXTENDS Naturals, FiniteSets

CONSTANTS
    Panes,             \* holders of leases
    MaxAttempt,        \* bound on activation attempts
    None               \* JavaScript null

ASSUME VisibleAssumption ==
    /\ MaxAttempt \in Nat \ {0}
    /\ None \notin Nat

VARIABLES
    topology,   \* what the topology says of this actor
    entry,      \* the entry of this actor; Fresh while it has no listeners
    disposed

vars == <<topology, entry, disposed>>

Attempts == 1..MaxAttempt

Topology == [present : BOOLEAN, attempt : Attempts,
             awaited : BOOLEAN]   \* requiredRevision > revision

Entry == [listeners : SUBSET Panes, needsTerminalReplay : SUBSET Panes,
          subscription : BOOLEAN, recovering : BOOLEAN, needsRecovery : BOOLEAN,
          observedAttempt : Attempts \cup {None},
          terminalAttempt : Attempts \cup {None},
          cursor : Attempts \cup {None},   \* the attempt the cursor is of
          terminalSnapshot : BOOLEAN, terminalRecovery : BOOLEAN,
          recovery : BOOLEAN,   \* recover() of this epoch in flight for a gap
          replay : BOOLEAN,     \* recover() of this epoch in flight for a replay
          failed : BOOLEAN,     \* history: the last port call failed
          cut : BOOLEAN,        \* history: reconnect() came during a replay of
                                \* this attempt
          gap : BOOLEAN,        \* history: a gap was reported, no snapshot since
          fed : SUBSET Panes]   \* history: panes that held a channel or snapshot
                                \* of this attempt

\* Mutant: attempt 0 stands for no attempt.
FreshZeroAttempt == [listeners |-> {}, needsTerminalReplay |-> {},
          subscription |-> FALSE, recovering |-> FALSE, needsRecovery |-> FALSE,
          observedAttempt |-> 0, terminalAttempt |-> None, cursor |-> None,
          terminalSnapshot |-> FALSE, terminalRecovery |-> FALSE,
          recovery |-> FALSE, replay |-> FALSE, failed |-> FALSE, cut |-> FALSE,
          gap |-> FALSE, fed |-> {}]

Fresh == [listeners |-> {}, needsTerminalReplay |-> {},
          subscription |-> FALSE, recovering |-> FALSE, needsRecovery |-> FALSE,
          observedAttempt |-> None, terminalAttempt |-> None, cursor |-> None,
          terminalSnapshot |-> FALSE, terminalRecovery |-> FALSE,
          recovery |-> FALSE, replay |-> FALSE, failed |-> FALSE, cut |-> FALSE,
          gap |-> FALSE, fed |-> {}]

Init ==
    /\ topology \in Topology
    /\ entry = Fresh
    /\ disposed = FALSE

-----------------------------------------------------------------------------
(* The private methods, as functions of the topology t and the entry e.  The *)
(* flag ok says whether the port call they make, if any, succeeds.           *)

AuthorizedAttempt(t) == IF t.present /\ ~t.awaited THEN t.attempt ELSE None

CloseChannel(e) == [e EXCEPT !.subscription = FALSE, !.recovery = FALSE,
                             !.replay = FALSE]

\* open: the epoch moves on even when subscribe() throws.
OpenChannel(e, ok) ==
    [CloseChannel(e) EXCEPT !.subscription = ok, !.failed = ~ok,
                            !.fed = IF ok THEN @ \cup e.listeners ELSE @]

\* beginRecovery, whose caller established the authorization.
BeginRecovery(e, ok) ==
    [CloseChannel(e) EXCEPT !.needsRecovery = TRUE, !.recovering = ok,
                            !.recovery = ok, !.failed = ~ok]

\* replayTerminal.
ReplayTerminal(t, e, ok) ==
    CASE \/ AuthorizedAttempt(t) = None
         \/ e.terminalAttempt # AuthorizedAttempt(t)
         \/ e.needsTerminalReplay = {} -> e
      [] OTHER ->
         IF e.terminalSnapshot THEN [e EXCEPT !.needsTerminalReplay = {}]
         ELSE IF e.terminalRecovery THEN e
         ELSE [e EXCEPT !.terminalRecovery = ok, !.replay = ok, !.failed = ~ok]

\* Mutant: losing authorization leaves the channel open.
UnauthorizedKeepsChannel(t, e) ==
    LET c == [e EXCEPT !.terminalSnapshot = FALSE, !.terminalRecovery = FALSE,
                       !.cut = FALSE,
                       !.recovering = FALSE, !.needsRecovery = @ \/ e.recovering,
                       !.recovery = FALSE, !.replay = FALSE]
    IN IF t.present THEN c
       ELSE [c EXCEPT !.cursor = None, !.observedAttempt = None,
                      !.terminalAttempt = None, !.needsRecovery = FALSE,
                      !.gap = FALSE, !.fed = {}]

\* Mutant: the interrupted recovery still counts as running.
UnauthorizedKeepsRecovering(t, e) ==
    LET c == [CloseChannel(e) EXCEPT !.terminalSnapshot = FALSE, !.cut = FALSE,
                                     !.terminalRecovery = FALSE]
    IN IF t.present THEN c
       ELSE [c EXCEPT !.cursor = None, !.observedAttempt = None,
                      !.terminalAttempt = None, !.needsRecovery = FALSE,
                      !.recovering = FALSE, !.gap = FALSE, !.fed = {}]

\* sync, first part: authorization is lost, or the actor left the tree.
Unauthorized(t, e) ==
    LET c == [CloseChannel(e) EXCEPT
                !.terminalSnapshot = FALSE, !.terminalRecovery = FALSE,
                !.recovering = FALSE, !.cut = FALSE,
                !.needsRecovery = @ \/ e.recovering]
    IN IF t.present THEN c
       ELSE [c EXCEPT !.cursor = None, !.observedAttempt = None,
                      !.terminalAttempt = None, !.needsRecovery = FALSE,
                      !.gap = FALSE, !.fed = {}]

\* sync, second part: a new activation attempt starts from nothing.
Observe(t, e) ==
    IF e.observedAttempt \in {None, t.attempt}
    THEN [e EXCEPT !.observedAttempt = t.attempt]
    ELSE [CloseChannel(e) EXCEPT
            !.observedAttempt = t.attempt, !.cursor = None,
            !.terminalAttempt = None, !.terminalSnapshot = FALSE,
            !.terminalRecovery = FALSE, !.needsTerminalReplay = {},
            !.needsRecovery = FALSE, !.recovering = FALSE, !.gap = FALSE,
            !.cut = FALSE, !.fed = {}]

\* sync, third part: resume whatever the attempt needs.
Resume(t, e, ok) ==
    CASE e.recovering -> e
      [] ~e.recovering /\ e.terminalAttempt = t.attempt -> ReplayTerminal(t, e, ok)
      [] ~e.recovering /\ e.terminalAttempt # t.attempt /\ e.needsRecovery ->
            BeginRecovery(e, ok)
      [] OTHER -> IF e.subscription THEN e ELSE OpenChannel(e, ok)

Sync(t, e, ok) ==
    CASE e.listeners = {} -> e
      [] e.listeners # {} /\ AuthorizedAttempt(t) = None -> Unauthorized(t, e)
      [] OTHER -> Resume(t, Observe(t, e), ok)

\* acquire: a pane that comes after the end gets the durable final snapshot.
Acquired(t, e, p, ok, okReplay) ==
    LET s == Sync(t, [e EXCEPT !.listeners = @ \cup {p},
                               !.fed = IF e.subscription THEN @ \cup {p} ELSE @], ok)
    IN IF s.terminalAttempt # None /\ s.terminalAttempt = AuthorizedAttempt(t)
       THEN ReplayTerminal(t, [s EXCEPT !.needsTerminalReplay = @ \cup {p}], okReplay)
       ELSE s

-----------------------------------------------------------------------------
(* The public methods.                                                      *)

Acquire(p) ==
    /\ ~disposed
    /\ p \notin entry.listeners
    /\ \E ok, okReplay \in BOOLEAN :
         entry' = Acquired(topology, entry, p, ok, okReplay)
    /\ UNCHANGED <<topology, disposed>>

\* The lease's close(); the last one deletes the entry.
Release(p) ==
    /\ p \in entry.listeners
    /\ entry' = IF entry.listeners = {p} THEN Fresh
                ELSE [entry EXCEPT !.listeners = @ \ {p},
                                   !.needsTerminalReplay = @ \ {p},
                                   !.fed = @ \ {p}]
    /\ UNCHANGED <<topology, disposed>>

\* The authority never lowers the attempt of an actor; an update that only
\* concerns other actors still calls sync.
UpdateTopology ==
    /\ ~disposed
    /\ topology' \in Topology
    /\ topology'.attempt >= topology.attempt
    /\ \E ok \in BOOLEAN : entry' = Sync(topology', entry, ok)
    /\ UNCHANGED disposed

\* Closing the channel moves the epoch on, which a replay in flight needs to
\* deliver its snapshot and to take its flag back.
Reconnect ==
    /\ ~disposed /\ entry.listeners # {} /\ ~entry.recovering
    /\ LET c == [CloseChannel(entry) EXCEPT !.cut = @ \/ entry.replay] IN
       \E ok \in BOOLEAN :
         entry' = IF entry.needsRecovery /\ AuthorizedAttempt(topology) # None
                  THEN BeginRecovery(c, ok)
                  ELSE IF entry.needsRecovery THEN c
                  ELSE Sync(topology, c, ok)
    /\ UNCHANGED <<topology, disposed>>

Retry ==
    /\ ~disposed /\ entry.listeners # {} /\ ~entry.recovering
    /\ \E ok \in BOOLEAN :
         entry' = IF entry.needsRecovery /\ AuthorizedAttempt(topology) # None
                  THEN BeginRecovery(entry, ok)
                  ELSE IF entry.needsRecovery THEN entry
                  ELSE Sync(topology, entry, ok)
    /\ UNCHANGED <<topology, disposed>>

Dispose ==
    /\ ~disposed
    /\ disposed' = TRUE
    /\ entry' = Fresh
    /\ UNCHANGED topology

-----------------------------------------------------------------------------
(* What the port reports to the current epoch.                              *)

OnEvent ==
    /\ entry.subscription
    /\ entry' = [entry EXCEPT !.cursor = entry.observedAttempt]
    /\ UNCHANGED <<topology, disposed>>

OnGap ==
    /\ entry.subscription
    /\ \E ok \in BOOLEAN :
         entry' = BeginRecovery([entry EXCEPT !.gap = TRUE], ok)
    /\ UNCHANGED <<topology, disposed>>

OnTerminal ==
    /\ entry.subscription
    /\ entry' = CloseChannel([entry EXCEPT !.terminalAttempt = entry.observedAttempt,
                                           !.needsRecovery = FALSE])
    /\ UNCHANGED <<topology, disposed>>

\* The snapshot is published; a terminal one ends the attempt.
RecoverySucceeds ==
    /\ entry.recovery
    /\ \E terminal, ok \in BOOLEAN :
         LET told == [entry EXCEPT !.recovering = FALSE, !.recovery = FALSE,
                                   !.needsRecovery = FALSE, !.gap = FALSE,
                                   !.cursor = entry.observedAttempt,
                                   !.fed = entry.listeners,
                                   !.terminalAttempt = IF terminal
                                                       THEN entry.observedAttempt
                                                       ELSE @]
         IN entry' = Sync(topology, told, ok)
    /\ UNCHANGED <<topology, disposed>>

\* Mutant: the failed recovery is forgotten.
RecoveryFailsForgotten ==
    /\ entry.recovery
    /\ entry' = [entry EXCEPT !.recovering = FALSE, !.recovery = FALSE,
                              !.needsRecovery = FALSE, !.failed = TRUE]
    /\ UNCHANGED <<topology, disposed>>

\* The channel stays closed until retry or reconnect.
RecoveryFails ==
    /\ entry.recovery
    /\ entry' = [entry EXCEPT !.recovering = FALSE, !.recovery = FALSE,
                              !.failed = TRUE]
    /\ UNCHANGED <<topology, disposed>>

ReplaySucceeds ==
    /\ entry.replay
    /\ entry' = [entry EXCEPT !.replay = FALSE, !.terminalRecovery = FALSE,
                              !.terminalSnapshot = TRUE,
                              !.needsTerminalReplay = {}]
    /\ UNCHANGED <<topology, disposed>>

\* Mutant: the flag that a replay is running is left behind.
ReplayFailsStuck ==
    /\ entry.replay
    /\ entry' = [entry EXCEPT !.replay = FALSE, !.failed = TRUE]
    /\ UNCHANGED <<topology, disposed>>

ReplayFails ==
    /\ entry.replay
    /\ entry' = [entry EXCEPT !.replay = FALSE, !.terminalRecovery = FALSE,
                              !.failed = TRUE]
    /\ UNCHANGED <<topology, disposed>>

-----------------------------------------------------------------------------
Next ==
    \/ \E p \in Panes : Acquire(p) \/ Release(p)
    \/ UpdateTopology
    \/ Reconnect
    \/ Retry
    \/ Dispose
    \/ OnEvent
    \/ OnGap
    \/ OnTerminal
    \/ RecoverySucceeds
    \/ RecoveryFails
    \/ ReplaySucceeds
    \/ ReplayFails

Spec == Init /\ [][Next]_vars

\* Promises settle.  Nobody is bound to call retry() or reconnect().
Fairness ==
    /\ WF_vars(RecoverySucceeds \/ RecoveryFails)
    /\ WF_vars(ReplaySucceeds \/ ReplayFails)

FairSpec == Spec /\ Fairness

-----------------------------------------------------------------------------
(* Properties.                                                              *)

TypeOK ==
    /\ topology \in Topology
    /\ entry \in Entry
    /\ disposed \in BOOLEAN

\* Nothing is open or asked for on behalf of an actor the topology does not
\* authorize now, or for another attempt than the authorized one, and an entry
\* nobody holds is gone (visibleActorSubscriptions.ts:170-176).
AuthorizedOnly ==
    entry.subscription \/ entry.recovery \/ entry.replay =>
        /\ entry.listeners # {}
        /\ entry.observedAttempt = topology.attempt
        /\ AuthorizedAttempt(topology) # None

\* Panes that wait for the final snapshot and were never shown the attempt.  (A
\* pane whose actor left the tree and came back keeps its request although the
\* new channel serves it.)
Waiting == entry.needsTerminalReplay \ entry.fed

\* A held, authorized lease is being served, or recovered, or has its final
\* snapshot, or a port call failed and the next retry reaches the port again;
\* except after a reconnect() during the replay, see PendingForRetry.
Served ==
    entry.listeners # {} /\ AuthorizedAttempt(topology) # None =>
        \/ entry.subscription
        \/ entry.recovery
        \/ entry.replay
        \/ entry.failed /\ ~entry.recovering /\ ~entry.terminalRecovery
        \/ entry.terminalAttempt = topology.attempt /\ Waiting = {}
        \/ entry.cut

\* What visibleActorSubscriptions.ts:311 says of a replay that does not arrive,
\* "Keep interested listeners pending for an explicit retry": a pane that waits
\* for the final snapshot has its replay under way, or a retry() would start it.
PendingForRetry ==
    /\ AuthorizedAttempt(topology) # None
    /\ entry.terminalAttempt = topology.attempt
    /\ Waiting # {}
    => entry.replay \/ ~entry.terminalRecovery

\* A channel is open only for content that may still come: never across a
\* reported gap before a snapshot covered it (visibleActorSubscriptions.ts:282-283),
\* never with a cursor of another attempt, and "a terminal channel is closed once
\* its content is durable" (visibleActorSubscriptions.ts:95).
ChannelSound ==
    /\ entry.subscription => ~entry.gap
    /\ entry.cursor # None => entry.cursor = entry.observedAttempt
    /\ entry.terminalAttempt # None => ~entry.subscription

\* While the actor stays authorized, a pane that waits for the final snapshot
\* gets it, or the port failed and the next retry() asks again; a reconnect()
\* during the replay excepted (visibleActorSubscriptions.ts:310-314).
TerminalDelivered ==
    <>[](AuthorizedAttempt(topology) # None) =>
        \A p \in Panes :
            (p \in Waiting) ~> (\/ p \notin Waiting
                                \/ entry.failed /\ ~entry.terminalRecovery
                                \/ entry.cut)
=============================================================================
