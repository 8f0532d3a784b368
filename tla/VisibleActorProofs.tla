------------------------- MODULE VisibleActorProofs -------------------------
(***************************************************************************)
(* VisibleActor, for any panes, any number of activation attempts and any   *)
(* topology: its types, that nothing is open without authorization, that a  *)
(* channel is sound, and that every held lease is served unless reconnect()  *)
(* came during its replay.                                                  *)
(*                                                                          *)
(* sync() runs after the topology changed, so what it needs of an entry may *)
(* not mention the topology: Consistent is that part of the invariant, and  *)
(* sync() makes the rest (InScope, ServedIn) true from it.                  *)
(***************************************************************************)
EXTENDS VisibleActor, TLAPS

Busy(e) == e.subscription \/ e.recovery \/ e.replay

\* What the fields of an entry owe each other, whatever the topology says.
Consistent(e) ==
    /\ e \in Entry
    /\ Busy(e) => e.listeners # {} /\ e.observedAttempt # None
    /\ e.recovering <=> e.recovery
    /\ e.recovering => e.needsRecovery
    /\ e.gap => e.needsRecovery
    /\ e.needsRecovery => ~e.subscription /\ e.terminalAttempt = None
    /\ e.terminalAttempt # None => ~e.subscription
    /\ e.replay => e.terminalAttempt # None /\ e.terminalRecovery
    /\ e.cursor \in {None, e.observedAttempt}
    /\ e.terminalAttempt \in {None, e.observedAttempt}
    /\ e.needsTerminalReplay \subseteq e.listeners
    /\ e.subscription => e.listeners \subseteq e.fed
    /\ e.terminalRecovery => e.replay \/ e.cut

\* What is open or asked for is what the topology authorizes, and a held entry
\* has seen the authorized attempt.
InScope(t, e) ==
    /\ Busy(e) => AuthorizedAttempt(t) # None
    /\ e.listeners # {} /\ AuthorizedAttempt(t) # None => e.observedAttempt = t.attempt

ServedIn(t, e) ==
    e.listeners # {} /\ AuthorizedAttempt(t) # None =>
        \/ Busy(e)
        \/ e.failed /\ ~e.recovering /\ ~e.terminalRecovery
        \/ e.terminalAttempt = t.attempt /\ e.needsTerminalReplay \subseteq e.fed
        \/ e.cut

VisibleInv ==
    /\ topology \in Topology /\ disposed \in BOOLEAN
    /\ Consistent(entry)
    /\ InScope(topology, entry)
    /\ ServedIn(topology, entry)

Fits(t, e) == Consistent(e) /\ InScope(t, e) /\ ServedIn(t, e)

-----------------------------------------------------------------------------
(* The private methods.                                                     *)

LEMMA Attempted ==
  ASSUME NEW t \in Topology
  PROVE  /\ t.attempt \in Attempts /\ t.attempt # None
         /\ AuthorizedAttempt(t) \in {None, t.attempt}
  BY VisibleAssumption DEF Topology, Attempts, AuthorizedAttempt

LEMMA Closed ==
  ASSUME NEW e, Consistent(e), ~e.recovering
  PROVE  LET c == [CloseChannel(e) EXCEPT !.cut = @ \/ e.replay]
         IN  Consistent(c) /\ ~Busy(c)
  BY VisibleAssumption DEF Consistent, Busy, CloseChannel, Entry

LEMMA Opened ==
  ASSUME NEW t \in Topology, NEW e, Consistent(e), NEW ok \in BOOLEAN,
         AuthorizedAttempt(t) # None, e.observedAttempt = t.attempt,
         e.listeners # {}, ~e.needsRecovery, e.terminalAttempt = None
  PROVE  Fits(t, OpenChannel(e, ok))
  BY Attempted, VisibleAssumption
     DEF Fits, InScope, ServedIn, Consistent, Busy, OpenChannel, CloseChannel, Entry

LEMMA Begun ==
  ASSUME NEW t \in Topology, NEW e, Consistent(e), NEW ok \in BOOLEAN,
         AuthorizedAttempt(t) # None, e.observedAttempt = t.attempt,
         e.listeners # {}, e.terminalAttempt = None
  PROVE  Fits(t, BeginRecovery(e, ok))
  BY Attempted, VisibleAssumption
     DEF Fits, InScope, ServedIn, Consistent, Busy, BeginRecovery, CloseChannel, Entry

LEMMA Replayed ==
  ASSUME NEW t \in Topology, NEW e, Consistent(e), NEW ok \in BOOLEAN,
         AuthorizedAttempt(t) # None, e.listeners # {},
         e.terminalAttempt = AuthorizedAttempt(t)
  PROVE  Fits(t, ReplayTerminal(t, e, ok))
  BY Attempted, VisibleAssumption
     DEF Fits, InScope, ServedIn, Consistent, Busy, ReplayTerminal, Entry

LEMMA Revoked ==
  ASSUME NEW t \in Topology, NEW e, Consistent(e), AuthorizedAttempt(t) = None
  PROVE  Fits(t, Unauthorized(t, e))
  <1> DEFINE c == [CloseChannel(e) EXCEPT
                     !.terminalSnapshot = FALSE, !.terminalRecovery = FALSE,
                     !.recovering = FALSE, !.cut = FALSE,
                     !.needsRecovery = @ \/ e.recovering]
             u == Unauthorized(t, e)
  <1>1. Consistent(c) /\ ~Busy(c)
    BY VisibleAssumption DEF Consistent, Busy, CloseChannel, Entry
  <1>2. Consistent(u) /\ ~Busy(u)
    <2>1. CASE t.present
      BY <1>1, <2>1 DEF Unauthorized
    <2>2. CASE ~t.present
      <3>1. u = [c EXCEPT !.cursor = None, !.observedAttempt = None,
                          !.terminalAttempt = None, !.needsRecovery = FALSE,
                          !.gap = FALSE, !.fed = {}]
        BY <2>2 DEF Unauthorized
      <3> HIDE DEF c, u
      <3> QED  BY <1>1, <3>1, VisibleAssumption DEF Consistent, Busy, Entry
    <2> QED  BY <2>1, <2>2
  <1> QED  BY <1>2 DEF Fits, InScope, ServedIn

LEMMA Observed ==
  ASSUME NEW t \in Topology, NEW e, Consistent(e)
  PROVE  /\ Consistent(Observe(t, e)) /\ Observe(t, e).observedAttempt = t.attempt
         /\ Observe(t, e).listeners = e.listeners
  BY Attempted, VisibleAssumption
     DEF Consistent, Busy, Observe, CloseChannel, Entry

-----------------------------------------------------------------------------
(* sync() makes any consistent entry fit the topology.                      *)

LEMMA Synced ==
  ASSUME NEW t \in Topology, NEW e, Consistent(e), NEW ok \in BOOLEAN
  PROVE  Fits(t, Sync(t, e, ok)) /\ Sync(t, e, ok).listeners = e.listeners
  <1> DEFINE o == Observe(t, e)
  <1>1. CASE e.listeners = {}
    <2>1. Sync(t, e, ok) = e
      BY <1>1 DEF Sync
    <2> QED  BY <1>1, <2>1 DEF Fits, InScope, ServedIn, Consistent
  <1>2. CASE e.listeners # {} /\ AuthorizedAttempt(t) = None
    <2>1. Sync(t, e, ok) = Unauthorized(t, e)
      BY <1>2 DEF Sync
    <2>2. Unauthorized(t, e).listeners = e.listeners
      BY DEF Unauthorized, CloseChannel, Consistent, Entry
    <2> QED  BY <1>2, <2>1, <2>2, Revoked
  <1>3. CASE e.listeners # {} /\ AuthorizedAttempt(t) # None
    <2>1. Sync(t, e, ok) = Resume(t, o, ok)
      BY <1>3 DEF Sync
    <2>2. /\ Consistent(o) /\ o.observedAttempt = t.attempt /\ o.listeners = e.listeners
          /\ AuthorizedAttempt(t) = t.attempt /\ t.attempt # None
      BY <1>3, Observed, Attempted
    <2> HIDE DEF o
    <2>3. o.recovering \in BOOLEAN /\ o.needsRecovery \in BOOLEAN /\ o.subscription \in BOOLEAN
      BY <2>2 DEF Consistent, Entry
    <2>4. CASE o.recovering \/ o.subscription
      <3>1. o.recovering \/ (o.terminalAttempt = None /\ ~o.needsRecovery)
        BY <2>2, <2>4 DEF Consistent
      <3>2. Resume(t, o, ok) = o
        BY <2>2, <2>3, <2>4, <3>1 DEF Resume
      <3> QED  BY <1>3, <2>1, <2>2, <2>4, <3>2 DEF Fits, InScope, ServedIn, Consistent, Busy
    <2>5. CASE ~o.recovering /\ o.terminalAttempt = t.attempt
      <3>1. Resume(t, o, ok) = ReplayTerminal(t, o, ok)
        BY <2>5 DEF Resume
      <3>2. ReplayTerminal(t, o, ok).listeners = o.listeners
        BY <2>2 DEF ReplayTerminal, Consistent, Entry
      <3> QED  BY <1>3, <2>1, <2>2, <2>5, <3>1, <3>2, Replayed
    <2>6. CASE ~o.recovering /\ o.terminalAttempt # t.attempt /\ o.needsRecovery
      <3>1. Resume(t, o, ok) = BeginRecovery(o, ok)
        BY <2>6 DEF Resume
      <3>2. BeginRecovery(o, ok).listeners = o.listeners
        BY <2>2 DEF BeginRecovery, CloseChannel, Consistent, Entry
      <3>3. o.terminalAttempt = None
        BY <2>2, <2>6 DEF Consistent
      <3> QED  BY <1>3, <2>1, <2>2, <3>1, <3>2, <3>3, Begun
    <2>7. CASE /\ ~o.recovering /\ ~o.subscription /\ ~o.needsRecovery
               /\ o.terminalAttempt # t.attempt
      <3>1. Resume(t, o, ok) = OpenChannel(o, ok)
        BY <2>7 DEF Resume
      <3>2. OpenChannel(o, ok).listeners = o.listeners
        BY <2>2 DEF OpenChannel, CloseChannel, Consistent, Entry
      <3>3. o.terminalAttempt = None
        BY <2>2, <2>7 DEF Consistent
      <3> QED  BY <1>3, <2>1, <2>2, <2>7, <3>1, <3>2, <3>3, Opened
    <2> QED  BY <2>3, <2>4, <2>5, <2>6, <2>7
  <1> QED  BY <1>1, <1>2, <1>3

\* What reconnect() and retry() share: a recovery that is still needed, or sync().
Resumption(t, e, ok) ==
    IF e.needsRecovery /\ AuthorizedAttempt(t) # None THEN BeginRecovery(e, ok)
    ELSE IF e.needsRecovery THEN e ELSE Sync(t, e, ok)

LEMMA Resumed ==
  ASSUME NEW t \in Topology, NEW e, Consistent(e), NEW ok \in BOOLEAN,
         InScope(t, e), e.listeners # {}
  PROVE  Fits(t, Resumption(t, e, ok))
  <1>1. CASE e.needsRecovery /\ AuthorizedAttempt(t) # None
    <2>1. e.terminalAttempt = None
      BY <1>1 DEF Consistent
    <2> QED  BY <1>1, <2>1, Begun DEF Resumption, InScope
  <1>2. CASE e.needsRecovery /\ AuthorizedAttempt(t) = None
    BY <1>2 DEF Resumption, Fits, InScope, ServedIn
  <1>3. CASE ~e.needsRecovery
    BY <1>3, Synced DEF Resumption
  <1> QED  BY <1>1, <1>2, <1>3

-----------------------------------------------------------------------------
(* The steps.                                                               *)

LEMMA InvFits ==
  ASSUME VisibleInv
  PROVE  /\ topology \in Topology /\ disposed \in BOOLEAN
         /\ Consistent(entry) /\ InScope(topology, entry) /\ Fits(topology, entry)
  BY DEF VisibleInv, Fits

\* A pane comes.
LEMMA AcquireOK ==
  ASSUME VisibleInv, NEW p \in Panes, Acquire(p)
  PROVE  Fits(topology, entry')
  <1>1. PICK ok \in BOOLEAN, okReplay \in BOOLEAN :
          entry' = Acquired(topology, entry, p, ok, okReplay)
    BY DEF Acquire
  <1> DEFINE e == [entry EXCEPT !.listeners = @ \cup {p},
                                !.fed = IF entry.subscription THEN @ \cup {p} ELSE @]
             s == Sync(topology, e, ok)
             r == [s EXCEPT !.needsTerminalReplay = @ \cup {p}]
  <1>2. Consistent(e) /\ p \in e.listeners
    BY InvFits DEF Consistent, Busy, Entry
  <1>3. Fits(topology, s) /\ p \in s.listeners
    BY <1>2, InvFits, Synced
  <1>4. entry' = IF s.terminalAttempt # None /\ s.terminalAttempt = AuthorizedAttempt(topology)
                 THEN ReplayTerminal(topology, r, okReplay) ELSE s
    BY <1>1 DEF Acquired
  <1> HIDE DEF e, s
  <1>5. CASE s.terminalAttempt # None /\ s.terminalAttempt = AuthorizedAttempt(topology)
    <2>1. Consistent(r)
      BY <1>3, <1>5 DEF Fits, Consistent, Busy, Entry
    <2>2. r.listeners # {} /\ r.terminalAttempt = AuthorizedAttempt(topology)
      BY <1>3, <1>5 DEF Fits, Consistent, Entry
    <2> HIDE DEF r
    <2>3. Fits(topology, ReplayTerminal(topology, r, okReplay))
      BY <1>5, <2>1, <2>2, InvFits, Replayed
    <2> QED  BY <1>4, <1>5, <2>3
  <1>6. CASE ~(s.terminalAttempt # None /\ s.terminalAttempt = AuthorizedAttempt(topology))
    BY <1>3, <1>4, <1>6
  <1> QED  BY <1>5, <1>6

\* An entry nobody holds.
LEMMA FreshOK ==
  ASSUME NEW t \in Topology
  PROVE  Fits(t, Fresh)
  BY VisibleAssumption
     DEF Fits, InScope, ServedIn, Consistent, Busy, Fresh, Entry

\* A pane goes.
LEMMA ReleaseOK ==
  ASSUME VisibleInv, NEW p \in Panes, Release(p)
  PROVE  Fits(topology, entry')
  <1>1. CASE entry.listeners = {p}
    BY <1>1, InvFits, FreshOK DEF Release
  <1>2. CASE entry.listeners # {p}
    <2>1. /\ entry' = [entry EXCEPT !.listeners = @ \ {p},
                                    !.needsTerminalReplay = @ \ {p},
                                    !.fed = @ \ {p}]
          /\ entry.listeners \ {p} # {}
      BY <1>2 DEF Release
    <2> QED  BY <2>1, InvFits DEF Fits, InScope, ServedIn, Consistent, Busy, Entry
  <1> QED  BY <1>1, <1>2

LEMMA UpdateTopologyOK ==
  ASSUME VisibleInv, UpdateTopology
  PROVE  topology' \in Topology /\ Fits(topology', entry')
  <1>1. PICK ok \in BOOLEAN : entry' = Sync(topology', entry, ok)
    BY DEF UpdateTopology
  <1>2. topology' \in Topology
    BY DEF UpdateTopology
  <1> QED  BY <1>1, <1>2, InvFits, Synced

LEMMA ReconnectOK ==
  ASSUME VisibleInv, Reconnect
  PROVE  Fits(topology, entry')
  <1> DEFINE c == [CloseChannel(entry) EXCEPT !.cut = @ \/ entry.replay]
  <1>1. PICK ok \in BOOLEAN : entry' = Resumption(topology, c, ok)
    <2>1. c.needsRecovery = entry.needsRecovery
      BY InvFits DEF CloseChannel, Consistent, Entry
    <2> QED  BY <2>1 DEF Reconnect, Resumption
  <1>2. Consistent(c) /\ ~Busy(c)
    <2>1. ~entry.recovering
      BY DEF Reconnect
    <2> QED  BY <2>1, InvFits, Closed
  <1>3. c.listeners = entry.listeners /\ c.observedAttempt = entry.observedAttempt
    BY InvFits DEF CloseChannel, Consistent, Entry
  <1>4. InScope(topology, c) /\ c.listeners # {}
    BY <1>2, <1>3, InvFits DEF InScope, Reconnect
  <1> HIDE DEF c
  <1> QED  BY <1>1, <1>2, <1>4, InvFits, Resumed

LEMMA RetryOK ==
  ASSUME VisibleInv, Retry
  PROVE  Fits(topology, entry')
  <1>1. PICK ok \in BOOLEAN : entry' = Resumption(topology, entry, ok)
    BY DEF Retry, Resumption
  <1>2. entry.listeners # {}
    BY DEF Retry
  <1> QED  BY <1>1, <1>2, InvFits, Resumed

\* The channel reports something.
LEMMA ChannelReportsOK ==
  ASSUME VisibleInv, OnEvent \/ OnGap \/ OnTerminal
  PROVE  Fits(topology, entry')
  <1>1. CASE OnEvent
    BY <1>1, InvFits, VisibleAssumption
       DEF OnEvent, Fits, InScope, ServedIn, Consistent, Busy, Entry
  <1>2. CASE OnGap
    <2> DEFINE g == [entry EXCEPT !.gap = TRUE, !.needsRecovery = TRUE, !.subscription = FALSE]
    <2>1. PICK ok \in BOOLEAN : entry' = BeginRecovery([entry EXCEPT !.gap = TRUE], ok)
      BY <1>2 DEF OnGap
    <2>2. /\ Consistent(g) /\ g.listeners # {} /\ g.observedAttempt = topology.attempt
          /\ g.terminalAttempt = None /\ AuthorizedAttempt(topology) # None
      BY <1>2, InvFits, VisibleAssumption DEF OnGap, InScope, Consistent, Busy, Entry
    <2>3. BeginRecovery([entry EXCEPT !.gap = TRUE], ok) = BeginRecovery(g, ok)
      BY InvFits DEF BeginRecovery, CloseChannel, Consistent, Entry
    <2> HIDE DEF g
    <2> QED  BY <2>1, <2>2, <2>3, InvFits, Begun
  <1>3. CASE OnTerminal
    <2> DEFINE d == [entry EXCEPT !.terminalAttempt = entry.observedAttempt,
                                  !.needsRecovery = FALSE, !.subscription = FALSE]
    <2>1. entry' = CloseChannel(d)
      BY <1>3, InvFits DEF OnTerminal, CloseChannel, Consistent, Entry
    <2>2. Consistent(d) /\ ~d.recovering /\ ~d.replay
      BY <1>3, InvFits, VisibleAssumption DEF OnTerminal, Consistent, Busy, Entry
    <2>3. /\ d.listeners # {} /\ d.observedAttempt = topology.attempt
          /\ d.terminalAttempt = topology.attempt /\ d.needsTerminalReplay \subseteq d.fed
          /\ AuthorizedAttempt(topology) # None
      BY <1>3, InvFits DEF OnTerminal, InScope, Consistent, Busy, Entry
    <2> HIDE DEF d
    <2>4. Consistent(entry') /\ ~Busy(entry')
      <3>1. [CloseChannel(d) EXCEPT !.cut = @ \/ d.replay] = CloseChannel(d)
        BY <2>2 DEF CloseChannel, Consistent, Entry
      <3> QED  BY <2>1, <2>2, <3>1, Closed
    <2>5. /\ entry'.observedAttempt = d.observedAttempt
          /\ entry'.terminalAttempt = d.terminalAttempt
          /\ entry'.needsTerminalReplay = d.needsTerminalReplay /\ entry'.fed = d.fed
      BY <2>1, <2>2 DEF CloseChannel, Consistent, Entry
    <2> QED  BY <2>3, <2>4, <2>5 DEF Fits, InScope, ServedIn
  <1> QED  BY <1>1, <1>2, <1>3

\* A recovery or a replay settles.
LEMMA SettledOK ==
  ASSUME VisibleInv, RecoverySucceeds \/ RecoveryFails \/ ReplaySucceeds \/ ReplayFails
  PROVE  Fits(topology, entry')
  <1>1. CASE RecoverySucceeds
    <2>1. PICK terminal \in BOOLEAN, ok \in BOOLEAN :
            entry' = Sync(topology,
              [entry EXCEPT !.recovering = FALSE, !.recovery = FALSE,
                            !.needsRecovery = FALSE, !.gap = FALSE,
                            !.cursor = entry.observedAttempt,
                            !.fed = entry.listeners,
                            !.terminalAttempt = IF terminal
                                                THEN entry.observedAttempt
                                                ELSE @], ok)
      BY <1>1 DEF RecoverySucceeds
    <2> DEFINE told == [entry EXCEPT !.recovering = FALSE, !.recovery = FALSE,
                            !.needsRecovery = FALSE, !.gap = FALSE,
                            !.cursor = entry.observedAttempt,
                            !.fed = entry.listeners,
                            !.terminalAttempt = IF terminal
                                                THEN entry.observedAttempt
                                                ELSE @]
    <2>2. entry.recovery
      BY <1>1 DEF RecoverySucceeds
    <2>3. Consistent(told)
      BY <2>2, InvFits, VisibleAssumption DEF Consistent, Busy, Entry
    <2> HIDE DEF told
    <2> QED  BY <2>1, <2>3, InvFits, Synced DEF told
  <1>2. CASE RecoveryFails
    BY <1>2, InvFits DEF RecoveryFails, Fits, InScope, ServedIn, Consistent, Busy, Entry
  <1>3. CASE ReplaySucceeds
    BY <1>3, InvFits DEF ReplaySucceeds, Fits, InScope, ServedIn, Consistent, Busy, Entry
  <1>4. CASE ReplayFails
    BY <1>4, InvFits DEF ReplayFails, Fits, InScope, ServedIn, Consistent, Busy, Entry
  <1> QED  BY <1>1, <1>2, <1>3, <1>4

-----------------------------------------------------------------------------
(* The theorems.                                                            *)

LEMMA VisibleInvInit == Init => VisibleInv
  <1> SUFFICES ASSUME Init PROVE VisibleInv
    OBVIOUS
  <1>1. topology \in Topology /\ entry = Fresh /\ disposed \in BOOLEAN
    BY DEF Init
  <1> QED  BY <1>1, FreshOK DEF VisibleInv, Fits

LEMMA VisibleInvStep == VisibleInv /\ [Next]_vars => VisibleInv'
  <1> SUFFICES ASSUME VisibleInv, [Next]_vars PROVE VisibleInv'
    OBVIOUS
  <1>1. ASSUME topology' \in Topology, disposed' \in BOOLEAN, Fits(topology', entry')
        PROVE  VisibleInv'
    BY <1>1 DEF VisibleInv, Fits
  <1>2. ASSUME NEW p \in Panes, Acquire(p) PROVE VisibleInv'
    <2>1. UNCHANGED <<topology, disposed>>
      BY <1>2 DEF Acquire
    <2> QED  BY <1>1, <1>2, <2>1, AcquireOK, InvFits
  <1>3. ASSUME NEW p \in Panes, Release(p) PROVE VisibleInv'
    <2>1. UNCHANGED <<topology, disposed>>
      BY <1>3 DEF Release
    <2> QED  BY <1>1, <1>3, <2>1, ReleaseOK, InvFits
  <1>4. CASE UpdateTopology
    <2>1. disposed' = disposed
      BY <1>4 DEF UpdateTopology
    <2> QED  BY <1>1, <1>4, <2>1, UpdateTopologyOK, InvFits
  <1>5. CASE Reconnect
    <2>1. UNCHANGED <<topology, disposed>>
      BY <1>5 DEF Reconnect
    <2> QED  BY <1>1, <1>5, <2>1, ReconnectOK, InvFits
  <1>6. CASE Retry
    <2>1. UNCHANGED <<topology, disposed>>
      BY <1>6 DEF Retry
    <2> QED  BY <1>1, <1>6, <2>1, RetryOK, InvFits
  <1>7. CASE Dispose
    <2>1. topology' = topology /\ disposed' \in BOOLEAN /\ entry' = Fresh
      BY <1>7 DEF Dispose
    <2> QED  BY <1>1, <2>1, FreshOK, InvFits
  <1>8. CASE OnEvent \/ OnGap \/ OnTerminal
    <2>1. UNCHANGED <<topology, disposed>>
      BY <1>8 DEF OnEvent, OnGap, OnTerminal
    <2> QED  BY <1>1, <1>8, <2>1, ChannelReportsOK, InvFits
  <1>9. CASE RecoverySucceeds \/ RecoveryFails \/ ReplaySucceeds \/ ReplayFails
    <2>1. UNCHANGED <<topology, disposed>>
      BY <1>9 DEF RecoverySucceeds, RecoveryFails, ReplaySucceeds, ReplayFails
    <2> QED  BY <1>1, <1>9, <2>1, SettledOK, InvFits
  <1>10. CASE UNCHANGED vars
    BY <1>1, <1>10, InvFits DEF vars
  <1> QED  BY <1>2, <1>3, <1>4, <1>5, <1>6, <1>7, <1>8, <1>9, <1>10 DEF Next

LEMMA VisibleInvAlways == Spec => []VisibleInv
  BY VisibleInvInit, VisibleInvStep, PTL DEF Spec

\* Every entry is one the manager can have, for any panes and attempts.
THEOREM TypesAlways == Spec => []TypeOK
  <1>1. VisibleInv => TypeOK
    BY DEF VisibleInv, Consistent, TypeOK
  <1> QED  BY <1>1, VisibleInvAlways, PTL

\* Whatever the topology does while callbacks and promises are under way, nothing
\* is open or asked for without authorization or for another attempt
\* (sync, close and dispose of visibleActorSubscriptions.ts).
THEOREM AuthorizedAlways == Spec => []AuthorizedOnly
  <1>1. VisibleInv => AuthorizedOnly
    BY DEF VisibleInv, Consistent, InScope, Busy, AuthorizedOnly
  <1> QED  BY <1>1, VisibleInvAlways, PTL

\* A channel is never open across a gap, after the end, or with a cursor of
\* another attempt (onGap, onTerminal, recover).
THEOREM ChannelSoundAlways == Spec => []ChannelSound
  <1>1. VisibleInv => ChannelSound
    BY DEF VisibleInv, Consistent, ChannelSound
  <1> QED  BY <1>1, VisibleInvAlways, PTL

\* No held lease is left without a channel, a recovery, its final snapshot or a
\* failure that the next retry reaches, unless a reconnect() came while its final
\* snapshot was asked for (sync, recover, replayTerminal).
THEOREM ServedAlways == Spec => []Served
  <1>1. VisibleInv => Served
    BY DEF VisibleInv, ServedIn, Busy, Served, Waiting
  <1> QED  BY <1>1, VisibleInvAlways, PTL
=============================================================================
