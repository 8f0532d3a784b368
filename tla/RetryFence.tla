----------------------------- MODULE RetryFence -----------------------------
(***************************************************************************)
(* Which run a Stop may reach.  A tab keeps one receipt per session in its *)
(* session storage, names the operation it last reserved, and all tabs     *)
(* share a guard that forbids guessing; the page also keeps, in memory, a  *)
(* stop fence per session and one per pane.                                *)
(*                                                                         *)
(*   lib/continuousRetryFence.ts  the receipt, the guard, the ACKs kept    *)
(*                                for an operation that was superseded     *)
(*   hooks/useChat.ts             startOrdinaryExecution, runStream, stop  *)
(*                                and the fences they make                 *)
(*                                                                         *)
(* One session and one tab with several panes.  The run an operation       *)
(* starts is named by the operation.  ACKs arrive late, in any order,      *)
(* without an identity, or never; the page reloads; storage refuses        *)
(* writes; other tabs set the guard.                                       *)
(***************************************************************************)
EXTENDS Naturals, FiniteSets

CONSTANTS
  Panes,    \* panes of the tab that show the session
  MaxOps,   \* bound: Executes the tab sends
  MaxStops  \* bound: fences whose Stop is under way or sent, per page life

ASSUME BoundsAssumption == MaxOps \in Nat /\ MaxStops \in Nat

Ops == 1..MaxOps
NoRun == 0      \* a Stop that names no run reaches whichever is active
Unmounted == 0  \* no pane: the one that sent an Execute is not there any more

VARIABLES
  receipt,     \* session storage: the operation reserved last, and its state
  guard,       \* local storage: the guard all tabs share
  remembered,  \* memory: started ACKs of operations superseded while pending
  shared,      \* memory: continuousStopFences, for this session
  pane,        \* memory: paneStopFencesRef of each pane, for this session
  ops,         \* what the page knows of each Execute it sent
  sent,        \* number of Executes so far
  exact,       \* server: whether it supports Stops that name a run
  stops        \* the Stops under way or sent, one per fence

storage == <<receipt, guard>>
fences == <<shared, pane>>
vars == <<storage, remembered, fences, ops, sent, exact, stops>>

NoReceipt == [st |-> "none", op |-> 0]
Pending(o) == [st |-> "pending", op |-> o]

\* A fence is known by what it was made for: `by` tells fences of one kind
\* apart, `prior` is the shared fence that was there when it was made.
Tag(f) == <<f.kind, f.op, f.by>>
NoFence == [kind |-> "none", op |-> 0, by |-> 0, prior |-> <<"none", 0, 0>>]
Own(o) == [NoFence EXCEPT !.kind = "own", !.op = o]
Restored(o, by) == [kind |-> "restored", op |-> o, by |-> by, prior |-> Tag(shared)]
Confirmed(o, by) == [NoFence EXCEPT !.kind = "confirmed", !.op = o, !.by = by]
Unowned(by) == [NoFence EXCEPT !.kind = "unowned", !.by = by, !.prior = Tag(shared)]

\* The ACK of an Execute is "none" while it is awaited and "unknown" when no
\* page will hear it; the rest is what the page keeps to handle it.
NoOp == [kind |-> "none", ack |-> "none", reserved |-> FALSE, pane |-> Unmounted,
         prior |-> NoReceipt, prevShared |-> NoFence, prevPane |-> NoFence]

Init ==
  /\ receipt = NoReceipt /\ guard \in BOOLEAN /\ remembered = {}
  /\ shared = NoFence /\ pane = [p \in Panes |-> NoFence]
  /\ ops = [o \in Ops |-> NoOp] /\ sent = 0
  /\ exact \in BOOLEAN
  /\ stops = {}

-----------------------------------------------------------------------------
(* The receipt.                                                            *)

Ordinary(o) == ops[o].kind = "ordinary"
PendingOrdinary == receipt.st = "pending" /\ Ordinary(receipt.op)

\* readContinuousRetryFence
Persisted ==
  CASE receipt.st = "confirmed" -> "confirmed"
    [] receipt.st = "started" -> "ambiguous"
    [] receipt.st = "pending" -> "pending"
    [] OTHER -> IF guard THEN "ambiguous" ELSE "clear"

\* readOrdinaryRetryFence: this tab's ordinary receipt, while it is guarded.
OrdinaryReceipt == guard /\ receipt.op # 0 /\ Ordinary(receipt.op)
OrdinaryStarted(o) == OrdinaryReceipt /\ receipt.op = o /\ receipt.st # "pending"

\* recordStartedAck: the ACK of an operation that is no longer the receipt's
\* is kept only while a newer one is pending, and only if it was ordinary.  A
\* write that fails loses the ACK.
RecordStarted(o, st) ==
  IF receipt = Pending(o)
    THEN \/ receipt' = [st |-> st, op |-> o] /\ remembered' = {}
         \/ UNCHANGED <<receipt, remembered>>
    ELSE /\ remembered' = IF Ordinary(o) /\ receipt.st = "pending"
                            THEN remembered \cup {[st |-> st, op |-> o]}
                            ELSE remembered
         /\ UNCHANGED receipt

\* Mutant: the receipt is given back although a newer operation holds it.
RestoreUnstartedBlindly(o) ==
  receipt' = ops[o].prior /\ UNCHANGED remembered

\* restoreConfirmedUnstartedRetryFence: give the receipt back to the operation
\* before this one, with the ACK that came for it in the meantime; each of the
\* two writes may fail.
RestoreUnstarted(o) ==
  LET prior == ops[o].prior
      known == IF prior.st = "pending" /\ Ordinary(prior.op)
                 THEN {m \in remembered : m.op = prior.op} ELSE {}
  IN \/ UNCHANGED <<receipt, remembered>>
     \/ /\ receipt = Pending(o)
        /\ \/ receipt' \in known /\ remembered' = {}
           \/ receipt' = prior /\ remembered' = remembered \ known

\* discardUnsentContinuousRetryFence returned true.
GivenBack(o) == receipt = Pending(o) /\ receipt' # receipt

\* Only in-page ACK evidence is remembered, and not for long.
Forget ==
  /\ \E m \in remembered : remembered' = remembered \ {m}
  /\ UNCHANGED <<storage, fences, ops, sent, exact, stops>>

-----------------------------------------------------------------------------
(* Sending an Execute.                                                     *)

\* Only a continuous retry keeps the fences it replaces.
NewOp(kind, p, reserved) ==
  [kind |-> kind, ack |-> "none", reserved |-> reserved, pane |-> p,
   prior |-> receipt,
   prevShared |-> IF kind = "continuous" THEN shared ELSE NoFence,
   prevPane |-> IF kind = "continuous" THEN pane[p] ELSE NoFence]

OwnFence(o, p) == shared' = Own(o) /\ pane' = [pane EXCEPT ![p] = Own(o)]

\* startOrdinaryExecution sends whether or not the receipt could be written;
\* the guard is written first.
StartOrdinary(p) ==
  LET o == sent + 1 IN
  /\ sent < MaxOps
  /\ sent' = o
  /\ \E writable \in BOOLEAN :
       /\ ops' = [ops EXCEPT ![o] = NewOp("ordinary", p, writable)]
       /\ IF writable THEN receipt' = Pending(o) /\ guard' = TRUE
                      ELSE guard' \in {guard, TRUE} /\ UNCHANGED receipt
  /\ OwnFence(o, p)
  /\ UNCHANGED <<remembered, exact, stops>>

\* Mutant: forgets to write the guard.
StartContinuousUnguarded(p) ==
  LET o == sent + 1 IN
  /\ sent < MaxOps
  /\ receipt.st = "pending" => PendingOrdinary
  /\ sent' = o
  /\ ops' = [ops EXCEPT ![o] = NewOp("continuous", p, TRUE)]
  /\ receipt' = Pending(o)
  /\ OwnFence(o, p)
  /\ UNCHANGED <<guard, remembered, exact, stops>>

\* A continuous retry needs its receipt, and a continuous one that is still
\* pending is not superseded.
StartContinuous(p) ==
  LET o == sent + 1 IN
  /\ sent < MaxOps
  /\ receipt.st = "pending" => PendingOrdinary
  /\ sent' = o
  /\ ops' = [ops EXCEPT ![o] = NewOp("continuous", p, TRUE)]
  /\ receipt' = Pending(o) /\ guard' = TRUE
  /\ OwnFence(o, p)
  /\ UNCHANGED <<remembered, exact, stops>>

\* Another tab, or a continuous start that was blocked before it was sent and
\* gave its receipt back, leaves the guard.
GuardAppears ==
  /\ ~guard /\ guard' = TRUE
  /\ UNCHANGED <<receipt, remembered, fences, ops, sent, exact, stops>>

-----------------------------------------------------------------------------
(* The answer to an Execute reaches the page that sent it.  Until then the *)
(* server may or may not have started a run.                               *)

Settled(o, ack) == [NoOp EXCEPT !.kind = ops[o].kind, !.reserved = ops[o].reserved,
                                !.ack = ack]

Arrives(o, ack) ==
  /\ o <= sent /\ ops[o].ack = "none"
  /\ ops' = [ops EXCEPT ![o] = Settled(o, ack)]

AckStarted(o) ==
  /\ Arrives(o, "started")
  /\ IF ops[o].reserved THEN RecordStarted(o, "confirmed")
                        ELSE UNCHANGED <<receipt, remembered>>
  /\ UNCHANGED <<guard, fences, sent, exact, stops>>

\* Without a run id an ordinary start is recorded as such, a continuous one
\* stays pending.
AckUnidentified(o) ==
  /\ Arrives(o, "unidentified")
  /\ IF ops[o].reserved /\ Ordinary(o) THEN RecordStarted(o, "started")
                                       ELSE UNCHANGED <<receipt, remembered>>
  /\ UNCHANGED <<guard, fences, sent, exact, stops>>

\* The paneStopFencesRef of o's pane becomes f.  A pane that was unmounted left
\* its own behind: the answer to its Execute still finds it there, and nobody else.
PaneBecomes(o, f) == pane' = [p \in Panes |-> IF p = ops[o].pane THEN f ELSE pane[p]]
Gone(o) == ops[o].pane = Unmounted

\* An ordinary operation that did not start hands the fences back to the
\* started one its receipt returned to, if they are still its own.
AckNotStarted(o) ==
  LET owns == shared = Own(o) /\ (Gone(o) \/ pane[ops[o].pane] = Own(o))
      back == Restored(receipt'.op, o)
  IN
  /\ Arrives(o, "not_started")
  /\ IF ops[o].reserved THEN RestoreUnstarted(o) ELSE UNCHANGED <<receipt, remembered>>
  /\ IF /\ Ordinary(o) /\ ops[o].reserved /\ GivenBack(o) /\ owns
        /\ guard /\ receipt'.st \in {"confirmed", "started"} /\ Ordinary(receipt'.op)
       THEN shared' = back /\ PaneBecomes(o, back)
       ELSE UNCHANGED fences
  /\ UNCHANGED <<guard, sent, exact, stops>>

\* A refused continuous retry hands each fence back that is still its own.
AckRefused(o) ==
  LET Back(f, previous) ==
        IF ~(GivenBack(o) /\ f = Own(o)) THEN f
        ELSE IF ops[o].prior = NoReceipt THEN NoFence ELSE previous
  IN
  /\ ~Ordinary(o) /\ Arrives(o, "refused")
  /\ RestoreUnstarted(o)
  /\ shared' = Back(shared, ops[o].prevShared)
  /\ IF Gone(o) THEN UNCHANGED pane
                ELSE PaneBecomes(o, Back(pane[ops[o].pane], ops[o].prevPane))
  /\ UNCHANGED <<guard, sent, exact, stops>>

\* Delivery unknown: everything stays as it is.
AckFailed(o) ==
  /\ Arrives(o, "unknown")
  /\ UNCHANGED <<storage, remembered, fences, sent, exact, stops>>

-----------------------------------------------------------------------------
(* Observing a run that goes on, and stopping one.                         *)

\* runStream with `resume`: a pane without a fence takes the shared one, or
\* one made from the receipt.
Resume(p) ==
  /\ pane[p] = NoFence
  /\ \/ shared # NoFence /\ pane' = [pane EXCEPT ![p] = shared]
     \/ /\ shared = NoFence /\ OrdinaryStarted(receipt.op)
        /\ pane' = [pane EXCEPT ![p] = Restored(receipt.op, p)]
     \/ /\ shared = NoFence /\ ~OrdinaryStarted(receipt.op) /\ Persisted = "confirmed"
        /\ pane' = [pane EXCEPT ![p] = Confirmed(receipt.op, p)]
     \/ /\ shared = NoFence /\ Persisted = "clear"
        /\ pane' = [pane EXCEPT ![p] = Unowned(p)]
  /\ UNCHANGED <<storage, remembered, shared, ops, sent, exact, stops>>

\* A fence runs one Stop at a time, and none after one that was sent.
Request(f) ==
  IF \E s \in stops : Tag(s.fence) = Tag(f) THEN UNCHANGED stops
  ELSE /\ Cardinality(stops) < MaxStops
       /\ stops' = stops \cup {[fence |-> f, st |-> "waiting", run |-> NoRun]}

\* The user presses Stop.  A receipt that names no run is not permission.
Stop(p) ==
  LET held == IF pane[p] # NoFence THEN pane[p] ELSE shared
      Use(f) == pane' = [pane EXCEPT ![p] = f] /\ Request(f)
  IN
  /\ \/ held # NoFence /\ Use(held) /\ UNCHANGED shared
     \/ /\ held = NoFence /\ OrdinaryStarted(receipt.op)
        /\ Use(Restored(receipt.op, p)) /\ UNCHANGED shared
     \/ /\ held = NoFence /\ ~OrdinaryStarted(receipt.op) /\ Persisted = "confirmed"
        /\ Use(Confirmed(receipt.op, p)) /\ shared' = Confirmed(receipt.op, p)
     \/ /\ held = NoFence /\ Persisted = "clear"
        /\ Use(Unowned(p)) /\ UNCHANGED shared
  /\ UNCHANGED <<storage, remembered, ops, sent, exact>>

\* What the Stop of a fence may send once the capability was read: a Stop that
\* names `run`, a session-wide one (NoRun), or nothing.
OwnMaySend(o, run) ==
  /\ ops[o].ack \in {"started", "unidentified"}
  /\ \/ exact /\ ops[o].ack = "started" /\ run = o
     \/ /\ ~exact /\ Ordinary(o) /\ run = NoRun
        /\ shared = Own(o)
        /\ IF ops[o].reserved THEN OrdinaryStarted(o) ELSE Persisted = "clear"

\* Mutant: the receipt is not read again after the capability request.
RestoredMaySendUnchecked(f, run) ==
  \/ exact /\ receipt.st = "confirmed" /\ run = receipt.op
  \/ ~exact /\ OrdinaryStarted(f.op) /\ run = NoRun

RestoredMaySend(f, run) ==
  /\ OrdinaryStarted(f.op)
  /\ \/ exact /\ receipt.st = "confirmed" /\ run = receipt.op
     \/ ~exact /\ run = NoRun /\ Tag(shared) \in {f.prior, Tag(f)}

UnownedMaySend(f, run) ==
  ~exact /\ run = NoRun /\ Tag(shared) = f.prior /\ Persisted = "clear"

MaySend(f, run) ==
  \/ f.kind = "own" /\ OwnMaySend(f.op, run)
  \/ f.kind = "restored" /\ RestoredMaySend(f, run)
  \/ f.kind = "confirmed" /\ exact /\ run = f.op
  \/ f.kind = "unowned" /\ UnownedMaySend(f, run)

StopSent(s) ==
  /\ s.st = "waiting"
  /\ \E run \in Ops \cup {NoRun} :
       /\ MaySend(s.fence, run)
       /\ stops' = (stops \ {s}) \cup {[s EXCEPT !.st = "sent", !.run = run]}
  /\ UNCHANGED <<storage, remembered, fences, ops, sent, exact>>

\* It may not send, or the capability could not be read: the user may try again.
StopRejected(s) ==
  /\ s.st = "waiting"
  /\ s.fence.kind = "own" => ops[s.fence.op].ack # "none"
  /\ stops' = stops \ {s}
  /\ UNCHANGED <<storage, remembered, fences, ops, sent, exact>>

-----------------------------------------------------------------------------
\* Memory goes, storage stays; what was sent goes on without the page.
Reload ==
  /\ remembered' = {}
  /\ shared' = NoFence /\ pane' = [p \in Panes |-> NoFence]
  /\ ops' = [o \in Ops |->
               IF o > sent \/ ops[o].ack \in {"not_started", "refused"}
                 THEN ops[o] ELSE Settled(o, "unknown")]
  /\ stops' = {}
  /\ UNCHANGED <<storage, sent, exact>>

\* A new instance has fences of its own.
Remount(p) ==
  /\ pane[p] # NoFence
  /\ pane' = [pane EXCEPT ![p] = NoFence]
  /\ ops' = [o \in Ops |-> IF ops[o].pane = p THEN [ops[o] EXCEPT !.pane = Unmounted]
                                              ELSE ops[o]]
  /\ UNCHANGED <<storage, remembered, shared, sent, exact, stops>>

Next ==
  \/ \E p \in Panes : StartOrdinary(p) \/ StartContinuous(p) \/ Resume(p)
                      \/ Stop(p) \/ Remount(p)
  \/ \E o \in Ops : \/ AckStarted(o) \/ AckUnidentified(o)
                    \/ AckNotStarted(o) \/ AckRefused(o) \/ AckFailed(o)
  \/ \E s \in stops : StopSent(s) \/ StopRejected(s)
  \/ GuardAppears \/ Forget \/ Reload

Spec == Init /\ [][Next]_vars

-----------------------------------------------------------------------------
\* The types of the records, and where their operations come from: the fences
\* and the receipt name operations this tab sent, under a guard.
TypeOK ==
  /\ receipt \in [st : {"none", "pending", "confirmed", "started"}, op : 0..sent]
  /\ receipt # NoReceipt => guard
  /\ guard \in BOOLEAN /\ exact \in BOOLEAN
  /\ remembered \subseteq [st : {"confirmed", "started"}, op : Ops]
  /\ \A f \in {shared} \cup {pane[p] : p \in Panes} :
       f.kind \in {"none", "own", "restored", "confirmed", "unowned"} /\ f.op \in 0..sent
  /\ sent \in 0..MaxOps
  /\ \A s \in stops : s.st \in {"waiting", "sent"} /\ s.run \in 0..sent

MayRun(o) == o <= sent /\ ops[o].ack \notin {"not_started", "refused"}

\* The receipt never falls behind: an operation that reserved it and may have
\* started a run is not newer than the one the receipt names, whatever ACKs of
\* superseded operations arrived late, were remembered or were lost, and
\* however many reservations were given back.
ReceiptNeverBehind ==
  \A o \in Ops : ops[o].reserved /\ MayRun(o) => o <= receipt.op

\* A Stop stops the run its fence was made for, whatever was started, given back
\* or remembered while the capability was read.  One that names a run names that
\* one, and never a run known not to have started.  One that names none reaches
\* whatever is active: it is sent only to a server without exact Stops, and only
\* while no newer operation may be running, neither one that reserved the receipt
\* nor, for a fence made with its Execute, one that could not reserve it.
StopHitsItsRun ==
  [][\A s \in stops' \ stops :
       /\ s.run # NoRun => s.run = s.fence.op /\ MayRun(s.run)
       /\ s.st = "sent" /\ s.run = NoRun =>
            /\ ~exact
            /\ \A o \in Ops :
                 MayRun(o) /\ (ops[o].reserved \/ s.fence.kind = "own") => o <= s.fence.op]_vars
=============================================================================
