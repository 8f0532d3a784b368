--------------------------- MODULE ChatPaneProofs ---------------------------
(***************************************************************************)
(* What the panes of a session rely on, proved for every value of the      *)
(* constants: first RetryFence (which run a Stop may reach), then          *)
(* Transcript (the text a child's pane shows).  The two share no state.    *)
(*                                                                         *)
(* RetryFence, for every number of Executes, panes and Stops: its types,   *)
(* that the receipt never falls behind, and that a Stop hits its run.      *)
(* The inductive invariant RetryInv adds what the page must keep for the   *)
(* answers it still awaits: an operation remembers the receipt and the     *)
(* fences it replaced, and giving them back must be as safe as what they   *)
(* replaced was at the time.                                               *)
(*                                                                         *)
(* Transcript, for every number of messages, versions and frames: its      *)
(* types, that the pane at rest shows the durable history, and that text   *)
(* on show stays.  The inductive invariant TranscriptInv says what the     *)
(* frames in flight may still do to the pane: which of them settle a       *)
(* generation, which will be stale when they are delivered, and how much   *)
(* text they can bring.                                                    *)
(***************************************************************************)
EXTENDS RetryFence, Transcript, TLAPS

\* Runs known to have started, or of which nothing more will be heard.  Unlike
\* MayRun, this is never taken back.
StartedOps ==
  {o \in Ops : o <= sent /\ ops[o].ack \in {"started", "unidentified", "unknown"}}

\* What a fence and a receipt may be once n Executes were sent and those in S
\* are known to have started.
FenceOK(f, n, S) ==
  /\ f.kind \in {"none", "own", "restored", "confirmed", "unowned"}
  /\ f.op \in 0..n
  /\ f.kind = "own" => f.op # 0
  /\ f.kind = "confirmed" => f.op \in S

ReceiptOK(r, n, S) ==
  /\ r \in [st : {"none", "pending", "confirmed", "started"}, op : 0..n]
  /\ r.st = "none" => r = NoReceipt
  /\ r.st \in {"confirmed", "started"} => r.op \in S

\* What is known of an Execute is a record of these fields.
IsOp(r) ==
  r \in [kind : {r.kind}, ack : {r.ack}, reserved : {r.reserved}, pane : {r.pane},
         prior : {r.prior}, prevShared : {r.prevShared}, prevPane : {r.prevPane}]

OpsOK ==
  /\ DOMAIN ops = Ops
  /\ \A o \in Ops :
       /\ IsOp(ops[o])
       /\ ops[o].reserved \in BOOLEAN
       /\ ReceiptOK(ops[o].prior, sent, StartedOps)
       /\ FenceOK(ops[o].prevShared, sent, StartedOps)
       /\ FenceOK(ops[o].prevPane, sent, StartedOps)
       /\ o <= sent /\ ~Ordinary(o) => ops[o].reserved

StorageOK ==
  /\ ReceiptOK(receipt, sent, StartedOps)
  /\ receipt # NoReceipt => guard
  /\ guard \in BOOLEAN
  /\ remembered \subseteq [st : {"confirmed", "started"}, op : StartedOps]

FencesOK ==
  /\ FenceOK(shared, sent, StartedOps)
  /\ DOMAIN pane = Panes
  /\ \A p \in Panes : FenceOK(pane[p], sent, StartedOps)

\* A Stop is a record of these fields.
IsStop(s) == s \in [fence : {s.fence}, st : {s.st}, run : {s.run}]

StopsOK ==
  \A s \in stops : /\ s.st \in {"waiting", "sent"} /\ s.run \in 0..sent
                   /\ FenceOK(s.fence, sent, StartedOps)
                   /\ IsStop(s)

\* Whoever still awaits an answer would give back a receipt that covers all
\* that came before it.
PriorNeverBehind ==
  \A o \in Ops : o <= sent /\ ops[o].ack = "none" =>
    \A q \in Ops : q < o /\ ops[q].reserved /\ MayRun(q) => q <= ops[o].prior.op

\* The session's fence was made with its Execute only while no newer one may
\* run, and so was the one that a newer Execute replaced.
SharedNewest ==
  shared.kind = "own" => \A q \in Ops : q > shared.op => ~MayRun(q)
ReplacedNewest ==
  \A o \in Ops : o <= sent /\ ops[o].prevShared.kind = "own" =>
    \A q \in Ops : q > ops[o].prevShared.op /\ q < o => ~MayRun(q)

HistoryOK == sent \in 0..MaxOps /\ OpsOK /\ PriorNeverBehind /\ ReplacedNewest

RetryInv ==
  /\ exact \in BOOLEAN
  /\ HistoryOK /\ StorageOK /\ FencesOK /\ StopsOK
  /\ ReceiptNeverBehind /\ SharedNewest

-----------------------------------------------------------------------------
(* What every step keeps of the Executes sent so far.                      *)

Keeps ==
  /\ sent <= sent'
  /\ StartedOps \subseteq StartedOps'
  /\ \A o \in Ops : o <= sent /\ MayRun(o)' => MayRun(o)
  /\ \A o \in Ops : o <= sent => ops'[o].reserved = ops[o].reserved

\* What was fit before is fit when more was sent and more is known.
LEMMA FenceStays ==
  ASSUME NEW f, NEW n \in Nat, NEW k \in Nat, n <= k, NEW S, NEW T, S \subseteq T,
         FenceOK(f, n, S)
  PROVE  FenceOK(f, k, T)
  BY DEF FenceOK

\* The same for a receipt.
LEMMA ReceiptStays ==
  ASSUME NEW r, NEW n \in Nat, NEW k \in Nat, n <= k, NEW S, NEW T, S \subseteq T,
         ReceiptOK(r, n, S)
  PROVE  ReceiptOK(r, k, T)
  <1>1. r.op \in 0..n => r.op \in 0..k
    OBVIOUS
  <1> QED  BY <1>1 DEF ReceiptOK

\* Having no fence and no receipt is always fit.
LEMMA NothingOK ==
  ASSUME NEW n \in Nat, NEW S
  PROVE  FenceOK(NoFence, n, S) /\ ReceiptOK(NoReceipt, n, S)
  BY DEF FenceOK, ReceiptOK, NoFence, NoReceipt

\* Whatever is written of an Execute is such a record.
LEMMA OpRecords ==
  /\ \A o, ack : IsOp(Settled(o, ack))
  /\ \A kind, p, reserved : IsOp(NewOp(kind, p, reserved))
  /\ IsOp(NoOp)
  <1>1. \A o, ack : IsOp(Settled(o, ack))
    BY DEF IsOp, Settled, NoOp
  <1>2. \A kind, p, reserved : IsOp(NewOp(kind, p, reserved))
    BY DEF IsOp, NewOp
  <1>3. IsOp(NoOp)
    BY DEF IsOp, NoOp
  <1> QED  BY <1>1, <1>2, <1>3

\* Steps that send nothing and hear no answer.
LEMMA SameOps ==
  ASSUME HistoryOK, UNCHANGED <<ops, sent>>
  PROVE  Keeps /\ HistoryOK' /\ sent' = sent
  <1>1. StartedOps' = StartedOps
    BY DEF StartedOps
  <1>2. \A o : MayRun(o)' = MayRun(o) /\ Ordinary(o)' = Ordinary(o)
    BY DEF MayRun, Ordinary
  <1>3. OpsOK'
    BY <1>1, <1>2 DEF HistoryOK, OpsOK
  <1>4. PriorNeverBehind' /\ ReplacedNewest'
    BY <1>2 DEF HistoryOK, PriorNeverBehind, ReplacedNewest
  <1> QED  BY <1>1, <1>2, <1>3, <1>4 DEF Keeps, HistoryOK

\* An answer arrives.
LEMMA ArrivalOps ==
  ASSUME HistoryOK, NEW o \in Ops, UNCHANGED sent,
         NEW ack \in {"started", "unidentified", "not_started", "refused", "unknown"},
         Arrives(o, ack)
  PROVE  Keeps /\ HistoryOK' /\ sent' = sent
  <1>0. sent \in Nat /\ DOMAIN ops = Ops
    BY BoundsAssumption DEF HistoryOK, OpsOK
  <1>1. /\ o <= sent /\ ops[o].ack = "none"
        /\ ops' = [ops EXCEPT ![o] = Settled(o, ack)]
    BY DEF Arrives
  <1>2. ops'[o] = Settled(o, ack) /\ \A q \in Ops \ {o} : ops'[q] = ops[q]
    BY <1>0, <1>1
  <1>3. /\ ops'[o].ack = ack /\ ops'[o].reserved = ops[o].reserved
        /\ ops'[o].kind = ops[o].kind /\ ops'[o].prior = NoReceipt
        /\ ops'[o].prevShared = NoFence /\ ops'[o].prevPane = NoFence
    BY <1>2 DEF Settled, NoOp
  <1>4. StartedOps \subseteq StartedOps'
    BY <1>1, <1>2 DEF StartedOps
  <1>5. \A q \in Ops : MayRun(q)' => MayRun(q)
    BY <1>1, <1>2 DEF MayRun
  <1>6. \A q \in Ops : ops'[q].reserved = ops[q].reserved /\ ops'[q].kind = ops[q].kind
    BY <1>2, <1>3
  <1>7. OpsOK'
    <2> SUFFICES ASSUME NEW q \in Ops
                 PROVE  /\ IsOp(ops'[q])
                        /\ ops'[q].reserved \in BOOLEAN
                        /\ ReceiptOK(ops'[q].prior, sent', StartedOps')
                        /\ FenceOK(ops'[q].prevShared, sent', StartedOps')
                        /\ FenceOK(ops'[q].prevPane, sent', StartedOps')
                        /\ q <= sent' /\ ~Ordinary(q)' => ops'[q].reserved
      BY <1>0, <1>1 DEF OpsOK
    <2>1. /\ IsOp(ops[q])
          /\ ops[q].reserved \in BOOLEAN
          /\ ReceiptOK(ops[q].prior, sent, StartedOps)
          /\ FenceOK(ops[q].prevShared, sent, StartedOps)
          /\ FenceOK(ops[q].prevPane, sent, StartedOps)
          /\ q <= sent /\ ~Ordinary(q) => ops[q].reserved
      BY DEF HistoryOK, OpsOK
    <2>2. ops'[q].reserved \in BOOLEAN /\ (q <= sent' /\ ~Ordinary(q)' => ops'[q].reserved)
      BY <2>1, <1>6 DEF Ordinary
    <2>3. CASE q = o
      <3>1. IsOp(ops'[q])
        BY <1>2, <2>3, OpRecords
      <3> QED  BY <1>0, <1>3, <2>2, <2>3, <3>1, NothingOK
    <2>4. CASE q # o
      <3>1. ops'[q] = ops[q]
        BY <1>2, <2>4
      <3> QED  BY <1>0, <1>4, <2>1, <2>2, <3>1, FenceStays, ReceiptStays
    <2> QED  BY <2>3, <2>4
  <1>8. PriorNeverBehind'
    BY <1>2, <1>3, <1>5, <1>6 DEF HistoryOK, PriorNeverBehind
  <1>9. ReplacedNewest'
    BY <1>2, <1>3, <1>5 DEF HistoryOK, ReplacedNewest, NoFence
  <1> QED  BY <1>0, <1>4, <1>5, <1>6, <1>7, <1>8, <1>9 DEF Keeps, HistoryOK

\* An Execute is sent: it remembers what it replaces.
LEMMA NewOps ==
  ASSUME HistoryOK, StorageOK, FencesOK, ReceiptNeverBehind, SharedNewest,
         NEW kind \in {"ordinary", "continuous"}, NEW p \in Panes, NEW reserved \in BOOLEAN,
         kind = "continuous" => reserved,
         sent < MaxOps, sent' = sent + 1,
         ops' = [ops EXCEPT ![sent + 1] = NewOp(kind, p, reserved)]
  PROVE  /\ Keeps /\ HistoryOK'
         /\ sent + 1 \in Ops /\ sent' \in Nat
         /\ ops'[sent + 1].reserved = reserved
         /\ \A q \in Ops : q > sent + 1 => ~MayRun(q)'
  <1>0. sent \in Nat /\ MaxOps \in Nat /\ DOMAIN ops = Ops /\ sent + 1 \in Ops
    BY BoundsAssumption DEF HistoryOK, OpsOK, Ops
  <1>1. ops'[sent + 1] = NewOp(kind, p, reserved) /\ \A q \in Ops \ {sent + 1} : ops'[q] = ops[q]
    BY <1>0
  <1>2. \A q \in Ops : q <= sent => ops'[q] = ops[q]
    BY <1>0, <1>1 DEF Ops
  <1>3. /\ ops'[sent + 1].ack = "none" /\ ops'[sent + 1].reserved = reserved
        /\ ops'[sent + 1].kind = kind /\ ops'[sent + 1].prior = receipt
        /\ ops'[sent + 1].prevShared \in {shared, NoFence}
        /\ ops'[sent + 1].prevPane \in {pane[p], NoFence}
    BY <1>1 DEF NewOp
  <1>4. StartedOps \subseteq StartedOps'
    BY <1>0, <1>2 DEF StartedOps, Ops
  <1>5. \A q \in Ops : q <= sent /\ MayRun(q)' => MayRun(q)
    BY <1>0, <1>2 DEF MayRun
  <1>6. \A q \in Ops : q > sent + 1 => ~MayRun(q)'
    BY <1>0 DEF MayRun, Ops
  <1>7. OpsOK'
    <2> SUFFICES ASSUME NEW q \in Ops
                 PROVE  /\ IsOp(ops'[q])
                        /\ ops'[q].reserved \in BOOLEAN
                        /\ ReceiptOK(ops'[q].prior, sent', StartedOps')
                        /\ FenceOK(ops'[q].prevShared, sent', StartedOps')
                        /\ FenceOK(ops'[q].prevPane, sent', StartedOps')
                        /\ q <= sent' /\ ~Ordinary(q)' => ops'[q].reserved
      BY <1>0 DEF OpsOK, Ops
    <2>1. CASE q = sent + 1
      <3>1. /\ ReceiptOK(receipt, sent, StartedOps)
            /\ FenceOK(shared, sent, StartedOps) /\ FenceOK(pane[p], sent, StartedOps)
        BY DEF StorageOK, FencesOK
      <3>2. /\ ReceiptOK(receipt, sent', StartedOps')
            /\ FenceOK(shared, sent', StartedOps') /\ FenceOK(pane[p], sent', StartedOps')
            /\ FenceOK(NoFence, sent', StartedOps')
        BY <1>0, <1>4, <3>1, FenceStays, ReceiptStays, NothingOK
      <3>3. ~Ordinary(q)' => reserved
        BY <1>3, <2>1 DEF Ordinary
      <3>4. IsOp(ops'[q])
        BY <1>1, <2>1, OpRecords
      <3> QED  BY <1>3, <2>1, <3>2, <3>3, <3>4
    <2>2. CASE q # sent + 1
      <3>1. ops'[q] = ops[q] /\ (q <= sent' => q <= sent)
        BY <1>0, <1>1, <2>2 DEF Ops
      <3>2. /\ IsOp(ops[q])
            /\ ops[q].reserved \in BOOLEAN
            /\ ReceiptOK(ops[q].prior, sent, StartedOps)
            /\ FenceOK(ops[q].prevShared, sent, StartedOps)
            /\ FenceOK(ops[q].prevPane, sent, StartedOps)
            /\ q <= sent /\ ~Ordinary(q) => ops[q].reserved
        BY DEF HistoryOK, OpsOK
      <3>3. q <= sent' /\ ~Ordinary(q)' => ops'[q].reserved
        BY <3>1, <3>2 DEF Ordinary
      <3>4. sent' \in Nat /\ sent <= sent'
        BY <1>0
      <3> QED  BY <1>0, <1>4, <3>1, <3>2, <3>3, <3>4, FenceStays, ReceiptStays
    <2> QED  BY <2>1, <2>2
  <1>8. PriorNeverBehind'
    <2> SUFFICES ASSUME NEW o \in Ops, NEW q \in Ops, o <= sent', ops'[o].ack = "none",
                        q < o, ops'[q].reserved, MayRun(q)'
                 PROVE  q <= ops'[o].prior.op
      BY DEF PriorNeverBehind
    <2>1. q <= sent /\ ops'[q] = ops[q] /\ MayRun(q)
      BY <1>0, <1>2, <1>5 DEF Ops
    <2>2. CASE o = sent + 1
      BY <1>3, <2>1, <2>2 DEF ReceiptNeverBehind
    <2>3. CASE o # sent + 1
      <3>1. o <= sent /\ ops'[o] = ops[o]
        BY <1>0, <1>1, <2>3 DEF Ops
      <3> QED  BY <2>1, <3>1 DEF HistoryOK, PriorNeverBehind
    <2> QED  BY <2>2, <2>3
  <1>9. ReplacedNewest'
    <2> SUFFICES ASSUME NEW o \in Ops, NEW q \in Ops, o <= sent',
                        ops'[o].prevShared.kind = "own",
                        q > ops'[o].prevShared.op, q < o, MayRun(q)'
                 PROVE  FALSE
      BY DEF ReplacedNewest
    <2>1. q <= sent /\ MayRun(q)
      BY <1>0, <1>5 DEF Ops
    <2>2. CASE o = sent + 1
      BY <1>3, <2>1, <2>2 DEF SharedNewest, NoFence
    <2>3. CASE o # sent + 1
      <3>1. o <= sent /\ ops'[o] = ops[o]
        BY <1>0, <1>1, <2>3 DEF Ops
      <3> QED  BY <2>1, <3>1 DEF HistoryOK, ReplacedNewest
    <2> QED  BY <2>2, <2>3
  <1>10. \A q \in Ops : q <= sent => ops'[q].reserved = ops[q].reserved
    BY <1>2
  <1> QED  BY <1>0, <1>3, <1>4, <1>5, <1>6, <1>7, <1>8, <1>9, <1>10 DEF Keeps, HistoryOK

\* The page is reloaded: no answer is awaited any more.
LEMMA ReloadOps ==
  ASSUME HistoryOK, Reload
  PROVE  Keeps /\ HistoryOK' /\ sent' = sent
  <1>0. sent \in Nat /\ DOMAIN ops = Ops /\ sent' = sent
    BY BoundsAssumption DEF HistoryOK, OpsOK, Reload
  <1> DEFINE kept(q) == q > sent \/ ops[q].ack \in {"not_started", "refused"}
  <1>1. DOMAIN ops' = Ops /\ \A q \in Ops : ops'[q] = IF kept(q) THEN ops[q] ELSE Settled(q, "unknown")
    BY DEF Reload
  <1>2. \A q \in Ops : kept(q) => ops'[q] = ops[q]
    BY <1>1
  <1>3. \A q \in Ops : ~kept(q) =>
          /\ ops'[q].ack = "unknown" /\ ops'[q].reserved = ops[q].reserved
          /\ ops'[q].kind = ops[q].kind /\ ops'[q].prior = NoReceipt
          /\ ops'[q].prevShared = NoFence /\ ops'[q].prevPane = NoFence
    BY <1>1 DEF Settled, NoOp
  <1>4. StartedOps \subseteq StartedOps'
    BY <1>0, <1>2, <1>3 DEF StartedOps
  <1>5. \A q \in Ops : MayRun(q)' => MayRun(q)
    BY <1>0, <1>2 DEF MayRun
  <1>6. \A q \in Ops : ops'[q].reserved = ops[q].reserved /\ ops'[q].kind = ops[q].kind
    BY <1>2, <1>3
  <1>7. OpsOK'
    <2> SUFFICES ASSUME NEW q \in Ops
                 PROVE  /\ IsOp(ops'[q])
                        /\ ops'[q].reserved \in BOOLEAN
                        /\ ReceiptOK(ops'[q].prior, sent', StartedOps')
                        /\ FenceOK(ops'[q].prevShared, sent', StartedOps')
                        /\ FenceOK(ops'[q].prevPane, sent', StartedOps')
                        /\ q <= sent' /\ ~Ordinary(q)' => ops'[q].reserved
      BY <1>1 DEF OpsOK
    <2>1. /\ IsOp(ops[q])
          /\ ops[q].reserved \in BOOLEAN
          /\ ReceiptOK(ops[q].prior, sent, StartedOps)
          /\ FenceOK(ops[q].prevShared, sent, StartedOps)
          /\ FenceOK(ops[q].prevPane, sent, StartedOps)
          /\ q <= sent /\ ~Ordinary(q) => ops[q].reserved
      BY DEF HistoryOK, OpsOK
    <2>2. ops'[q].reserved \in BOOLEAN /\ (q <= sent' /\ ~Ordinary(q)' => ops'[q].reserved)
      BY <1>0, <2>1, <1>6 DEF Ordinary
    <2>3. CASE ~kept(q)
      <3>1. IsOp(ops'[q])
        BY <1>1, <2>3, OpRecords
      <3> QED  BY <1>0, <1>3, <2>2, <2>3, <3>1, NothingOK
    <2>4. CASE kept(q)
      BY <1>0, <1>2, <1>4, <2>1, <2>2, <2>4, FenceStays, ReceiptStays
    <2> QED  BY <2>3, <2>4
  <1>8. PriorNeverBehind'
    BY <1>0, <1>2, <1>3, <1>5, <1>6 DEF HistoryOK, PriorNeverBehind
  <1>9. ReplacedNewest'
    BY <1>0, <1>2, <1>3, <1>5 DEF HistoryOK, ReplacedNewest, NoFence
  <1> QED  BY <1>0, <1>4, <1>5, <1>6, <1>7, <1>8, <1>9 DEF Keeps, HistoryOK

\* A pane is unmounted: only where the answers to its Executes belong changes.
LEMMA RemountOps ==
  ASSUME HistoryOK, NEW p \in Panes, Remount(p)
  PROVE  Keeps /\ HistoryOK' /\ sent' = sent
  <1>0. sent \in Nat /\ sent' = sent
    BY BoundsAssumption DEF HistoryOK, Remount
  <1>1. /\ DOMAIN ops' = Ops
        /\ \A q \in Ops : \/ ops'[q] = ops[q]
                           \/ ops'[q] = [ops[q] EXCEPT !.pane = Unmounted]
    BY DEF Remount
  <1>2. \A q \in Ops :
          /\ IsOp(ops'[q]) /\ ops'[q].kind = ops[q].kind /\ ops'[q].ack = ops[q].ack
          /\ ops'[q].reserved = ops[q].reserved /\ ops'[q].prior = ops[q].prior
          /\ ops'[q].prevShared = ops[q].prevShared /\ ops'[q].prevPane = ops[q].prevPane
    <2> TAKE q \in Ops
    <2>1. IsOp(ops[q])
      BY DEF HistoryOK, OpsOK
    <2>2. CASE ops'[q] = ops[q]
      BY <2>1, <2>2
    <2>3. CASE ops'[q] = [ops[q] EXCEPT !.pane = Unmounted]
      BY <2>1, <2>3 DEF IsOp
    <2> QED  BY <1>1, <2>2, <2>3
  <1>3. StartedOps' = StartedOps
    BY <1>0, <1>2 DEF StartedOps
  <1>4. \A q \in Ops : MayRun(q)' = MayRun(q) /\ Ordinary(q)' = Ordinary(q)
    BY <1>0, <1>2 DEF MayRun, Ordinary
  <1>5. OpsOK'
    BY <1>0, <1>1, <1>2, <1>3, <1>4 DEF HistoryOK, OpsOK
  <1>6. PriorNeverBehind' /\ ReplacedNewest'
    BY <1>0, <1>2, <1>4 DEF HistoryOK, PriorNeverBehind, ReplacedNewest
  <1> QED  BY <1>0, <1>2, <1>3, <1>4, <1>5, <1>6 DEF Keeps, HistoryOK

-----------------------------------------------------------------------------
(* What a step that only moves one part leaves of the others.              *)

\* The bounds, as the arithmetic of the lemmas needs them.
LEMMA KnownNumbers ==
  ASSUME RetryInv, Keeps, HistoryOK'
  PROVE  sent \in Nat /\ sent' \in Nat /\ sent <= sent' /\ StartedOps \subseteq StartedOps'
  BY BoundsAssumption DEF RetryInv, HistoryOK, Keeps

\* Storage that is left alone stays fit.
LEMMA StorageStays ==
  ASSUME RetryInv, Keeps, HistoryOK', UNCHANGED <<receipt, remembered>>,
         guard' \in {guard, TRUE}
  PROVE  StorageOK'
  <1>1. ReceiptOK(receipt, sent, StartedOps) /\ guard \in BOOLEAN
    BY DEF RetryInv, StorageOK
  <1>2. ReceiptOK(receipt', sent', StartedOps')
    BY <1>1, KnownNumbers, ReceiptStays
  <1>3. (receipt' # NoReceipt => guard') /\ guard' \in BOOLEAN
    BY DEF RetryInv, StorageOK
  <1>4. remembered' \subseteq [st : {"confirmed", "started"}, op : StartedOps']
    BY KnownNumbers DEF RetryInv, StorageOK
  <1> QED  BY <1>2, <1>3, <1>4 DEF StorageOK

\* A receipt that names the same operation covers what it covered.
LEMMA ReceiptCovers ==
  ASSUME RetryInv, Keeps, HistoryOK', receipt'.op = receipt.op, sent' = sent
  PROVE  ReceiptNeverBehind'
  <1> SUFFICES ASSUME NEW q \in Ops, ops'[q].reserved, MayRun(q)'
               PROVE  q <= receipt'.op
    BY DEF ReceiptNeverBehind
  <1>1. q <= sent
    BY DEF MayRun
  <1> QED  BY <1>1 DEF Keeps, RetryInv, ReceiptNeverBehind

\* A fence stays fit in every step.
LEMMA FenceKeeps ==
  ASSUME RetryInv, Keeps, HistoryOK', NEW f, FenceOK(f, sent, StartedOps)
  PROVE  FenceOK(f, sent', StartedOps')
  BY KnownNumbers, FenceStays

\* The session's fence stays the newest while nothing is sent.
LEMMA SharedStays ==
  ASSUME RetryInv, Keeps, HistoryOK', UNCHANGED shared, sent' = sent
  PROVE  SharedNewest'
  <1> SUFFICES ASSUME shared'.kind = "own", NEW q \in Ops, q > shared'.op, MayRun(q)'
               PROVE  FALSE
    BY DEF SharedNewest
  <1>1. q <= sent
    BY DEF MayRun
  <1> QED  BY <1>1 DEF Keeps, RetryInv, SharedNewest

\* Fences that are left alone stay fit.
LEMMA FencesStay ==
  ASSUME RetryInv, Keeps, HistoryOK', UNCHANGED fences
  PROVE  FencesOK'
  <1>1. FencesOK
    BY DEF RetryInv
  <1>2. shared' = shared /\ pane' = pane
    BY DEF fences
  <1> QED  BY <1>1, <1>2, FenceKeeps DEF FencesOK

\* Stops that end leave the others fit.
LEMMA StopsStay ==
  ASSUME RetryInv, Keeps, HistoryOK', stops' \subseteq stops
  PROVE  StopsOK'
  <1> SUFFICES ASSUME NEW s \in stops'
               PROVE  /\ s.st \in {"waiting", "sent"} /\ s.run \in 0..sent'
                      /\ FenceOK(s.fence, sent', StartedOps') /\ IsStop(s)
    BY DEF StopsOK
  <1>1. /\ s.st \in {"waiting", "sent"} /\ s.run \in 0..sent
        /\ FenceOK(s.fence, sent, StartedOps) /\ IsStop(s)
    BY DEF RetryInv, StopsOK
  <1>2. s.run \in 0..sent'
    BY <1>1, KnownNumbers
  <1> QED  BY <1>1, <1>2, FenceKeeps

-----------------------------------------------------------------------------
(* The receipt.                                                            *)

\* An ACK makes the receipt evidence, or is remembered as evidence.
LEMMA RecordStartedOK ==
  ASSUME RetryInv, Keeps, HistoryOK', sent' = sent, UNCHANGED guard,
         NEW o \in StartedOps', NEW st \in {"confirmed", "started"}, RecordStarted(o, st)
  PROVE  StorageOK' /\ ReceiptNeverBehind'
  <1>0. o \in Ops /\ o <= sent /\ sent \in Nat
    BY KnownNumbers DEF StartedOps
  <1>1. CASE receipt = Pending(o)
    <2>0. CASE UNCHANGED <<receipt, remembered>>
      BY <2>0, StorageStays, ReceiptCovers
    <2> SUFFICES ASSUME ~UNCHANGED <<receipt, remembered>>
                 PROVE  StorageOK' /\ ReceiptNeverBehind'
      BY <2>0
    <2>1. receipt' = [st |-> st, op |-> o] /\ remembered' = {}
      BY <1>1 DEF RecordStarted
    <2>2. receipt # NoReceipt
      BY <1>1 DEF Pending, NoReceipt
    <2>3. ReceiptOK(receipt', sent', StartedOps')
      BY <1>0, <2>1 DEF ReceiptOK, Ops
    <2>4. receipt'.op = receipt.op
      BY <1>1, <2>1 DEF Pending
    <2>5. StorageOK'
      BY <2>1, <2>2, <2>3 DEF StorageOK, RetryInv
    <2> QED  BY <2>4, <2>5, ReceiptCovers
  <1>2. CASE receipt # Pending(o)
    <2>1. receipt' = receipt /\ remembered' \subseteq remembered \cup {[st |-> st, op |-> o]}
      BY <1>2 DEF RecordStarted
    <2>2. ReceiptOK(receipt', sent', StartedOps')
      BY <2>1, KnownNumbers, ReceiptStays DEF RetryInv, StorageOK
    <2>3. remembered' \subseteq [st : {"confirmed", "started"}, op : StartedOps']
      BY <2>1, KnownNumbers DEF RetryInv, StorageOK
    <2>4. StorageOK'
      BY <2>1, <2>2, <2>3 DEF StorageOK, RetryInv
    <2> QED  BY <2>1, <2>4, ReceiptCovers
  <1> QED  BY <1>1, <1>2

\* A receipt that is given back covers all that may run.
LEMMA RestoreUnstartedOK ==
  ASSUME RetryInv, Keeps, HistoryOK', sent' = sent, UNCHANGED guard,
         NEW o \in Ops, o <= sent, ops[o].ack = "none", ~MayRun(o)', RestoreUnstarted(o)
  PROVE  StorageOK' /\ ReceiptNeverBehind'
  <1>0. sent \in Nat /\ StartedOps \subseteq StartedOps'
    BY KnownNumbers
  <1>1. CASE UNCHANGED <<receipt, remembered>>
    BY <1>1, StorageStays, ReceiptCovers
  <1>2. CASE ~UNCHANGED <<receipt, remembered>>
    <2> DEFINE prior == ops[o].prior
    <2>0. /\ receipt = Pending(o)
          /\ \/ \E m \in remembered : m.op = prior.op /\ receipt' = m /\ remembered' = {}
             \/ receipt' = prior /\ remembered' \subseteq remembered
      BY <1>2 DEF RestoreUnstarted
    <2>1. ReceiptOK(prior, sent, StartedOps)
      BY DEF RetryInv, HistoryOK, OpsOK
    <2>2. guard /\ guard \in BOOLEAN
      BY <2>0 DEF RetryInv, StorageOK, Pending, NoReceipt
    <2>3. /\ receipt'.op = prior.op /\ remembered' \subseteq remembered
          /\ ReceiptOK(receipt', sent', StartedOps')
      <3>1. CASE receipt' = prior /\ remembered' \subseteq remembered
        BY <3>1, <2>1, KnownNumbers, ReceiptStays
      <3>2. CASE \E m \in remembered : m.op = prior.op /\ receipt' = m /\ remembered' = {}
        <4>1. PICK m \in remembered : m.op = prior.op /\ receipt' = m /\ remembered' = {}
          BY <3>2
        <4>2. m \in [st : {"confirmed", "started"}, op : StartedOps]
          BY DEF RetryInv, StorageOK
        <4>3. m.op \in 0..sent'
          BY <1>0, <4>2 DEF StartedOps, Ops
        <4> QED  BY <1>0, <4>1, <4>2, <4>3 DEF ReceiptOK
      <3> QED  BY <2>0, <3>1, <3>2
    <2>4. remembered' \subseteq [st : {"confirmed", "started"}, op : StartedOps']
      BY <1>0, <2>3 DEF RetryInv, StorageOK
    <2>5. StorageOK'
      BY <2>2, <2>3, <2>4 DEF StorageOK
    <2>6. ReceiptNeverBehind'
      <3> SUFFICES ASSUME NEW q \in Ops, ops'[q].reserved, MayRun(q)'
                   PROVE  q <= prior.op
        BY <2>3 DEF ReceiptNeverBehind
      <3>1. q <= sent /\ MayRun(q) /\ ops[q].reserved
        BY DEF Keeps, MayRun
      <3>2. q <= o /\ q # o
        BY <2>0, <3>1 DEF RetryInv, ReceiptNeverBehind, Pending
      <3> QED  BY <3>1, <3>2 DEF RetryInv, HistoryOK, PriorNeverBehind, Ops
    <2> QED  BY <2>5, <2>6
  <1> QED  BY <1>1, <1>2

-----------------------------------------------------------------------------
(* The steps.                                                              *)

\* An Execute is sent, with a receipt or without one.
LEMMA StartOK ==
  ASSUME RetryInv, NEW p \in Panes, StartOrdinary(p) \/ StartContinuous(p)
  PROVE  RetryInv'
  <1> DEFINE o == sent + 1
  <1>1. PICK kind \in {"ordinary", "continuous"}, reserved \in BOOLEAN :
          /\ kind = "continuous" => reserved
          /\ ops' = [ops EXCEPT ![o] = NewOp(kind, p, reserved)]
          /\ IF reserved THEN receipt' = Pending(o) /\ guard' = TRUE
                         ELSE guard' \in {guard, TRUE} /\ UNCHANGED receipt
    BY DEF StartOrdinary, StartContinuous
  <1>2. /\ sent < MaxOps /\ sent' = o /\ OwnFence(o, p)
        /\ UNCHANGED <<remembered, exact, stops>>
    BY DEF StartOrdinary, StartContinuous
  <1>3. /\ Keeps /\ HistoryOK' /\ o \in Ops /\ sent' \in Nat
        /\ ops'[o].reserved = reserved
        /\ \A q \in Ops : q > o => ~MayRun(q)'
    BY <1>1, <1>2, NewOps DEF RetryInv
  <1>4. sent \in Nat /\ StartedOps \subseteq StartedOps'
    BY <1>3, KnownNumbers
  <1>5. StorageOK'
    <2>1. CASE reserved
      <3>1. receipt' = Pending(o) /\ guard' = TRUE
        BY <1>1, <2>1
      <3>2. ReceiptOK(receipt', sent', StartedOps')
        BY <1>2, <1>4, <3>1 DEF ReceiptOK, Pending
      <3>3. remembered' \subseteq [st : {"confirmed", "started"}, op : StartedOps']
        BY <1>2, <1>4 DEF RetryInv, StorageOK
      <3> QED  BY <3>1, <3>2, <3>3 DEF StorageOK
    <2>2. CASE ~reserved
      BY <1>1, <1>2, <1>3, <2>2, StorageStays
    <2> QED  BY <2>1, <2>2
  <1>6. FencesOK'
    <2>1. FenceOK(Own(o), sent', StartedOps')
      BY <1>2, <1>4 DEF FenceOK, Own, NoFence
    <2>2. shared' = Own(o) /\ pane' = [pane EXCEPT ![p] = Own(o)]
      BY <1>2 DEF OwnFence
    <2>3. DOMAIN pane' = Panes /\ \A q \in Panes : pane'[q] = Own(o) \/ pane'[q] = pane[q]
      BY <2>2 DEF RetryInv, FencesOK
    <2>4. \A q \in Panes : FenceOK(pane'[q], sent', StartedOps')
      <3> TAKE q \in Panes
      <3>1. FenceOK(pane[q], sent, StartedOps)
        BY DEF RetryInv, FencesOK
      <3> QED  BY <1>3, <2>1, <2>3, <3>1, FenceKeeps
    <2> QED  BY <2>1, <2>2, <2>3, <2>4 DEF FencesOK
  <1>7. StopsOK'
    BY <1>2, <1>3, StopsStay
  <1>8. ReceiptNeverBehind'
    <2> SUFFICES ASSUME NEW q \in Ops, ops'[q].reserved, MayRun(q)'
                 PROVE  q <= receipt'.op
      BY DEF ReceiptNeverBehind
    <2>1. q <= o
      BY <1>2 DEF MayRun
    <2>2. CASE reserved
      BY <1>1, <2>1, <2>2 DEF Pending
    <2>3. CASE ~reserved
      <3>1. q # o
        BY <1>3, <2>3
      <3>2. q <= sent
        BY <1>4, <2>1, <3>1 DEF Ops
      <3> QED  BY <1>1, <1>3, <2>3, <3>2 DEF Keeps, RetryInv, ReceiptNeverBehind
    <2> QED  BY <2>2, <2>3
  <1>9. SharedNewest'
    <2>1. shared'.op = o
      BY <1>2 DEF OwnFence, Own, NoFence
    <2> QED  BY <1>3, <2>1 DEF SharedNewest
  <1> QED  BY <1>2, <1>3, <1>5, <1>6, <1>7, <1>8, <1>9 DEF RetryInv

\* Answers that hand no fence back.
LEMMA AckOK ==
  ASSUME RetryInv, NEW o \in Ops, AckStarted(o) \/ AckUnidentified(o) \/ AckFailed(o)
  PROVE  RetryInv'
  <1>1. PICK ack \in {"started", "unidentified", "unknown"} :
          /\ Arrives(o, ack)
          /\ \/ \E st \in {"confirmed", "started"} : RecordStarted(o, st)
             \/ UNCHANGED <<receipt, remembered>>
    <2>1. CASE AckStarted(o)
      <3>1. /\ Arrives(o, "started")
            /\ RecordStarted(o, "confirmed") \/ UNCHANGED <<receipt, remembered>>
        BY <2>1 DEF AckStarted
      <3> QED  BY <3>1
    <2>2. CASE AckUnidentified(o)
      <3>1. /\ Arrives(o, "unidentified")
            /\ RecordStarted(o, "started") \/ UNCHANGED <<receipt, remembered>>
        BY <2>2 DEF AckUnidentified
      <3> QED  BY <3>1
    <2>3. CASE AckFailed(o)
      <3>1. Arrives(o, "unknown") /\ UNCHANGED <<receipt, remembered>>
        BY <2>3 DEF AckFailed, storage
      <3> QED  BY <3>1
    <2> QED  BY <2>1, <2>2, <2>3
  <1>2. UNCHANGED <<guard, fences, sent, exact, stops>>
    BY DEF AckStarted, AckUnidentified, AckFailed, storage
  <1>3. Keeps /\ HistoryOK' /\ sent' = sent
    BY <1>1, <1>2, ArrivalOps DEF RetryInv
  <1>4. o \in StartedOps'
    <2>1. o <= sent /\ ops'[o] = Settled(o, ack)
      BY <1>1 DEF Arrives, RetryInv, HistoryOK, OpsOK
    <2>2. ops'[o].ack = ack
      BY <2>1 DEF Settled, NoOp
    <2> QED  BY <1>3, <2>1, <2>2 DEF StartedOps
  <1>5. StorageOK' /\ ReceiptNeverBehind'
    BY <1>1, <1>2, <1>3, <1>4, RecordStartedOK, StorageStays, ReceiptCovers
  <1>6. FencesOK' /\ StopsOK' /\ SharedNewest'
    BY <1>2, <1>3, FencesStay, StopsStay, SharedStays DEF fences
  <1> QED  BY <1>2, <1>3, <1>5, <1>6 DEF RetryInv

\* An answer that says an operation did not start.
LEMMA UnstartedOps ==
  ASSUME RetryInv, NEW o \in Ops, NEW ack \in {"not_started", "refused"},
         Arrives(o, ack), UNCHANGED sent
  PROVE  /\ Keeps /\ HistoryOK' /\ sent' = sent
         /\ o <= sent /\ ops[o].ack = "none" /\ ~MayRun(o)'
  <1>1. Keeps /\ HistoryOK' /\ sent' = sent
    BY ArrivalOps DEF RetryInv
  <1>2. o <= sent /\ ops[o].ack = "none" /\ ops'[o] = Settled(o, ack)
    BY DEF Arrives, RetryInv, HistoryOK, OpsOK
  <1>3. ops'[o].ack = ack
    BY <1>2 DEF Settled, NoOp
  <1> QED  BY <1>1, <1>2, <1>3 DEF MayRun

\* An operation that did not start gives back its receipt and its fences.
LEMMA AckNotStartedOK ==
  ASSUME RetryInv, NEW o \in Ops, AckNotStarted(o)
  PROVE  RetryInv'
  <1> DEFINE back == Restored(receipt'.op, o)
  <1>1. /\ Arrives(o, "not_started") /\ UNCHANGED <<guard, sent, exact, stops>>
        /\ RestoreUnstarted(o) \/ UNCHANGED <<receipt, remembered>>
        /\ (shared' = back /\ PaneBecomes(o, back)) \/ UNCHANGED fences
    BY DEF AckNotStarted
  <1>2. /\ Keeps /\ HistoryOK' /\ sent' = sent
        /\ o <= sent /\ ops[o].ack = "none" /\ ~MayRun(o)'
    BY <1>1, UnstartedOps
  <1>3. StorageOK' /\ ReceiptNeverBehind'
    BY <1>1, <1>2, RestoreUnstartedOK, StorageStays, ReceiptCovers
  <1>4. StopsOK'
    BY <1>1, <1>2, StopsStay
  <1>5. FencesOK' /\ SharedNewest'
    <2>1. CASE UNCHANGED fences
      BY <1>2, <2>1, FencesStay, SharedStays DEF fences
    <2>2. CASE shared' = back /\ PaneBecomes(o, back)
      <3>1. receipt'.op \in 0..sent'
        BY <1>3 DEF StorageOK, ReceiptOK
      <3>2. FenceOK(back, sent', StartedOps') /\ back.kind = "restored"
        BY <3>1 DEF FenceOK, Restored
      <3>3. DOMAIN pane' = Panes /\ \A q \in Panes : pane'[q] = back \/ pane'[q] = pane[q]
        BY <2>2 DEF PaneBecomes
      <3>4. \A q \in Panes : FenceOK(pane'[q], sent', StartedOps')
        <4> TAKE q \in Panes
        <4>1. FenceOK(pane[q], sent, StartedOps)
          BY DEF RetryInv, FencesOK
        <4> QED  BY <1>2, <3>2, <3>3, <4>1, FenceKeeps
      <3>5. SharedNewest'
        BY <2>2, <3>2 DEF SharedNewest
      <3> QED  BY <2>2, <3>2, <3>3, <3>4, <3>5 DEF FencesOK
    <2> QED  BY <1>1, <2>1, <2>2
  <1> QED  BY <1>1, <1>2, <1>3, <1>4, <1>5 DEF RetryInv

\* A refused retry gives back its receipt and its fences.
LEMMA AckRefusedOK ==
  ASSUME RetryInv, NEW o \in Ops, AckRefused(o)
  PROVE  RetryInv'
  <1>1. Arrives(o, "refused") /\ RestoreUnstarted(o) /\ UNCHANGED <<guard, sent, exact, stops>>
    BY DEF AckRefused
  <1>2. /\ shared' \in {shared, NoFence, ops[o].prevShared}
        /\ shared' \notin {shared, NoFence} => shared = Own(o)
        /\ DOMAIN pane' = Panes
        /\ \A q \in Panes : pane'[q] \in {pane[q], NoFence, ops[o].prevPane}
    <2>1. DOMAIN pane = Panes
      BY DEF RetryInv, FencesOK
    <2> QED  BY <2>1 DEF AckRefused, PaneBecomes
  <1>3. /\ Keeps /\ HistoryOK' /\ sent' = sent
        /\ o <= sent /\ ops[o].ack = "none" /\ ~MayRun(o)'
    BY <1>1, UnstartedOps
  <1>4. StorageOK' /\ ReceiptNeverBehind'
    BY <1>1, <1>3, RestoreUnstartedOK
  <1>5. StopsOK'
    BY <1>1, <1>3, StopsStay
  <1>6. /\ sent \in Nat
        /\ FenceOK(NoFence, sent, StartedOps) /\ FenceOK(shared, sent, StartedOps)
        /\ FenceOK(ops[o].prevShared, sent, StartedOps)
        /\ FenceOK(ops[o].prevPane, sent, StartedOps)
        /\ DOMAIN pane = Panes /\ \A q \in Panes : FenceOK(pane[q], sent, StartedOps)
    BY <1>3, KnownNumbers, NothingOK DEF RetryInv, HistoryOK, OpsOK, FencesOK
  <1>7. FencesOK'
    <2>1. FenceOK(shared', sent', StartedOps')
      BY <1>2, <1>3, <1>6, FenceKeeps
    <2>2. \A q \in Panes : FenceOK(pane'[q], sent', StartedOps')
      <3> TAKE q \in Panes
      <3>1. pane'[q] \in {pane[q], NoFence, ops[o].prevPane}
        BY <1>2
      <3> QED  BY <1>3, <1>6, <3>1, FenceKeeps
    <2> QED  BY <1>2, <2>1, <2>2 DEF FencesOK
  <1>8. SharedNewest'
    <2>1. CASE shared' = shared
      BY <1>3, <2>1, SharedStays
    <2>2. CASE shared' = NoFence
      BY <2>2 DEF SharedNewest, NoFence
    <2>3. CASE shared = Own(o) /\ shared' = ops[o].prevShared
      <3> SUFFICES ASSUME shared'.kind = "own", NEW q \in Ops, q > shared'.op, MayRun(q)'
                   PROVE  FALSE
        BY DEF SharedNewest
      <3>1. q <= sent /\ MayRun(q) /\ q # o
        BY <1>3 DEF MayRun, Keeps
      <3>2. q <= o
        BY <2>3, <3>1 DEF RetryInv, SharedNewest, Own, NoFence, Ops
      <3> QED  BY <1>3, <2>3, <3>1, <3>2 DEF RetryInv, HistoryOK, ReplacedNewest, Ops
    <2> QED  BY <1>2, <2>1, <2>2, <2>3
  <1> QED  BY <1>1, <1>3, <1>4, <1>5, <1>7, <1>8 DEF RetryInv

\* Another tab sets the guard; remembered evidence expires.
LEMMA StorageStepsOK ==
  ASSUME RetryInv, GuardAppears \/ Forget
  PROVE  RetryInv'
  <1>1. /\ UNCHANGED <<ops, sent, receipt, fences, exact, stops>>
        /\ guard' \in {guard, TRUE} /\ remembered' \subseteq remembered
    BY DEF GuardAppears, Forget, storage
  <1>2. Keeps /\ HistoryOK' /\ sent' = sent
    BY <1>1, SameOps DEF RetryInv
  <1>3. StorageOK'
    <2>1. ReceiptOK(receipt', sent', StartedOps')
      BY <1>1, <1>2, KnownNumbers, ReceiptStays DEF RetryInv, StorageOK
    <2>2. remembered' \subseteq [st : {"confirmed", "started"}, op : StartedOps']
      BY <1>1, <1>2, KnownNumbers DEF RetryInv, StorageOK
    <2>3. CASE guard' = guard
      <3>1. (receipt # NoReceipt => guard) /\ guard \in BOOLEAN
        BY DEF RetryInv, StorageOK
      <3>2. (receipt' # NoReceipt => guard') /\ guard' \in BOOLEAN
        BY <1>1, <2>3, <3>1
      <3> QED  BY <2>1, <2>2, <3>2 DEF StorageOK
    <2>4. CASE guard' = TRUE
      BY <2>1, <2>2, <2>4 DEF StorageOK
    <2> QED  BY <1>1, <2>3, <2>4
  <1>4. ReceiptNeverBehind' /\ FencesOK' /\ StopsOK' /\ SharedNewest'
    BY <1>1, <1>2, ReceiptCovers, FencesStay, StopsStay, SharedStays DEF fences
  <1> QED  BY <1>1, <1>2, <1>3, <1>4 DEF RetryInv

\* The page forgets all but its storage.
LEMMA ReloadOK ==
  ASSUME RetryInv, Reload
  PROVE  RetryInv'
  <1>1. /\ UNCHANGED <<receipt, guard, exact>> /\ remembered' = {} /\ stops' \subseteq stops
        /\ shared' = NoFence /\ pane' = [p \in Panes |-> NoFence]
    BY DEF Reload, storage
  <1>2. Keeps /\ HistoryOK' /\ sent' = sent
    BY ReloadOps DEF RetryInv
  <1>3. StorageOK'
    <2>1. ReceiptOK(receipt', sent', StartedOps')
      BY <1>1, <1>2, KnownNumbers, ReceiptStays DEF RetryInv, StorageOK
    <2> QED  BY <1>1, <2>1 DEF RetryInv, StorageOK
  <1>4. FencesOK'
    BY <1>1, <1>2, KnownNumbers, NothingOK DEF FencesOK
  <1>5. SharedNewest'
    BY <1>1 DEF SharedNewest, NoFence
  <1>6. ReceiptNeverBehind' /\ StopsOK'
    BY <1>1, <1>2, ReceiptCovers, StopsStay
  <1> QED  BY <1>1, <1>2, <1>3, <1>4, <1>5, <1>6 DEF RetryInv

\* A step that leaves what is sent, the receipt and the answers alone, and moves
\* fences and Stops only.
LEMMA FenceStep ==
  ASSUME RetryInv, UNCHANGED <<storage, remembered, ops, sent, exact>>
  PROVE  /\ Keeps /\ HistoryOK' /\ sent' = sent /\ exact' \in BOOLEAN
         /\ StorageOK' /\ ReceiptNeverBehind'
         /\ FencesOK' /\ StopsOK' /\ SharedNewest' => RetryInv'
  <1>1. UNCHANGED <<receipt, guard>>
    BY DEF storage
  <1>2. Keeps /\ HistoryOK' /\ sent' = sent
    BY SameOps DEF RetryInv
  <1>3. StorageOK' /\ ReceiptNeverBehind'
    BY <1>1, <1>2, StorageStays, ReceiptCovers
  <1> QED  BY <1>1, <1>2, <1>3 DEF RetryInv

\* The fences that are made when none is at hand.
LEMMA MadeFenceOK ==
  ASSUME RetryInv, NEW p,
         NEW f \in {Restored(receipt.op, p), Confirmed(receipt.op, p), Unowned(p)},
         f = Confirmed(receipt.op, p) => Persisted = "confirmed"
  PROVE  FenceOK(f, sent, StartedOps) /\ f.kind # "own"
  <1>1. sent \in Nat /\ ReceiptOK(receipt, sent, StartedOps)
    BY BoundsAssumption DEF RetryInv, HistoryOK, StorageOK
  <1>2. receipt.op \in 0..sent
    BY <1>1 DEF ReceiptOK
  <1>3. CASE f = Restored(receipt.op, p)
    BY <1>2, <1>3 DEF FenceOK, Restored
  <1>4. CASE f = Unowned(p)
    BY <1>1, <1>4 DEF FenceOK, Unowned, NoFence
  <1>5. CASE f = Confirmed(receipt.op, p)
    <2>1. receipt.st = "confirmed"
      BY <1>5 DEF Persisted
    <2> QED  BY <1>1, <1>2, <1>5, <2>1 DEF FenceOK, Confirmed, NoFence, ReceiptOK
  <1> QED  BY <1>3, <1>4, <1>5

\* Replacing one pane's fence.
LEMMA PaneOK ==
  ASSUME RetryInv, Keeps, HistoryOK', sent' = sent, NEW p \in Panes, NEW f,
         FenceOK(f, sent, StartedOps), pane' = [pane EXCEPT ![p] = f],
         FenceOK(shared', sent, StartedOps)
  PROVE  FencesOK'
  <1>1. DOMAIN pane' = Panes /\ \A q \in Panes : pane'[q] = f \/ pane'[q] = pane[q]
    BY DEF RetryInv, FencesOK
  <1>2. \A q \in Panes : FenceOK(pane'[q], sent', StartedOps')
    <2> TAKE q \in Panes
    <2>1. FenceOK(pane[q], sent, StartedOps)
      BY DEF RetryInv, FencesOK
    <2> QED  BY <1>1, <2>1, FenceKeeps
  <1>3. FenceOK(shared', sent', StartedOps')
    BY FenceKeeps
  <1> QED  BY <1>1, <1>2, <1>3 DEF FencesOK

\* A pane loses its fence.
LEMMA RemountOK ==
  ASSUME RetryInv, NEW p \in Panes, Remount(p)
  PROVE  RetryInv'
  <1>1. /\ UNCHANGED <<receipt, guard, remembered, exact, shared, stops>>
        /\ pane' = [pane EXCEPT ![p] = NoFence]
    BY DEF Remount, storage
  <1>2. Keeps /\ HistoryOK' /\ sent' = sent
    BY RemountOps DEF RetryInv
  <1>3. StorageOK' /\ ReceiptNeverBehind'
    BY <1>1, <1>2, StorageStays, ReceiptCovers
  <1>4. FenceOK(NoFence, sent, StartedOps) /\ FenceOK(shared', sent, StartedOps)
    BY <1>1, <1>2, KnownNumbers, NothingOK DEF RetryInv, FencesOK
  <1>5. FencesOK'
    BY <1>1, <1>2, <1>4, PaneOK
  <1>6. StopsOK' /\ SharedNewest'
    BY <1>1, <1>2, StopsStay, SharedStays
  <1> QED  BY <1>1, <1>2, <1>3, <1>5, <1>6 DEF RetryInv

\* A pane takes a fence.
LEMMA ResumeOK ==
  ASSUME RetryInv, NEW p \in Panes, Resume(p)
  PROVE  RetryInv'
  <1>1. /\ UNCHANGED <<storage, remembered, ops, sent, exact>>
        /\ shared' = shared /\ stops' = stops
    BY DEF Resume
  <1>2. Keeps /\ HistoryOK' /\ sent' = sent
    BY <1>1, FenceStep
  <1>3. FenceOK(shared, sent, StartedOps)
    BY DEF RetryInv, FencesOK
  <1>4. PICK f : FenceOK(f, sent, StartedOps) /\ pane' = [pane EXCEPT ![p] = f]
    <2>1. CASE pane' = [pane EXCEPT ![p] = shared]
      BY <1>3, <2>1
    <2>2. CASE pane' = [pane EXCEPT ![p] = Restored(receipt.op, p)]
      BY <2>2, MadeFenceOK DEF Confirmed, Restored, NoFence
    <2>3. CASE Persisted = "confirmed" /\ pane' = [pane EXCEPT ![p] = Confirmed(receipt.op, p)]
      BY <2>3, MadeFenceOK
    <2>4. CASE pane' = [pane EXCEPT ![p] = Unowned(p)]
      BY <2>4, MadeFenceOK DEF Confirmed, Unowned, NoFence
    <2> QED  BY <2>1, <2>2, <2>3, <2>4 DEF Resume
  <1>5. FencesOK'
    BY <1>1, <1>2, <1>3, <1>4, PaneOK
  <1>6. StopsOK' /\ SharedNewest'
    BY <1>1, <1>2, StopsStay, SharedStays
  <1> QED  BY <1>1, <1>5, <1>6, FenceStep

\* A Stop is asked for, under a fence that is there or is made.
LEMMA StopOK ==
  ASSUME RetryInv, NEW p \in Panes, Stop(p)
  PROVE  RetryInv'
  <1>1. UNCHANGED <<storage, remembered, ops, sent, exact>>
    BY DEF Stop
  <1>2. Keeps /\ HistoryOK' /\ sent' = sent
    BY <1>1, FenceStep
  <1>3. /\ FenceOK(shared, sent, StartedOps) /\ FenceOK(pane[p], sent, StartedOps)
        /\ sent \in Nat
    BY <1>2, KnownNumbers DEF RetryInv, FencesOK
  <1>4. PICK f : /\ FenceOK(f, sent, StartedOps)
                 /\ pane' = [pane EXCEPT ![p] = f] /\ Request(f)
                 /\ shared' = shared \/ (shared' = f /\ f.kind # "own")
    <2> DEFINE Use(f) == pane' = [pane EXCEPT ![p] = f] /\ Request(f)
    <2>1. CASE shared' = shared /\ (Use(pane[p]) \/ Use(shared))
      BY <1>3, <2>1
    <2>2. CASE shared' = shared /\ Use(Restored(receipt.op, p))
      BY <2>2, MadeFenceOK DEF Confirmed, Restored, NoFence
    <2>3. CASE /\ Persisted = "confirmed" /\ Use(Confirmed(receipt.op, p))
               /\ shared' = Confirmed(receipt.op, p)
      BY <2>3, MadeFenceOK
    <2>4. CASE shared' = shared /\ Use(Unowned(p))
      BY <2>4, MadeFenceOK DEF Confirmed, Unowned, NoFence
    <2> QED  BY <2>1, <2>2, <2>3, <2>4 DEF Stop
  <1>5. FencesOK'
    BY <1>2, <1>3, <1>4, PaneOK
  <1>6. SharedNewest'
    <2>1. CASE shared' = shared
      BY <1>2, <2>1, SharedStays
    <2>2. CASE shared'.kind # "own"
      BY <2>2 DEF SharedNewest
    <2> QED  BY <1>4, <2>1, <2>2
  <1>7. StopsOK'
    <2>1. stops' \subseteq stops \cup {[fence |-> f, st |-> "waiting", run |-> NoRun]}
      BY <1>4 DEF Request
    <2> SUFFICES ASSUME NEW s \in stops'
                 PROVE  /\ s.st \in {"waiting", "sent"} /\ s.run \in 0..sent'
                        /\ FenceOK(s.fence, sent', StartedOps') /\ IsStop(s)
      BY DEF StopsOK
    <2>2. CASE s \in stops
      BY <1>2, <2>2, FenceKeeps DEF RetryInv, StopsOK
    <2>3. CASE s = [fence |-> f, st |-> "waiting", run |-> NoRun]
      BY <1>2, <1>3, <1>4, <2>3, FenceKeeps DEF NoRun, IsStop
    <2> QED  BY <2>1, <2>2, <2>3
  <1> QED  BY <1>1, <1>5, <1>6, <1>7, FenceStep

-----------------------------------------------------------------------------
(* What a Stop may send.                                                   *)

\* The fence's own run or no run; and no run only to a server that could not
\* tell, while nothing newer may be running.
LEMMA MaySendHits ==
  ASSUME RetryInv, NEW f, FenceOK(f, sent, StartedOps), NEW run \in Ops \cup {NoRun},
         MaySend(f, run)
  PROVE  /\ run # NoRun => run = f.op /\ MayRun(run)
         /\ run = NoRun =>
              /\ ~exact
              /\ \A o \in Ops :
                   MayRun(o) /\ (ops[o].reserved \/ f.kind = "own") => o <= f.op
  <1>1. /\ sent \in Nat /\ ReceiptOK(receipt, sent, StartedOps) /\ f.op \in 0..sent
        /\ receipt.op \in 0..sent
    BY BoundsAssumption DEF RetryInv, HistoryOK, StorageOK, FenceOK, ReceiptOK
  <1>2. \A o \in StartedOps : o # NoRun /\ MayRun(o)
    BY DEF StartedOps, MayRun, Ops, NoRun
  <1>3. \A o \in Ops : ops[o].reserved /\ MayRun(o) => o <= receipt.op
    BY DEF RetryInv, ReceiptNeverBehind
  <1>4. \A o : OrdinaryStarted(o) => receipt.op = o
    BY DEF OrdinaryStarted
  <1>5. CASE f.kind = "own" /\ OwnMaySend(f.op, run)
    <2>1. f.op # 0
      BY <1>5 DEF FenceOK
    <2>2. CASE exact /\ ops[f.op].ack = "started" /\ run = f.op
      BY <1>1, <2>1, <2>2 DEF MayRun, NoRun
    <2>3. CASE ~exact /\ run = NoRun /\ shared = Own(f.op)
      <3>1. \A o \in Ops : o > f.op => ~MayRun(o)
        BY <2>3 DEF RetryInv, SharedNewest, Own, NoFence
      <3> QED  BY <1>1, <2>3, <3>1 DEF Ops
    <2> QED  BY <1>5, <2>2, <2>3 DEF OwnMaySend
  <1>6. CASE f.kind = "restored" /\ RestoredMaySend(f, run)
    <2>1. receipt.op = f.op
      BY <1>4, <1>6 DEF RestoredMaySend
    <2>2. CASE exact /\ receipt.st = "confirmed" /\ run = receipt.op
      <3>1. run \in StartedOps
        BY <1>1, <2>2 DEF ReceiptOK
      <3> QED  BY <1>2, <2>1, <2>2, <3>1
    <2>3. CASE ~exact /\ run = NoRun
      BY <1>3, <1>6, <2>1, <2>3
    <2> QED  BY <1>6, <2>2, <2>3 DEF RestoredMaySend
  <1>7. CASE f.kind = "confirmed" /\ exact /\ run = f.op
    BY <1>2, <1>7 DEF FenceOK
  <1>8. CASE f.kind = "unowned" /\ UnownedMaySend(f, run)
    <2>1. ~exact /\ run = NoRun /\ receipt.st \notin {"confirmed", "started", "pending"}
      BY <1>8 DEF UnownedMaySend, Persisted
    <2>2. receipt.op = 0
      BY <1>1, <2>1 DEF ReceiptOK, NoReceipt
    <2>3. \A o \in Ops : ~(o <= receipt.op)
      BY <2>2 DEF Ops
    <2> QED  BY <1>3, <1>8, <2>1, <2>3
  <1> QED  BY <1>5, <1>6, <1>7, <1>8 DEF MaySend

\* Sending a Stop keeps its fence.
LEMMA SentStop ==
  ASSUME NEW s, NEW run, IsStop(s)
  PROVE  LET u == [s EXCEPT !.st = "sent", !.run = run]
         IN  u.fence = s.fence /\ u.st = "sent" /\ u.run = run /\ IsStop(u)
  BY DEF IsStop

\* A Stop is sent or rejected.
LEMMA StopEndsOK ==
  ASSUME RetryInv, NEW s \in stops, StopSent(s) \/ StopRejected(s)
  PROVE  RetryInv'
  <1>1. UNCHANGED <<storage, remembered, ops, sent, exact>> /\ UNCHANGED fences
    BY DEF StopSent, StopRejected
  <1>2. Keeps /\ HistoryOK' /\ sent' = sent
    BY <1>1, FenceStep
  <1>3. FencesOK' /\ SharedNewest'
    BY <1>1, <1>2, FencesStay, SharedStays DEF fences
  <1>4. StopsOK'
    <2>1. CASE StopRejected(s)
      <3>1. stops' \subseteq stops
        BY <2>1 DEF StopRejected
      <3> QED  BY <1>2, <3>1, StopsStay
    <2>2. CASE StopSent(s)
      <3>1. PICK run \in Ops \cup {NoRun} :
              /\ MaySend(s.fence, run)
              /\ stops' = (stops \ {s}) \cup {[s EXCEPT !.st = "sent", !.run = run]}
        BY <2>2 DEF StopSent
      <3>2. FenceOK(s.fence, sent, StartedOps)
        BY DEF RetryInv, StopsOK
      <3> SUFFICES ASSUME NEW u \in stops'
                   PROVE  /\ u.st \in {"waiting", "sent"} /\ u.run \in 0..sent'
                          /\ FenceOK(u.fence, sent', StartedOps') /\ IsStop(u)
        BY DEF StopsOK
      <3>3. CASE u \in stops
        BY <1>2, <3>3, FenceKeeps DEF RetryInv, StopsOK
      <3>4. CASE u = [s EXCEPT !.st = "sent", !.run = run]
        <4>1. run \in 0..sent
          BY <3>1, <3>2, KnownNumbers, <1>2, MaySendHits DEF FenceOK, NoRun
        <4>2. u.fence = s.fence /\ u.st = "sent" /\ u.run = run /\ IsStop(u)
          BY <3>4, SentStop DEF RetryInv, StopsOK
        <4> QED  BY <1>2, <3>2, <4>1, <4>2, FenceKeeps
      <3> QED  BY <3>1, <3>3, <3>4
    <2> QED  BY <2>1, <2>2
  <1> QED  BY <1>1, <1>3, <1>4, FenceStep

-----------------------------------------------------------------------------
(* The theorems.                                                           *)

\* The invariant holds at first.
LEMMA RetryInvInit == Init => RetryInv
  <1> SUFFICES ASSUME Init PROVE RetryInv
    OBVIOUS
  <1>1. sent = 0 /\ sent \in 0..MaxOps /\ MaxOps \in Nat
    BY BoundsAssumption DEF Init
  <1>2. ops = [o \in Ops |-> NoOp] /\ \A o \in Ops : ~(o <= sent) /\ ~MayRun(o)
    BY <1>1 DEF Init, MayRun, Ops
  <1>3. FenceOK(NoFence, sent, StartedOps) /\ ReceiptOK(NoReceipt, sent, StartedOps)
    BY <1>1, NothingOK
  <1>4. OpsOK
    <2>1. \A o \in Ops : IsOp(ops[o])
      BY <1>2, OpRecords
    <2> QED  BY <1>2, <1>3, <2>1 DEF OpsOK, NoOp
  <1>5. HistoryOK
    BY <1>1, <1>2, <1>4 DEF HistoryOK, PriorNeverBehind, ReplacedNewest
  <1>6. StorageOK
    BY <1>3 DEF Init, StorageOK
  <1>7. FencesOK /\ StopsOK
    BY <1>3 DEF Init, FencesOK, StopsOK
  <1>8. ReceiptNeverBehind /\ SharedNewest
    BY <1>2 DEF ReceiptNeverBehind, SharedNewest
  <1> QED  BY <1>5, <1>6, <1>7, <1>8 DEF Init, RetryInv

\* One step per action of the specification.
LEMMA RetryInvStep == RetryInv /\ [Next]_vars => RetryInv'
  <1> SUFFICES ASSUME RetryInv, [Next]_vars PROVE RetryInv'
    OBVIOUS
  <1>1. ASSUME NEW p \in Panes, StartOrdinary(p) \/ StartContinuous(p) PROVE RetryInv'
    BY <1>1, StartOK
  <1>2. ASSUME NEW p \in Panes, Resume(p) \/ Remount(p) PROVE RetryInv'
    BY <1>2, ResumeOK, RemountOK
  <1>3. ASSUME NEW p \in Panes, Stop(p) PROVE RetryInv'
    BY <1>3, StopOK
  <1>4. ASSUME NEW o \in Ops, AckStarted(o) \/ AckUnidentified(o) \/ AckFailed(o)
        PROVE RetryInv'
    BY <1>4, AckOK
  <1>5. ASSUME NEW o \in Ops, AckNotStarted(o) PROVE RetryInv'
    BY <1>5, AckNotStartedOK
  <1>6. ASSUME NEW o \in Ops, AckRefused(o) PROVE RetryInv'
    BY <1>6, AckRefusedOK
  <1>7. ASSUME NEW s \in stops, StopSent(s) \/ StopRejected(s) PROVE RetryInv'
    BY <1>7, StopEndsOK
  <1>8. CASE GuardAppears \/ Forget
    BY <1>8, StorageStepsOK
  <1>9. CASE Reload
    BY <1>9, ReloadOK
  <1>10. CASE UNCHANGED vars
    <2>1. UNCHANGED <<storage, remembered, ops, sent, exact>> /\ UNCHANGED fences
          /\ stops' = stops
      BY <1>10 DEF vars
    <2>2. Keeps /\ HistoryOK' /\ sent' = sent
      BY <2>1, FenceStep
    <2>3. FencesOK' /\ StopsOK' /\ SharedNewest'
      BY <2>1, <2>2, FencesStay, StopsStay, SharedStays DEF fences
    <2> QED  BY <2>1, <2>3, FenceStep
  <1> QED  BY <1>1, <1>2, <1>3, <1>4, <1>5, <1>6, <1>7, <1>8, <1>9, <1>10 DEF Next

\* The invariant of every behaviour.
LEMMA RetryInvAlways == Spec => []RetryInv
  BY RetryInvInit, RetryInvStep, PTL DEF Spec

\* The invariant contains the type invariant.
LEMMA RetryInvTypes == RetryInv => TypeOK
  <1> SUFFICES ASSUME RetryInv PROVE TypeOK
    OBVIOUS
  <1>1. /\ receipt \in [st : {"none", "pending", "confirmed", "started"}, op : 0..sent]
        /\ receipt # NoReceipt => guard
        /\ guard \in BOOLEAN
    BY DEF RetryInv, StorageOK, ReceiptOK
  <1>2. remembered \subseteq [st : {"confirmed", "started"}, op : Ops]
    BY DEF RetryInv, StorageOK, StartedOps
  <1>3. \A f \in {shared} \cup {pane[p] : p \in Panes} :
          f.kind \in {"none", "own", "restored", "confirmed", "unowned"} /\ f.op \in 0..sent
    BY DEF RetryInv, FencesOK, FenceOK
  <1>4. \A s \in stops : s.st \in {"waiting", "sent"} /\ s.run \in 0..sent
    BY DEF RetryInv, StopsOK
  <1> QED  BY <1>1, <1>2, <1>3, <1>4 DEF RetryInv, HistoryOK, TypeOK

\* What the tab keeps in storage and in memory only names Executes it sent, and
\* no receipt stands without the guard, whatever was given back or remembered
\* (writeState and the fences of useChat).
THEOREM TypesAlways == Spec => []TypeOK
  BY RetryInvAlways, RetryInvTypes, PTL

\* An Execute that reserved the receipt and may have started a run is covered by
\* the receipt of the tab for ever, however the answers are ordered or lost
\* (recordStartedAck, restoreConfirmedUnstartedRetryFence, reload).
THEOREM ReceiptNeverBehindAlways == Spec => []ReceiptNeverBehind
  <1>1. RetryInv => ReceiptNeverBehind
    BY DEF RetryInv
  <1> QED  BY <1>1, RetryInvAlways, PTL

\* A step that sends a Stop sends one that hits its run.
LEMMA StepHits ==
  ASSUME RetryInv, Next, NEW s \in stops' \ stops
  PROVE  /\ s.run # NoRun => s.run = s.fence.op /\ MayRun(s.run)
         /\ s.st = "sent" /\ s.run = NoRun =>
              /\ ~exact
              /\ \A o \in Ops :
                   MayRun(o) /\ (ops[o].reserved \/ s.fence.kind = "own") => o <= s.fence.op
  <1>1. \/ \E p \in Panes : Stop(p)
        \/ \E u \in stops : StopSent(u)
        \/ stops' \subseteq stops
    BY DEF Next, StartOrdinary, StartContinuous, Resume, Remount, AckStarted,
           AckUnidentified, AckNotStarted, AckRefused, AckFailed, StopRejected,
           GuardAppears, Forget, Reload
  <1>2. ASSUME NEW p \in Panes, Stop(p) PROVE s.st = "waiting" /\ s.run = NoRun
    <2>1. PICK f : Request(f)
      BY <1>2 DEF Stop
    <2>2. s = [fence |-> f, st |-> "waiting", run |-> NoRun]
      BY <2>1 DEF Request
    <2> QED  BY <2>2
  <1>3. ASSUME NEW u \in stops, StopSent(u)
        PROVE  \E run \in Ops \cup {NoRun} :
                 /\ MaySend(u.fence, run) /\ FenceOK(u.fence, sent, StartedOps)
                 /\ s = [u EXCEPT !.st = "sent", !.run = run]
    BY <1>3 DEF StopSent, RetryInv, StopsOK
  <1>4. ASSUME NEW u \in stops, NEW run \in Ops \cup {NoRun},
               MaySend(u.fence, run), FenceOK(u.fence, sent, StartedOps),
               s.run = run, s.fence = u.fence
        PROVE  /\ s.run # NoRun => s.run = s.fence.op /\ MayRun(s.run)
               /\ s.run = NoRun =>
                    /\ ~exact
                    /\ \A o \in Ops :
                         MayRun(o) /\ (ops[o].reserved \/ s.fence.kind = "own") => o <= s.fence.op
    BY <1>4, MaySendHits
  <1>5. CASE \E p \in Panes : Stop(p)
    BY <1>2, <1>5
  <1>6. CASE \E u \in stops : StopSent(u)
    <2>1. PICK u \in stops, run \in Ops \cup {NoRun} :
            /\ MaySend(u.fence, run) /\ FenceOK(u.fence, sent, StartedOps)
            /\ s = [u EXCEPT !.st = "sent", !.run = run]
      BY <1>3, <1>6
    <2>2. s.run = run /\ s.fence = u.fence
      BY <2>1, SentStop DEF RetryInv, StopsOK
    <2> QED  BY <1>4, <2>1, <2>2
  <1> QED  BY <1>1, <1>5, <1>6

\* A Stop never reaches a run other than the one its fence was made for, whatever
\* happened while the capability was read: named, it names that run; unnamed, no
\* newer run may be active (stop in useChat).
THEOREM StopHitsAlways == Spec => StopHitsItsRun
  <1> DEFINE Hits ==
        \A s \in stops' \ stops :
          /\ s.run # NoRun => s.run = s.fence.op /\ MayRun(s.run)
          /\ s.st = "sent" /\ s.run = NoRun =>
               /\ ~exact
               /\ \A o \in Ops :
                    MayRun(o) /\ (ops[o].reserved \/ s.fence.kind = "own") => o <= s.fence.op
  <1>1. RetryInv /\ [Next]_vars => [Hits]_vars
    BY StepHits
  <1> QED  BY <1>1, RetryInvAlways, PTL DEF Spec, StopHitsItsRun

-----------------------------------------------------------------------------
(***************************************************************************)
(* Transcript.                                                             *)
(***************************************************************************)

Settles(f) == f.type \in {"history_committed", "committed_snapshot"}
Snaps(f)   == f.type \in {"snapshot", "committed_snapshot"}
Streams(f) == f.type \in {"started", "delta"}

\* The frame brings message i to the live part.
Mentions(f, i) == \/ Streams(f) /\ f.id = i
                  \/ f.type = "snapshot" /\ f.messages[i] # Absent

\* The text of message i that the frame brings.
Amount(f, i) == CASE f.type = "snapshot"            -> f.messages[i]
                  [] f.type = "delta" /\ f.id = i   -> f.offset + f.length
                  [] f.type = "started" /\ f.id = i -> 0
                  [] OTHER                          -> Absent

\* What the server has of message i.
Known(i) == Max2(durable[i], stream[i])

Frames ==
    {f \in [type : FrameTypes, version : 0..MaxVersion, id : Ids \cup {None},
            offset : 0..MaxLength, length : 0..1, messages : Store,
            ended : BOOLEAN, reply : BOOLEAN] :
        /\ f.type \in {"started", "delta", "discarded"} => f.id \in Ids
        /\ f.type = "delta" => f.offset + f.length <= MaxLength /\ f.length = 1
        /\ f.type = "committed_snapshot" => f.reply
        /\ f.type = "snapshot" /\ ~f.reply => f.messages = Empty}

Types == TranscriptTypes /\ down \in Seq(Frames)

FramesOK == \A k \in 1..Len(down) :
    /\ down[k].type = "discarded" => used[down[k].id] = "discarded"
    /\ down[k].reply => k = 1 /\ serving = "live" /\ Snaps(down[k])

ReadsOK ==
    /\ request.made /\ ~request.current => t.needsReconcile
    /\ t.needsReconcile /\ ~request.made => error
    /\ ~t.commitPending => t.kept = Empty

RestOK ==
    /\ serving # "no" => ready
    /\ serving = "no" => down = <<>>
    /\ phase = "committed" => stream = Empty
    /\ phase = "committed" /\ down # <<>> => Settles(down[Len(down)])
    /\ phase = "committed" /\ serving = "live" /\ down = <<>> =>
        /\ t.live = Empty
        /\ request.made /\ request.current /\ request.answer # None
               => request.answer = durable
        /\ ~request.made /\ ~error => t.history = durable /\ t.kept = Empty

NewOK == \A i \in Ids : used[i] = "new" =>
    /\ durable[i] = Absent /\ stream[i] = Absent
    /\ t.history[i] = Absent /\ t.kept[i] = Absent /\ t.live[i] = Absent
    /\ \A k \in 1..Len(down) : ~Mentions(down[k], i)
    /\ request.answer # None => request.answer[i] = Absent

BoundsOK == \A i \in Ids : used[i] # "discarded" =>
    /\ t.history[i] <= durable[i]
    /\ request.answer # None =>
           t.history[i] <= request.answer[i] /\ request.answer[i] <= durable[i]
    /\ t.live[i] <= Known(i)
    /\ \A k \in 1..Len(down) : Amount(down[k], i) <= Known(i)

KeptOK == ~mixed => \A i \in Ids : used[i] # "discarded" =>
    /\ t.kept[i] <= durable[i]
    /\ request.made /\ request.current /\ request.answer # None
           => t.kept[i] <= request.answer[i]
    /\ \A k \in 1..Len(down) : Settles(down[k]) =>
           /\ t.live[i] <= durable[i]
           /\ \A j \in 1..(k - 1) : Amount(down[j], i) <= durable[i]

RegisteredOK == ~mixed /\ serving = "registered" => \A k \in 1..Len(down) :
    /\ ~Snaps(down[k])
    /\ Settles(down[k]) => phase = "committed"
    /\ down[k].version <= version

RunnerOK == ~mixed => \A k \in 1..Len(down) :
    down[k].type = "snapshot" /\ ~down[k].reply =>
        /\ k = 1 => t.live = Empty
        /\ k > 1 => Settles(down[k - 1])

\* Frame k is of a version that will have been seen when it is delivered.
Stale(k) ==
    /\ \A j \in 2..(k - 1) : ~Snaps(down[j])
    /\ IF k > 1 /\ Snaps(down[1]) THEN down[k].version <= down[1].version
       ELSE t.version # None /\ down[k].version <= t.version

\* Nothing of message i is kept when frame k is delivered.
Unkept(i, k) ==
    /\ t.kept[i] = Absent
    /\ \A j \in 1..(k - 1) : Settles(down[j]) =>
           /\ t.live[i] = Absent
           /\ \A l \in 1..(j - 1) : ~Mentions(down[l], i)

StreamsOK == ~mixed =>
    /\ serving = "live" => \A k \in 1..Len(down), i \in Ids :
           Streams(down[k]) /\ down[k].id = i /\ used[i] = "used" /\ ~Stale(k)
               => Unkept(i, k)
    /\ \A i \in Ids : stream[i] # Absent /\ used[i] = "used"
           => Unkept(i, Len(down) + 1)

TranscriptInv == Types /\ FramesOK /\ ReadsOK /\ RestOK /\ NewOK /\ BoundsOK
                 /\ KeptOK /\ RegisteredOK /\ RunnerOK /\ StreamsOK

-----------------------------------------------------------------------------
LEMMA Values ==
    /\ MaxLength \in Nat /\ MaxVersion \in Nat
    /\ None \notin 0..MaxVersion
    /\ Texts = {n \in Int : -1 <= n /\ n <= MaxLength}
    /\ Empty \in Store /\ \A i \in Ids : Empty[i] = -1
    /\ Absent = -1
    /\ None \notin Nat
  BY TranscriptAssumption DEF TranscriptAssumption, Texts, Empty, Store, Absent

LEMMA MaxFact ==
    ASSUME NEW a \in Int, NEW b \in Int
    PROVE  /\ Max2(a, b) \in Int /\ Max2(a, b) >= a /\ Max2(a, b) >= b
           /\ Max2(a, b) \in {a, b}
  BY DEF Max2

LEMMA FrameTyped ==
    ASSUME NEW f \in Frames
    PROVE  /\ f.type \in FrameTypes /\ f.version \in 0..MaxVersion
           /\ f.offset \in Nat /\ f.length \in Nat /\ f.messages \in Store
           /\ f.offset + f.length \in Nat
           /\ f.reply \in BOOLEAN /\ f.ended \in BOOLEAN
           /\ f.type \in {"started", "delta", "discarded"} => f.id \in Ids
           /\ f.type = "delta" => f.offset + f.length <= MaxLength /\ f.length = 1
  BY TranscriptAssumption DEF Frames, TranscriptAssumption

LEMMA MergeFact ==
    ASSUME NEW a \in Store, NEW b \in Store
    PROVE  /\ MergeReplay(a, b) \in Store
           /\ \A i \in Ids : MergeReplay(a, b)[i] = IF b[i] = Absent THEN a[i] ELSE b[i]
           /\ MergeReplay(a, Empty) = a
  BY DEF MergeReplay, Store, Empty, Absent

\* The transcript after a frame.
After(s, f) == Applied(s, f).state

LEMMA SnapshotEffect ==
    ASSUME NEW s \in State, NEW f \in Frames, f.type = "snapshot"
    PROVE  /\ Applied(s, f).revised = TRUE
           /\ After(s, f) \in State
           /\ After(s, f).history = s.history /\ After(s, f).kept = s.kept /\ After(s, f).live = f.messages
           /\ After(s, f).version = f.version
           /\ After(s, f).commitPending = s.commitPending /\ After(s, f).needsReconcile = TRUE
  <1> USE DEF After
  <1> DEFINE n == After(s, f)
  <1>1. f.version \in 0..MaxVersion /\ f.messages \in Store /\ f.ended \in BOOLEAN
    BY FrameTyped
  <1>2. Applied(s, f) = Result(OnSnapshot(s, f), TRUE)
    BY DEF Applied
  <1>3. OnSnapshot(s, f) = [s EXCEPT !.live = f.messages, !.version = f.version,
                                     !.ended = f.ended]
    BY DEF OnSnapshot
  <1>4. n = [OnSnapshot(s, f) EXCEPT !.needsReconcile = TRUE]
        /\ Applied(s, f).revised = TRUE
    BY <1>2 DEF Result, Reconciled
  <1> QED BY <1>1, <1>3, <1>4 DEF State

LEMMA SettlesEffect ==
    ASSUME NEW s \in State, NEW f \in Frames, Settles(f)
    PROVE  /\ Applied(s, f).revised = TRUE
           /\ After(s, f) \in State
           /\ After(s, f).history = s.history /\ After(s, f).kept = MergeReplay(s.kept, s.live)
           /\ After(s, f).live = Empty
           /\ After(s, f).version # None /\ After(s, f).version >= f.version
           /\ f.type = "committed_snapshot" => After(s, f).version = f.version
           /\ f.type = "history_committed" /\ s.version # None => After(s, f).version >= s.version
           /\ After(s, f).commitPending = TRUE /\ After(s, f).needsReconcile = TRUE
  <1> USE DEF After
  <1> DEFINE n == After(s, f)
  <1> DEFINE merged == MergeReplay(s.kept, s.live)
  <1>1. s.kept \in Store /\ s.live \in Store /\ s.version \in (0..MaxVersion) \cup {None}
        /\ merged \in Store /\ Empty \in Store
    BY MergeFact, Values DEF State
  <1>2. f.version \in 0..MaxVersion /\ f.ended \in BOOLEAN
    BY FrameTyped
  <1>3. CASE f.type = "committed_snapshot"
    <2>1. Applied(s, f) = Result(OnSnapshot(s, f), TRUE)
      BY <1>3 DEF Applied
    <2>2. OnSnapshot(s, f) =
              [s EXCEPT !.kept = merged, !.live = Empty, !.version = f.version,
                        !.ended = f.ended \/ @, !.commitPending = TRUE]
      BY <1>3 DEF OnSnapshot, Kept
    <2>3. n = [OnSnapshot(s, f) EXCEPT !.needsReconcile = TRUE]
          /\ Applied(s, f).revised = TRUE
      BY <2>1 DEF Result, Reconciled
    <2> HIDE DEF merged, n, After
    <2>4. n.version = f.version /\ n.kept = merged /\ n.live = Empty
          /\ n.history = s.history /\ n.commitPending = TRUE /\ n.needsReconcile = TRUE
          /\ n \in State
      <3>1. n = [history |-> s.history, kept |-> merged, live |-> Empty,
                 version |-> f.version, ended |-> f.ended \/ s.ended,
                 commitPending |-> TRUE, needsReconcile |-> TRUE]
        BY <2>2, <2>3 DEF State
      <3>2. s.history \in Store /\ (f.ended \/ s.ended) \in BOOLEAN
        BY DEF State
      <3> QED BY <3>1, <3>2, <1>1, <1>2 DEF State
    <2> QED BY <2>4, <2>3, <1>2, <1>3, Values DEF merged, n, After
  <1>4. CASE f.type = "history_committed"
    <2> DEFINE newer == IF s.version = None THEN f.version ELSE Max2(s.version, f.version)
    <2>1. Applied(s, f) = Result(OnCommitted(s, f), TRUE)
      BY <1>4 DEF Applied
    <2>2. OnCommitted(s, f) =
              [s EXCEPT !.kept = merged, !.live = Empty, !.version = newer,
                        !.commitPending = TRUE]
      BY DEF OnCommitted, Kept
    <2>3. n = [OnCommitted(s, f) EXCEPT !.needsReconcile = TRUE]
          /\ Applied(s, f).revised = TRUE
      BY <2>1 DEF Result, Reconciled
    <2>4. newer \in 0..MaxVersion /\ newer >= f.version
          /\ (s.version # None => newer >= s.version)
      BY <1>1, <1>2 DEF Max2
    <2> HIDE DEF merged, newer
    <2>5. n.version = newer /\ n.kept = merged /\ n.live = Empty
          /\ n.history = s.history /\ n.commitPending = TRUE /\ n.needsReconcile = TRUE
          /\ n \in State
      <3>1. n = [history |-> s.history, kept |-> merged, live |-> Empty,
                 version |-> newer, ended |-> s.ended,
                 commitPending |-> TRUE, needsReconcile |-> TRUE]
        BY <2>2, <2>3 DEF State
      <3> QED BY <3>1, <2>4, <1>1 DEF State
    <2> QED BY <2>3, <2>4, <2>5, <1>2, <1>4, Values DEF merged
  <1> QED BY <1>3, <1>4 DEF Settles

LEMMA QuietEffect ==
    ASSUME NEW s \in State, NEW f \in Frames, f.type \in {"gap", "terminal"}
    PROVE  /\ f.type = "gap" => Applied(s, f).revised = TRUE /\ After(s, f).needsReconcile = TRUE
           /\ f.type = "terminal" => Applied(s, f).revised = FALSE
                                     /\ After(s, f).needsReconcile = s.needsReconcile
           /\ After(s, f) \in State
           /\ After(s, f).history = s.history /\ After(s, f).kept = s.kept /\ After(s, f).live = s.live
           /\ After(s, f).version = s.version /\ After(s, f).commitPending = s.commitPending
  <1> USE DEF After
  <1> DEFINE n == After(s, f)
  <1>1. CASE f.type = "gap"
    <2>1. Applied(s, f) = Result(s, TRUE)
      BY <1>1 DEF Applied
    <2>2. n = [s EXCEPT !.needsReconcile = TRUE] /\ Applied(s, f).revised = TRUE
      BY <2>1 DEF Result, Reconciled
    <2> QED BY <2>2, <1>1 DEF State
  <1>2. CASE f.type = "terminal"
    <2>1. Applied(s, f) = Result([s EXCEPT !.ended = TRUE], FALSE)
      BY <1>2 DEF Applied
    <2>2. n = [s EXCEPT !.ended = TRUE] /\ Applied(s, f).revised = FALSE
      BY <2>1 DEF Result
    <2> QED BY <2>2, <1>2 DEF State
  <1> QED BY <1>1, <1>2

LEMMA SeenEffect ==
    ASSUME NEW s \in State, NEW f \in Frames,
           f.type \in {"started", "delta", "discarded"}, Seen(s, f)
    PROVE  After(s, f) = s /\ Applied(s, f).revised = FALSE
  BY DEF After, Applied, Result

LEMMA StartedEffect ==
    ASSUME NEW s \in State, NEW f \in Frames, f.type = "started", ~Seen(s, f)
    PROVE  /\ Applied(s, f).revised = TRUE
           /\ After(s, f) \in State
           /\ After(s, f).history = s.history /\ After(s, f).kept = s.kept
           /\ After(s, f).live = [s.live EXCEPT ![f.id] = IF @ = Absent THEN 0 ELSE @]
           /\ After(s, f).version = f.version
           /\ s.version # None => After(s, f).version >= s.version
           /\ After(s, f).commitPending = s.commitPending /\ After(s, f).needsReconcile = TRUE
  <1> USE DEF After
  <1> DEFINE n == After(s, f)
  <1>1. s.live \in Store /\ s.version \in (0..MaxVersion) \cup {None} /\ f.id \in Ids
        /\ f.version \in 0..MaxVersion
    BY FrameTyped DEF State
  <1> DEFINE opened == [s.live EXCEPT ![f.id] = IF @ = Absent THEN 0 ELSE @]
  <1>2. opened \in Store
    BY <1>1, Values DEF Store
  <1>3. Applied(s, f) = Result(OnStarted(s, f), TRUE)
    BY DEF Applied
  <1>4. OnStarted(s, f) = [s EXCEPT !.live = opened, !.version = f.version, !.ended = FALSE]
    BY DEF OnStarted, State
  <1>5. n = [OnStarted(s, f) EXCEPT !.needsReconcile = TRUE] /\ Applied(s, f).revised = TRUE
    BY <1>3 DEF Result, Reconciled
  <1>6. s.version # None => f.version >= s.version
    BY <1>1, Values DEF Seen
  <1> HIDE DEF opened
  <1>7. n \in State /\ n.live = opened /\ n.history = s.history /\ n.kept = s.kept
        /\ n.version = f.version /\ n.commitPending = s.commitPending
        /\ n.needsReconcile = TRUE
    <2>1. n = [history |-> s.history, kept |-> s.kept, live |-> opened,
               version |-> f.version, ended |-> FALSE,
               commitPending |-> s.commitPending, needsReconcile |-> TRUE]
      BY <1>4, <1>5 DEF State
    <2> QED BY <2>1, <1>1, <1>2 DEF State
  <1> QED BY <1>5, <1>6, <1>7 DEF opened

LEMMA DiscardedEffect ==
    ASSUME NEW s \in State, NEW f \in Frames, f.type = "discarded", ~Seen(s, f)
    PROVE  /\ Applied(s, f).revised = FALSE
           /\ After(s, f) \in State
           /\ After(s, f).history = [s.history EXCEPT ![f.id] = Absent]
           /\ After(s, f).kept = [s.kept EXCEPT ![f.id] = Absent]
           /\ After(s, f).live = [s.live EXCEPT ![f.id] = Absent]
           /\ After(s, f).version = f.version
           /\ s.version # None => After(s, f).version >= s.version
           /\ After(s, f).commitPending = s.commitPending /\ After(s, f).needsReconcile = s.needsReconcile
  <1> USE DEF After
  <1> DEFINE n == After(s, f)
  <1>1. s.live \in Store /\ s.kept \in Store /\ s.history \in Store
        /\ s.version \in (0..MaxVersion) \cup {None} /\ f.id \in Ids
        /\ f.version \in 0..MaxVersion
    BY FrameTyped DEF State
  <1> DEFINE without(x) == [x EXCEPT ![f.id] = Absent]
  <1>2. \A x \in Store : without(x) \in Store
    BY <1>1, Values DEF Store
  <1>3. Applied(s, f) = Result(OnDiscarded(s, f), FALSE)
    BY DEF Applied
  <1>4. OnDiscarded(s, f) = [s EXCEPT !.history = without(s.history),
                                      !.kept = without(s.kept),
                                      !.live = without(s.live),
                                      !.version = f.version]
    BY DEF OnDiscarded, State
  <1>5. n = OnDiscarded(s, f) /\ Applied(s, f).revised = FALSE
    BY <1>3 DEF Result
  <1>6. s.version # None => f.version >= s.version
    BY <1>1, Values DEF Seen
  <1> HIDE DEF without
  <1>7. n \in State /\ n.live = without(s.live) /\ n.history = without(s.history)
        /\ n.kept = without(s.kept)
        /\ n.version = f.version /\ n.commitPending = s.commitPending
        /\ n.needsReconcile = s.needsReconcile
    <2>1. n = [history |-> without(s.history), kept |-> without(s.kept),
               live |-> without(s.live), version |-> f.version, ended |-> s.ended,
               commitPending |-> s.commitPending, needsReconcile |-> s.needsReconcile]
      BY <1>4, <1>5 DEF State
    <2> QED BY <2>1, <1>1, <1>2 DEF State
  <1> QED BY <1>5, <1>6, <1>7 DEF without

LEMMA DeltaEffect ==
    ASSUME NEW s \in State, NEW f \in Frames, f.type = "delta", ~Seen(s, f)
    PROVE  /\ After(s, f) \in State
           /\ After(s, f).history = s.history /\ After(s, f).kept = s.kept
           /\ \/ After(s, f).live = s.live
              \/ /\ After(s, f).live \in [Ids -> Texts]
                 /\ \A i \in Ids : i # f.id => After(s, f).live[i] = s.live[i]
                 /\ After(s, f).live[f.id] >= s.live[f.id] /\ After(s, f).live[f.id] >= 0
                 /\ After(s, f).live[f.id] = s.live[f.id] \/ After(s, f).live[f.id] <= f.offset + f.length
           /\ After(s, f).version = f.version
           /\ s.version # None => After(s, f).version >= s.version
           /\ After(s, f).commitPending = s.commitPending
           /\ Applied(s, f).revised => After(s, f).needsReconcile
           /\ ~Applied(s, f).revised => After(s, f).needsReconcile = s.needsReconcile
           /\ Applied(s, f).revised \in BOOLEAN
  <1> USE DEF After
  <1> DEFINE n == After(s, f)
  <1>1. s.live \in Store /\ s.version \in (0..MaxVersion) \cup {None} /\ f.id \in Ids
        /\ f.version \in 0..MaxVersion /\ s.live[f.id] \in Texts
    BY FrameTyped DEF State, Store
  <1>5. s.version # None => f.version >= s.version
    BY <1>1, Values DEF Seen
  <1> DEFINE next == Appended(s.live[f.id], f)
  <1>2. Applied(s, f) = OnDelta(s, f)
    BY DEF Applied
  <1>3. CASE next = None
    <2>1. Applied(s, f) = Result([s EXCEPT !.version = f.version], TRUE)
      BY <1>2, <1>3 DEF OnDelta
    <2>2. n = [s EXCEPT !.version = f.version, !.needsReconcile = TRUE]
          /\ Applied(s, f).revised = TRUE
      BY <2>1 DEF Result, Reconciled
    <2> QED BY <2>2, <1>1, <1>5 DEF State
  <1>4. CASE next # None
    <2>1. next \in Texts /\ next >= s.live[f.id] /\ next >= 0
          /\ (next = s.live[f.id] \/ next <= f.offset + f.length)
      BY <1>4, <1>1, FrameTyped, Values, MaxFact DEF Appended, Max2
    <2>2. [s.live EXCEPT ![f.id] = next] \in Store
      BY <2>1, <1>1 DEF Store
    <2>3. Applied(s, f) = Result([s EXCEPT !.live = [s.live EXCEPT ![f.id] = next],
                                           !.version = f.version], FALSE)
      BY <1>2, <1>4 DEF OnDelta, State
    <2>4. n = [s EXCEPT !.live = [s.live EXCEPT ![f.id] = next], !.version = f.version]
          /\ Applied(s, f).revised = FALSE
      BY <2>3 DEF Result
    <2>5. n.live = [s.live EXCEPT ![f.id] = next] /\ n.version = f.version
          /\ n.history = s.history /\ n.kept = s.kept
          /\ n.commitPending = s.commitPending /\ n.needsReconcile = s.needsReconcile
          /\ n \in State
      BY <2>4, <2>2, <1>1 DEF State
    <2> QED BY <2>1, <2>2, <2>4, <2>5, <1>1, <1>5 DEF Store
  <1> QED BY <1>3, <1>4

LEMMA AppliedTyped ==
    ASSUME NEW s \in State, NEW f \in Frames
    PROVE  /\ After(s, f) \in State /\ Applied(s, f).revised \in BOOLEAN
           /\ Applied(s, f).revised => After(s, f).needsReconcile
           /\ ~Applied(s, f).revised
                => After(s, f).needsReconcile = s.needsReconcile
           /\ s.commitPending => After(s, f).commitPending
  <1>1. f.type \in FrameTypes
    BY FrameTyped
  <1>2. CASE f.type = "snapshot" BY <1>2, SnapshotEffect
  <1>3. CASE Settles(f) BY <1>3, SettlesEffect
  <1>4. CASE f.type \in {"gap", "terminal"} BY <1>4, QuietEffect
  <1>5. CASE f.type \in {"started", "delta", "discarded"} /\ Seen(s, f)
    BY <1>5, SeenEffect
  <1>6. CASE f.type = "started" /\ ~Seen(s, f) BY <1>6, StartedEffect
  <1>7. CASE f.type = "discarded" /\ ~Seen(s, f) BY <1>7, DiscardedEffect
  <1>8. CASE f.type = "delta" /\ ~Seen(s, f) BY <1>8, DeltaEffect
  <1> QED BY <1>1, <1>2, <1>3, <1>4, <1>5, <1>6, <1>7, <1>8 DEF FrameTypes, Settles
-----------------------------------------------------------------------------
\* What the server emits goes behind what is in flight.
Behind(f) ==
    /\ down' \in Seq(Frames) /\ Len(down) \in Nat
    /\ \/ serving = "no" /\ down' = <<>> /\ down = <<>>
       \/ /\ serving # "no" /\ Len(down') = Len(down) + 1
          /\ down' # <<>> /\ down'[Len(down')] = f
    /\ \A k \in 1..Len(down) : k \in 1..Len(down') /\ down'[k] = down[k]
    /\ \A k \in 1..Len(down') :
           k \in 1..Len(down) \/ (k = Len(down) + 1 /\ down'[k] = f /\ serving # "no")

LEMMA EmitFact ==
    ASSUME Types, RestOK, NEW f \in Frames, Emit(f)
    PROVE  Behind(f)
  BY DEF Types, RestOK, Emit, Behind

LEMMA AmountFact ==
    ASSUME NEW f \in Frames, NEW i \in Ids
    PROVE  Amount(f, i) \in Int /\ Amount(f, i) >= -1
  BY FrameTyped, Values DEF Amount, Store

LEMMA KnownFact ==
    ASSUME Types, NEW i \in Ids
    PROVE  /\ durable[i] \in Int /\ durable[i] >= -1
           /\ stream[i] \in Int /\ stream[i] >= -1
           /\ Known(i) \in Int /\ Known(i) >= -1
           /\ Known(i) >= durable[i] /\ Known(i) >= stream[i]
           /\ stream[i] = Absent => Known(i) = durable[i]
  BY Values DEF Types, TranscriptTypes, Store, Known, Max2

LEMMA NewBehind ==
    ASSUME Types, NewOK, NEW f, Behind(f), UNCHANGED <<t, request>>,
           \A i \in Ids : used'[i] = "new" =>
               /\ used[i] = "new" /\ ~Mentions(f, i)
               /\ durable'[i] = Absent /\ stream'[i] = Absent
    PROVE  NewOK'
  <1>1. \A k \in 1..Len(down') : down'[k] = f \/ (k \in 1..Len(down) /\ down'[k] = down[k])
    BY DEF Behind
  <1> QED BY <1>1 DEF NewOK

LEMMA BoundsBehind ==
    ASSUME Types, Types', BoundsOK, NEW f \in Frames, Behind(f), UNCHANGED <<t, request>>,
           \A i \in Ids : used'[i] # "discarded" =>
               /\ used[i] # "discarded" /\ durable[i] <= durable'[i]
               /\ Known(i) <= Known(i)' /\ Amount(f, i) <= Known(i)'
    PROVE  BoundsOK'
  <1> SUFFICES ASSUME NEW i \in Ids, used'[i] # "discarded"
               PROVE  /\ t.history[i] <= durable'[i]
                      /\ request.answer # None =>
                            /\ t.history[i] <= request.answer[i]
                            /\ request.answer[i] <= durable'[i]
                      /\ t.live[i] <= Known(i)'
                      /\ \A k \in 1..Len(down') : Amount(down'[k], i) <= Known(i)'
    BY DEF BoundsOK
  <1>1. /\ t.history[i] \in Int /\ t.live[i] \in Int
        /\ request.answer # None => request.answer[i] \in Int
        /\ durable[i] \in Int /\ durable'[i] \in Int
        /\ Known(i) \in Int /\ Known(i)' \in Int
    <2>1. /\ t.history \in Store /\ t.live \in Store /\ request.answer \in Store \cup {None}
          /\ durable \in Store /\ durable' \in Store /\ stream \in Store /\ stream' \in Store
      BY DEF Types, TranscriptTypes, State
    <2>2. \A x \in Store : x[i] \in Int
      BY Values DEF Store
    <2>3. Known(i) \in Int /\ Known(i)' \in Int
      BY <2>1, <2>2 DEF Known, Max2
    <2> QED BY <2>1, <2>2, <2>3
  <1>2. \A k \in 1..Len(down') :
            down'[k] = f \/ (k \in 1..Len(down) /\ down'[k] = down[k])
    BY DEF Behind
  <1>3. \A k \in 1..Len(down) : Amount(down[k], i) \in Int
    BY AmountFact DEF Types
  <1>4. Amount(f, i) \in Int
    BY AmountFact
  <1> QED BY <1>1, <1>2, <1>3, <1>4 DEF BoundsOK

LEMMA KeptBehind ==
    ASSUME KeptOK, NEW f, Behind(f), ~Settles(f), UNCHANGED <<t, request>>,
           mixed => mixed',
           \A i \in Ids : used'[i] # "discarded" =>
               used[i] # "discarded" /\ durable'[i] = durable[i]
    PROVE  KeptOK'
  <1>1. \A k \in 1..Len(down') : Settles(down'[k]) => k \in 1..Len(down) /\ down'[k] = down[k]
    BY DEF Behind
  <1>2. \A k \in 1..Len(down) : \A j \in 1..(k - 1) : down'[j] = down[j]
    BY DEF Behind
  <1> QED BY <1>1, <1>2 DEF KeptOK

LEMMA RegisteredBehind ==
    ASSUME Types, Types', RegisteredOK, NEW f \in Frames, Behind(f), ~Snaps(f),
           Settles(f) => phase' = "committed", phase = "committed" => phase' = "committed",
           f.version <= version', version <= version', UNCHANGED serving, mixed => mixed'
    PROVE  RegisteredOK'
  <1>1. \A k \in 1..Len(down') :
            down'[k] = f \/ (k \in 1..Len(down) /\ down'[k] = down[k])
    BY DEF Behind
  <1>2. version \in Nat /\ version' \in Nat /\ \A k \in 1..Len(down) : down[k].version \in Nat
    BY FrameTyped DEF Types, TranscriptTypes
  <1> QED BY <1>1, <1>2 DEF RegisteredOK

LEMMA RunnerBehind ==
    ASSUME RunnerOK, NEW f, Behind(f), f.type # "snapshot", UNCHANGED t, mixed => mixed'
    PROVE  RunnerOK'
  BY DEF RunnerOK, Behind

\* What StreamsOK says of the frames in flight stays true when one goes behind.
LEMMA UnkeptBehind ==
    ASSUME NEW f, Behind(f), UNCHANGED t, NEW i, NEW k \in 1..(Len(down) + 1), Unkept(i, k)
    PROVE  Unkept(i, k)'
  BY DEF Behind, Unkept

LEMMA StaleBehind ==
    ASSUME NEW f, Behind(f), UNCHANGED t, NEW k \in 1..Len(down), Stale(k)
    PROVE  Stale(k)'
  BY DEF Behind, Stale

LEMMA StreamsBehind ==
    ASSUME Types, StreamsOK, NEW f \in Frames, Behind(f), UNCHANGED <<t, serving>>,
           mixed' \in BOOLEAN, mixed => mixed',
           \A k \in 1..Len(down), i \in Ids :
               Streams(down[k]) /\ down[k].id = i /\ used'[i] = "used" => used[i] = "used",
           \A i \in Ids : ~mixed /\ Streams(f) /\ f.id = i /\ used'[i] = "used"
                              => Unkept(i, Len(down) + 1),
           \A i \in Ids : ~mixed' /\ stream'[i] # Absent /\ used'[i] = "used"
                              => Unkept(i, Len(down) + 1) /\ ~Settles(f)
    PROVE  StreamsOK'
  <1> SUFFICES ASSUME ~mixed' PROVE StreamsOK'
    BY DEF StreamsOK
  <1>1. ASSUME serving' = "live", NEW k \in 1..Len(down'), NEW i \in Ids,
               Streams(down'[k]), down'[k].id = i, used'[i] = "used", ~Stale(k)'
        PROVE  Unkept(i, k)'
    <2>1. CASE k \in 1..Len(down)
      <3>1. down'[k] = down[k] /\ ~Stale(k)
        BY <1>1, <2>1, StaleBehind DEF Behind
      <3>2. Unkept(i, k)
        BY <1>1, <2>1, <3>1 DEF StreamsOK
      <3> QED BY <3>2, <2>1, UnkeptBehind DEF Behind
    <2>2. CASE k = Len(down) + 1
      <3>1. down'[k] = f /\ Len(down) \in Nat
        BY <1>1, <2>2 DEF Behind
      <3> QED BY <1>1, <2>2, <3>1, UnkeptBehind
    <2> QED BY <1>1, <2>1, <2>2 DEF Behind
  <1>2. ASSUME NEW i \in Ids, stream'[i] # Absent, used'[i] = "used"
        PROVE  Unkept(i, Len(down) + 1)'
    <2>1. Len(down) \in Nat /\ Len(down) + 1 \in 1..(Len(down) + 1)
      BY DEF Behind
    <2>2. Unkept(i, Len(down) + 1) /\ ~Settles(f)
      BY <1>2
    <2>3. CASE serving = "no"
      BY <2>2, <2>3 DEF Behind, Unkept
    <2>4. CASE serving # "no"
      <3>1. \A j \in 1..Len(down') : Settles(down'[j]) => j \in 1..Len(down)
        BY <2>2 DEF Behind
      <3> QED BY <2>1, <2>2, <2>4, <3>1 DEF Behind, Unkept
    <2> QED BY <2>3, <2>4
  <1> QED BY <1>1, <1>2 DEF StreamsOK

LEMMA StartRunnerOK == TranscriptInv /\ StartRunner => TranscriptInv'
  <1> SUFFICES ASSUME TranscriptInv, StartRunner PROVE TranscriptInv'
    OBVIOUS
  <1> USE DEF TranscriptInv
  <1> DEFINE f == Frame("snapshot", 0, None, 0, 0, Empty)
  <1>1. f \in Frames /\ f.type = "snapshot" /\ f.messages = Empty /\ f.reply = FALSE
        /\ f.version = 0
    BY Values DEF Frame, Frames, FrameTypes
  <1>2. Behind(f)
    BY <1>1, EmitFact DEF StartRunner
  <1> HIDE DEF f
  <1>3. /\ UNCHANGED <<durable, stream, used, serving, ready, t, request, again, error>>
        /\ phase = "committed" /\ phase' = "running" /\ version' = 0
        /\ mixed' = (mixed \/ serving = "registered")
    BY DEF StartRunner, hook
  <1>4. mixed \in BOOLEAN /\ stream = Empty
    BY DEF Types, TranscriptTypes, RestOK, StartRunner
  <1>5. Types'
    BY <1>2, <1>3, <1>4, Values, FrameTyped DEF Types, TranscriptTypes, Behind
  <1>6. FramesOK'
    BY <1>1, <1>2, <1>3 DEF FramesOK, Behind
  <1>7. ReadsOK'
    BY <1>3 DEF ReadsOK
  <1>8. RestOK'
    BY <1>2, <1>3 DEF RestOK, Behind
  <1>9. NewOK'
    BY <1>1, <1>2, <1>3, Values DEF NewOK, Behind, Mentions, Streams
  <1>10. BoundsOK'
    <2>1. \A i \in Ids : Amount(f, i) <= Known(i) /\ Known(i)' = Known(i)
      BY <1>1, <1>3, KnownFact, Values DEF Amount, Known
    <2> QED BY <1>2, <1>3, <2>1 DEF BoundsOK, Behind
  <1>11. KeptOK'
    BY <1>1, <1>2, <1>3, <1>4, Values DEF KeptOK, Behind, Settles
  <1>12. RegisteredOK'
    BY <1>1, <1>2, <1>3, <1>4 DEF RegisteredOK
  <1>13. RunnerOK'
    BY <1>1, <1>2, <1>3, <1>4 DEF RunnerOK, Behind, RestOK, Types, TranscriptTypes
  <1>14. StreamsOK'
    BY <1>1, <1>2, <1>3, <1>4, StreamsBehind, Values DEF Streams
  <1> QED BY <1>5, <1>6, <1>7, <1>8, <1>9, <1>10, <1>11, <1>12, <1>13, <1>14

LEMMA StartMessageOK ==
    ASSUME NEW m \in Ids PROVE TranscriptInv /\ StartMessage(m) => TranscriptInv'
  <1> SUFFICES ASSUME TranscriptInv, StartMessage(m) PROVE TranscriptInv'
    OBVIOUS
  <1> USE DEF TranscriptInv
  <1> DEFINE f == Frame("started", version + 1, m, 0, 0, Empty)
  <1>1. /\ UNCHANGED <<durable, phase, serving, mixed, ready, t, request, again, error>>
        /\ phase = "running" /\ version' = version + 1 /\ version' \in 0..MaxVersion
        /\ used[m] = "new" /\ used' = [used EXCEPT ![m] = "used"]
        /\ stream' = [stream EXCEPT ![m] = 0]
        /\ used \in [Ids -> {"new", "used", "discarded"}] /\ stream \in Store
        /\ version \in Nat
    BY Values DEF StartMessage, Quietly, hook, Types, TranscriptTypes
  <1>2. f \in Frames /\ f.type = "started" /\ f.id = m /\ f.reply = FALSE
        /\ f.version = version + 1
    BY <1>1, Values DEF Frame, Frames, FrameTypes
  <1>3. Behind(f)
    BY <1>2, EmitFact DEF StartMessage
  <1> HIDE DEF f
  <1>4. \A i \in Ids : /\ i # m => used'[i] = used[i] /\ stream'[i] = stream[i]
                       /\ used'[m] = "used" /\ stream'[m] = 0
    BY <1>1 DEF Store
  <1>5. Types'
    BY <1>1, <1>3, Values, FrameTyped DEF Types, TranscriptTypes, Behind, Store
  <1>6. FramesOK'
    BY <1>1, <1>2, <1>3, <1>4, FrameTyped DEF FramesOK, Behind, Types
  <1>7. ReadsOK'
    BY <1>1 DEF ReadsOK
  <1>8. RestOK'
    BY <1>1, <1>3 DEF RestOK, Behind
  <1>9. NewOK'
    BY <1>1, <1>2, <1>3, <1>4, NewBehind DEF NewOK, Mentions, Streams
  <1>10. BoundsOK'
    <2>1. \A i \in Ids : Known(i)' >= Known(i) /\ Known(i)' >= -1
      <3>1. /\ \A i \in Ids : durable[i] \in Int /\ durable[i] >= -1
            /\ \A i \in Ids : stream[i] \in Int /\ stream[i] >= -1
            /\ stream[m] = -1
        BY <1>1, KnownFact, Values DEF NewOK
      <3> QED BY <3>1, <1>1, <1>4 DEF Known, Max2
    <2>2. Known(m)' >= 0
      BY <1>1, <1>4, KnownFact DEF Known, Max2
    <2>3. \A i \in Ids : Amount(f, i) <= Known(i)'
      BY <1>2, <2>1, <2>2, Values DEF Amount
    <2>4. \A i \in Ids : used'[i] # "discarded" =>
             used[i] # "discarded" /\ durable[i] <= durable'[i]
      BY <1>1, <1>4, KnownFact
    <2>5. \A i \in Ids : Known(i) <= Known(i)'
      BY <1>5, <2>1, KnownFact, Values DEF Known, Max2, Types, TranscriptTypes, Store
    <2> QED BY <1>1, <1>2, <1>3, <1>5, <2>3, <2>4, <2>5, BoundsBehind
  <1>11. KeptOK'
    BY <1>1, <1>2, <1>3, <1>4, KeptBehind DEF Settles
  <1>12. RegisteredOK'
    BY <1>1, <1>2, <1>3, <1>5, RegisteredBehind DEF Snaps, Settles
  <1>13. RunnerOK'
    BY <1>1, <1>2, <1>3, RunnerBehind
  <1>14. StreamsOK'
    <2>1. \A k \in 1..Len(down), i \in Ids :
              Streams(down[k]) /\ down[k].id = i /\ used'[i] = "used" => used[i] = "used"
      BY <1>1, <1>4 DEF NewOK, Mentions
    <2>2. Unkept(m, Len(down) + 1)
      BY <1>1 DEF NewOK, Unkept, Types
    <2>3. \A i \in Ids : ~mixed' /\ stream'[i] # Absent /\ used'[i] = "used"
                              => Unkept(i, Len(down) + 1) /\ ~Settles(f)
      BY <1>1, <1>2, <1>4, <2>2 DEF StreamsOK, Settles
    <2>4. mixed' \in BOOLEAN
      BY <1>5 DEF Types, TranscriptTypes
    <2> QED BY <1>1, <1>2, <1>3, <2>1, <2>2, <2>3, <2>4, StreamsBehind
  <1> QED BY <1>5, <1>6, <1>7, <1>8, <1>9, <1>10, <1>11, <1>12, <1>13, <1>14

LEMMA GrowOK ==
    ASSUME NEW m \in Ids PROVE TranscriptInv /\ Grow(m) => TranscriptInv'
  <1> SUFFICES ASSUME TranscriptInv, Grow(m) PROVE TranscriptInv'
    OBVIOUS
  <1> USE DEF TranscriptInv
  <1>1. /\ UNCHANGED <<durable, phase, used, serving, mixed, ready, t, request, again, error>>
        /\ phase = "running" /\ version' = version + 1 /\ version' \in 0..MaxVersion
        /\ stream[m] \in 0..(MaxLength - 1)
        /\ stream' = [stream EXCEPT ![m] = @ + 1]
        /\ stream \in Store /\ version \in Nat
    BY Values DEF Grow, Quietly, hook, Types, TranscriptTypes
  <1>2. \E f \in Frames :
            /\ Behind(f) /\ f.reply = FALSE /\ f.version <= version'
            /\ \/ f.type = "gap"
               \/ /\ f.type = "delta" /\ f.id = m
                  /\ f.offset = stream[m] /\ f.length = 1
    <2>1. CASE Emit(Frame("delta", version + 1, m, stream[m], 1, Empty))
      <3> DEFINE f == Frame("delta", version + 1, m, stream[m], 1, Empty)
      <3>1. f \in Frames /\ f.type = "delta" /\ f.id = m /\ f.reply = FALSE
            /\ f.version = version' /\ f.offset = stream[m] /\ f.length = 1
        BY <1>1, Values DEF Frame, Frames, FrameTypes
      <3>2. Behind(f)
        BY <2>1, <3>1, EmitFact
      <3> HIDE DEF f
      <3> QED BY <1>1, <3>1, <3>2
    <2>2. CASE Emit(Frame("gap", 0, None, 0, 0, Empty))
      <3> DEFINE f == Frame("gap", 0, None, 0, 0, Empty)
      <3>1. f \in Frames /\ f.type = "gap" /\ f.reply = FALSE /\ f.version = 0
        BY Values DEF Frame, Frames, FrameTypes
      <3>2. Behind(f)
        BY <2>2, <3>1, EmitFact
      <3> HIDE DEF f
      <3> QED BY <1>1, <3>1, <3>2
    <2> QED BY <2>1, <2>2 DEF Grow
  <1>3. PICK f \in Frames :
            /\ Behind(f) /\ f.reply = FALSE /\ f.version <= version'
            /\ \/ f.type = "gap"
               \/ /\ f.type = "delta" /\ f.id = m
                  /\ f.offset = stream[m] /\ f.length = 1
    BY <1>2
  <1>4. \A i \in Ids : /\ i # m => stream'[i] = stream[i]
                       /\ stream'[m] = stream[m] + 1
    BY <1>1 DEF Store
  <1>5. Types'
    <2>1. stream[m] + 1 \in Texts
      BY <1>1, Values
    <2>2. stream' \in Store
      BY <2>1, <1>1 DEF Store
    <2> QED BY <2>2, <1>1, <1>3, FrameTyped DEF Types, TranscriptTypes, Behind
  <1>6. FramesOK'
    BY <1>1, <1>3 DEF FramesOK, Behind
  <1>7. ReadsOK'
    BY <1>1 DEF ReadsOK
  <1>8. RestOK'
    BY <1>1, <1>3 DEF RestOK, Behind
  <1>9. NewOK'
    BY <1>1, <1>3, <1>4, Values, NewBehind DEF NewOK, Mentions, Streams
  <1>10. BoundsOK'
    <2>1. /\ \A i \in Ids : durable[i] \in Int /\ durable[i] >= -1
          /\ \A i \in Ids : stream[i] \in Int /\ stream[i] >= -1
      BY KnownFact
    <2>2. \A i \in Ids : Known(i)' >= Known(i) /\ Known(i)' >= -1
      BY <2>1, <1>1, <1>4 DEF Known, Max2
    <2>3. Known(m)' >= stream[m] + 1
      BY <2>1, <1>1, <1>4 DEF Known, Max2
    <2>4. \A i \in Ids : Amount(f, i) <= Known(i)'
      BY <1>3, <2>2, <2>3, Values DEF Amount
    <2>5. \A i \in Ids : durable[i] <= durable'[i] /\ Known(i) <= Known(i)'
      BY <1>1, <1>5, <2>1, <2>2, KnownFact, Values DEF Known, Max2, Types, TranscriptTypes, Store
    <2> QED BY <1>1, <1>3, <1>5, <2>4, <2>5, BoundsBehind
  <1>11. KeptOK'
    BY <1>1, <1>3, KeptBehind DEF Settles
  <1>12. RegisteredOK'
    BY <1>1, <1>3, <1>5, RegisteredBehind DEF Snaps, Settles
  <1>13. RunnerOK'
    BY <1>1, <1>3, RunnerBehind
  <1>14. StreamsOK'
    <2>1. \A i \in Ids : ~mixed /\ Streams(f) /\ f.id = i /\ used'[i] = "used"
                              => Unkept(i, Len(down) + 1)
      BY <1>1, <1>3, Values DEF StreamsOK, Streams
    <2>2. \A i \in Ids : ~mixed' /\ stream'[i] # Absent /\ used'[i] = "used"
                              => Unkept(i, Len(down) + 1) /\ ~Settles(f)
      BY <1>1, <1>3, <1>4, Values DEF StreamsOK, Settles
    <2>3. mixed' \in BOOLEAN
      BY <1>5 DEF Types, TranscriptTypes
    <2> QED BY <1>1, <1>3, <2>1, <2>2, <2>3, StreamsBehind
  <1> QED BY <1>5, <1>6, <1>7, <1>8, <1>9, <1>10, <1>11, <1>12, <1>13, <1>14
LEMMA DiscardOK ==
    ASSUME NEW m \in Ids PROVE TranscriptInv /\ Discard(m) => TranscriptInv'
  <1> SUFFICES ASSUME TranscriptInv, Discard(m) PROVE TranscriptInv'
    OBVIOUS
  <1> USE DEF TranscriptInv
  <1> DEFINE f == Frame("discarded", version + 1, m, 0, 0, Empty)
  <1>1. /\ UNCHANGED <<phase, serving, mixed, ready, t, request, again, error>>
        /\ phase = "running" /\ version' = version + 1 /\ version' \in 0..MaxVersion
        /\ used' = [used EXCEPT ![m] = "discarded"]
        /\ stream' = [stream EXCEPT ![m] = Absent]
        /\ durable' = [durable EXCEPT ![m] = Absent]
        /\ used \in [Ids -> {"new", "used", "discarded"}]
        /\ stream \in Store /\ durable \in Store /\ version \in Nat
    BY Values DEF Discard, Quietly, hook, Types, TranscriptTypes
  <1>2. f \in Frames /\ f.type = "discarded" /\ f.id = m /\ f.reply = FALSE
        /\ f.version = version + 1
    BY <1>1, Values DEF Frame, Frames, FrameTypes
  <1>3. Behind(f)
    BY <1>2, EmitFact DEF Discard
  <1> HIDE DEF f
  <1>4. /\ used'[m] = "discarded" /\ stream'[m] = Absent /\ durable'[m] = Absent
        /\ \A i \in Ids : i # m => /\ used'[i] = used[i] /\ stream'[i] = stream[i]
                                   /\ durable'[i] = durable[i]
    BY <1>1 DEF Store
  <1>5. Types'
    <2>1. stream' \in Store /\ durable' \in Store
      BY <1>1, Values DEF Store
    <2>2. used' \in [Ids -> {"new", "used", "discarded"}]
      BY <1>1
    <2>3. /\ TranscriptTypes /\ down' \in Seq(Frames)
          /\ \A k \in 1..Len(down') : down'[k] \in Frames
      BY <1>3 DEF Types, Behind
    <2> QED BY <1>1, <2>1, <2>2, <2>3, FrameTyped DEF Types, TranscriptTypes
  <1>6. FramesOK'
    <2>1. \A k \in 1..Len(down) : down[k].type = "discarded" => used'[down[k].id] = "discarded"
      BY <1>4, FrameTyped DEF FramesOK, Types
    <2> QED BY <1>1, <1>2, <1>3, <1>4, <2>1 DEF FramesOK, Behind
  <1>7. ReadsOK'
    BY <1>1 DEF ReadsOK
  <1>8. RestOK'
    BY <1>1, <1>3 DEF RestOK, Behind
  <1>9. NewOK'
    BY <1>1, <1>2, <1>3, <1>4, NewBehind DEF NewOK, Mentions, Streams
  <1>10. BoundsOK'
    <2>1. \A i \in Ids : /\ Known(i) \in Int /\ Known(i) >= -1 /\ durable[i] \in Int
                         /\ i # m => Known(i)' = Known(i)
      BY <1>4, KnownFact DEF Known
    <2>2. \A i \in Ids : Amount(f, i) = -1
      BY <1>2, Values DEF Amount
    <2> QED BY <1>1, <1>2, <1>3, <1>4, <1>5, <2>1, <2>2, BoundsBehind
  <1>11. KeptOK'
    BY <1>1, <1>2, <1>3, <1>4, KeptBehind DEF Settles
  <1>12. RegisteredOK'
    BY <1>1, <1>2, <1>3, <1>5, RegisteredBehind DEF Snaps, Settles
  <1>13. RunnerOK'
    BY <1>1, <1>2, <1>3, RunnerBehind
  <1>14. StreamsOK'
    <2>1. \A i \in Ids : used'[i] = "used" => used[i] = "used" /\ stream'[i] = stream[i]
      BY <1>4
    <2>2. \A i \in Ids : ~mixed' /\ stream'[i] # Absent /\ used'[i] = "used"
                              => Unkept(i, Len(down) + 1) /\ ~Settles(f)
      BY <1>1, <1>2, <2>1 DEF StreamsOK, Settles
    <2>3. mixed' \in BOOLEAN
      BY <1>5 DEF Types, TranscriptTypes
    <2> QED BY <1>1, <1>2, <1>3, <2>1, <2>2, <2>3, StreamsBehind DEF Streams
  <1> QED BY <1>5, <1>6, <1>7, <1>8, <1>9, <1>10, <1>11, <1>12, <1>13, <1>14

LEMMA TerminateOK == TranscriptInv /\ Terminate => TranscriptInv'
  <1> SUFFICES ASSUME TranscriptInv, Terminate PROVE TranscriptInv'
    OBVIOUS
  <1> USE DEF TranscriptInv
  <1> DEFINE f == Frame("terminal", 0, None, 0, 0, Empty)
  <1>1. /\ UNCHANGED <<durable, stream, version, used, serving, mixed, ready,
                       t, request, again, error>>
        /\ phase = "running" /\ phase' = "terminal"
        /\ version \in Nat
    BY Values DEF Terminate, Quietly, hook, Types, TranscriptTypes
  <1>2. f \in Frames /\ f.type = "terminal" /\ f.reply = FALSE /\ f.version = 0
    BY Values DEF Frame, Frames, FrameTypes
  <1>3. Behind(f)
    BY <1>2, EmitFact DEF Terminate
  <1> HIDE DEF f
  <1>5. Types'
    BY <1>1, <1>3 DEF Types, TranscriptTypes, Behind, Frames
  <1>6. FramesOK'
    BY <1>1, <1>2, <1>3 DEF FramesOK, Behind
  <1>7. ReadsOK'
    BY <1>1 DEF ReadsOK
  <1>8. RestOK'
    BY <1>1, <1>3 DEF RestOK, Behind
  <1>9. NewOK'
    BY <1>1, <1>2, <1>3, NewBehind DEF NewOK, Mentions, Streams
  <1>10. BoundsOK'
    <2>1. \A i \in Ids : /\ Known(i) \in Int /\ Known(i) >= -1 /\ durable[i] \in Int
                         /\ Known(i)' = Known(i)
      BY <1>1, KnownFact DEF Known
    <2>2. \A i \in Ids : Amount(f, i) = -1
      BY <1>2, Values DEF Amount
    <2> QED BY <1>1, <1>2, <1>3, <1>5, <2>1, <2>2, BoundsBehind
  <1>11. KeptOK'
    BY <1>1, <1>2, <1>3, KeptBehind DEF Settles
  <1>12. RegisteredOK'
    BY <1>1, <1>2, <1>3, <1>5, RegisteredBehind DEF Snaps, Settles
  <1>13. RunnerOK'
    BY <1>1, <1>2, <1>3, RunnerBehind
  <1>14. StreamsOK'
    <2>1. \A i \in Ids : ~mixed' /\ stream'[i] # Absent /\ used'[i] = "used"
                              => Unkept(i, Len(down) + 1) /\ ~Settles(f)
      BY <1>1, <1>2 DEF StreamsOK, Settles
    <2>2. mixed' \in BOOLEAN
      BY <1>5 DEF Types, TranscriptTypes
    <2> QED BY <1>1, <1>2, <1>3, <2>1, <2>2, StreamsBehind DEF Streams
  <1> QED BY <1>5, <1>6, <1>7, <1>8, <1>9, <1>10, <1>11, <1>12, <1>13, <1>14

LEMMA CommitOK == TranscriptInv /\ Commit => TranscriptInv'
  <1> SUFFICES ASSUME TranscriptInv, Commit PROVE TranscriptInv'
    OBVIOUS
  <1> USE DEF TranscriptInv
  <1> DEFINE f == Frame("history_committed", version, None, 0, 0, Empty)
  <1>1. /\ UNCHANGED <<version, used, serving, mixed, ready, t, request, again, error>>
        /\ phase # "committed" /\ phase' = "committed"
        /\ durable' = [i \in Ids |-> Known(i)] /\ stream' = Empty
        /\ version \in 0..MaxVersion /\ version \in Nat
    BY Values DEF Commit, Quietly, hook, Types, TranscriptTypes, Known
  <1>2. f \in Frames /\ f.type = "history_committed" /\ f.reply = FALSE
        /\ f.version = version
    BY <1>1, Values DEF Frame, Frames, FrameTypes
  <1>3. Behind(f)
    BY <1>2, EmitFact DEF Commit
  <1> HIDE DEF f
  <1>4. \A i \in Ids : durable'[i] = Known(i) /\ stream'[i] = -1
    BY <1>1, Values
  <1>5. Types'
    <2>1. durable' \in Store /\ stream' \in Store
      <3>1. \A i \in Ids : Known(i) \in Texts
        BY DEF Types, TranscriptTypes, Store, Known, Max2
      <3> QED BY <3>1, <1>1, Values DEF Store
    <2>2. /\ TranscriptTypes /\ down' \in Seq(Frames)
          /\ \A k \in 1..Len(down') : down'[k] \in Frames
      BY <1>3 DEF Types, Behind
    <2> QED BY <1>1, <2>1, <2>2, FrameTyped DEF Types, TranscriptTypes
  <1>6. FramesOK'
    BY <1>1, <1>2, <1>3 DEF FramesOK, Behind
  <1>7. ReadsOK'
    BY <1>1 DEF ReadsOK
  <1>8. RestOK'
    BY <1>1, <1>2, <1>3 DEF RestOK, Behind, Settles
  <1>9. NewOK'
    <2>1. \A i \in Ids : used[i] = "new" => Known(i) = -1
      BY Values DEF NewOK, Known, Max2
    <2> QED BY <1>1, <1>2, <1>3, <1>4, <2>1, Values, NewBehind DEF NewOK, Mentions, Streams
  <1>10. BoundsOK'
    <2>1. \A i \in Ids : /\ Known(i) \in Int /\ Known(i) >= -1 /\ durable[i] <= Known(i)
                         /\ Known(i)' = Known(i)
      BY <1>4, KnownFact DEF Known, Max2
    <2>2. \A i \in Ids : Amount(f, i) = -1
      BY <1>2, Values DEF Amount
    <2> QED BY <1>1, <1>2, <1>3, <1>4, <1>5, <2>1, <2>2, BoundsBehind
  <1>11. KeptOK'
    <2> SUFFICES ASSUME ~mixed, NEW i \in Ids, used[i] # "discarded"
                 PROVE  /\ t.kept[i] <= durable'[i]
                        /\ request.made /\ request.current /\ request.answer # None
                               => t.kept[i] <= request.answer[i]
                        /\ \A k \in 1..Len(down') : Settles(down'[k]) =>
                              /\ t.live[i] <= durable'[i]
                              /\ \A j \in 1..(k - 1) : Amount(down'[j], i) <= durable'[i]
      BY <1>1 DEF KeptOK
    <2>1. t.kept[i] \in Int
      BY Values DEF Types, TranscriptTypes, State, Store
    <2>2. t.kept[i] <= durable'[i]
      BY <2>1, <1>4, KnownFact DEF KeptOK
    <2>3. t.live[i] <= durable'[i] /\ \A k \in 1..Len(down) : Amount(down[k], i) <= durable'[i]
      BY <1>4 DEF BoundsOK
    <2>4. \A k \in 1..Len(down') : \A j \in 1..(k - 1) : j \in 1..Len(down) /\ down'[j] = down[j]
      BY <1>3 DEF Behind
    <2> QED BY <2>2, <2>3, <2>4 DEF KeptOK
  <1>12. RegisteredOK'
    BY <1>1, <1>2, <1>3, <1>5, RegisteredBehind DEF Snaps
  <1>13. RunnerOK'
    BY <1>1, <1>2, <1>3, RunnerBehind
  <1>14. StreamsOK'
    <2>1. mixed' \in BOOLEAN
      BY <1>5 DEF Types, TranscriptTypes
    <2> QED BY <1>1, <1>2, <1>3, <1>4, <2>1, Values, StreamsBehind DEF Streams
  <1> QED BY <1>5, <1>6, <1>7, <1>8, <1>9, <1>10, <1>11, <1>12, <1>13, <1>14

LEMMA CheckpointOK ==
    ASSUME NEW m \in Ids PROVE TranscriptInv /\ Checkpoint(m) => TranscriptInv'
  <1> SUFFICES ASSUME TranscriptInv, Checkpoint(m) PROVE TranscriptInv'
    OBVIOUS
  <1> USE DEF TranscriptInv
  <1>1. /\ UNCHANGED <<stream, version, phase, used, down, serving, mixed, ready,
                       t, request, again, error>>
        /\ durable' = [durable EXCEPT ![m] = stream[m]]
        /\ stream[m] > Max2(durable[m], 0)
        /\ durable \in Store /\ stream \in Store
    BY DEF Checkpoint, Quietly, hook, Types, TranscriptTypes
  <1>2. /\ \A i \in Ids : i # m => durable'[i] = durable[i]
        /\ durable'[m] = stream[m] /\ stream[m] >= durable[m] /\ stream[m] > 0
    BY <1>1, KnownFact DEF Store, Max2
  <1>3. \A i \in Ids : /\ Known(i)' = Known(i) /\ durable'[i] >= durable[i]
                       /\ Known(i) \in Int /\ durable[i] \in Int /\ durable'[i] \in Int
    BY <1>1, <1>2, KnownFact DEF Known, Max2
  <1>4. phase # "committed"
    BY <1>2, Values DEF RestOK
  <1>5. Types'
    BY <1>1 DEF Types, TranscriptTypes, Store
  <1>6. FramesOK' /\ ReadsOK' /\ RegisteredOK' /\ RunnerOK'
    BY <1>1 DEF FramesOK, ReadsOK, RegisteredOK, RunnerOK
  <1>7. RestOK'
    BY <1>1, <1>4 DEF RestOK
  <1>8. NewOK'
    BY <1>1, <1>2, Values DEF NewOK
  <1>9. /\ t.history \in Store /\ t.kept \in Store /\ t.live \in Store
        /\ request.answer \in Store \cup {None}
    BY DEF Types, TranscriptTypes, State
  <1>10. \A x \in Store : \A i \in Ids : x[i] \in Int
    BY Values DEF Store
  <1>11. \A k \in 1..Len(down), i \in Ids : Amount(down[k], i) \in Int
    BY AmountFact DEF Types
  <1>12. BoundsOK'
    BY <1>1, <1>3, <1>9, <1>10 DEF BoundsOK
  <1>13. KeptOK'
    <2>1. \A k \in 1..Len(down) : \A j \in 1..(k - 1) : j \in 1..Len(down)
      BY DEF Types
    <2> QED BY <1>1, <1>3, <1>9, <1>10, <1>11, <2>1 DEF KeptOK
  <1>14. StreamsOK'
    BY <1>1 DEF StreamsOK, Stale, Unkept
  <1> QED BY <1>5, <1>6, <1>7, <1>8, <1>12, <1>13, <1>14
LEMMA RegisterOK == TranscriptInv /\ Register => TranscriptInv'
  <1> SUFFICES ASSUME TranscriptInv, Register PROVE TranscriptInv'
    OBVIOUS
  <1> USE DEF TranscriptInv
  <1>1. /\ UNCHANGED <<durable, stream, version, phase, used, mixed, down, ready,
                       t, request, again, error>>
        /\ ready /\ serving = "no" /\ serving' = "registered" /\ down = <<>>
    BY DEF Register, server, hook, RestOK
  <1>2. Types'
    BY <1>1 DEF Types, TranscriptTypes
  <1>3. FramesOK' /\ RegisteredOK'
    BY <1>1 DEF FramesOK, RegisteredOK
  <1>4. RestOK'
    BY <1>1 DEF RestOK
  <1>5. NewOK' /\ ReadsOK' /\ KeptOK' /\ RunnerOK'
    BY <1>1 DEF NewOK, ReadsOK, KeptOK, RunnerOK
  <1>6. BoundsOK'
    BY <1>1 DEF BoundsOK, Known
  <1>7. StreamsOK'
    BY <1>1 DEF StreamsOK, Unkept
  <1> QED BY <1>2, <1>3, <1>4, <1>5, <1>6, <1>7

LEMMA ServerAnswersOK == TranscriptInv /\ ServerAnswers => TranscriptInv'
  <1> SUFFICES ASSUME TranscriptInv, ServerAnswers PROVE TranscriptInv'
    OBVIOUS
  <1> USE DEF TranscriptInv
  <1>1. /\ UNCHANGED <<durable, stream, version, phase, used, serving, mixed, down, ready,
                       t, again, error>>
        /\ request.made /\ request' = [request EXCEPT !.answer = durable]
        /\ request \in [made : BOOLEAN, current : BOOLEAN, answer : Store \cup {None}]
        /\ durable \in Store
    BY DEF ServerAnswers, server, wire, Types, TranscriptTypes
  <1>2. /\ request'.made = request.made /\ request'.current = request.current
        /\ request'.answer = durable
    BY <1>1
  <1>3. Types'
    BY <1>1 DEF Types, TranscriptTypes
  <1>4. FramesOK' /\ RegisteredOK' /\ RunnerOK'
    BY <1>1 DEF FramesOK, RegisteredOK, RunnerOK
  <1>5. ReadsOK' /\ RestOK'
    BY <1>1, <1>2 DEF ReadsOK, RestOK
  <1>6. NewOK'
    BY <1>1, <1>2 DEF NewOK
  <1>7. BoundsOK'
    BY <1>1, <1>2, KnownFact DEF BoundsOK, Known
  <1>8. KeptOK'
    BY <1>1, <1>2 DEF KeptOK
  <1>9. StreamsOK'
    BY <1>1 DEF StreamsOK, Unkept, Stale
  <1> QED BY <1>3, <1>4, <1>5, <1>6, <1>7, <1>8, <1>9

LEMMA ReadFailsOK == TranscriptInv /\ ReadFails => TranscriptInv'
  <1> SUFFICES ASSUME TranscriptInv, ReadFails PROVE TranscriptInv'
    OBVIOUS
  <1> USE DEF TranscriptInv
  <1>1. /\ UNCHANGED <<durable, stream, version, phase, used, serving, mixed, down, ready,
                       t, again>>
        /\ error' = TRUE /\ request' = NoRequest
        /\ request'.made = FALSE /\ request'.answer = None
    BY DEF ReadFails, server, wire, NoRequest
  <1>2. Types'
    BY <1>1 DEF Types, TranscriptTypes, NoRequest
  <1>3. FramesOK' /\ RegisteredOK' /\ RunnerOK'
    BY <1>1 DEF FramesOK, RegisteredOK, RunnerOK
  <1>4. ReadsOK' /\ RestOK'
    BY <1>1 DEF ReadsOK, RestOK
  <1>5. NewOK' /\ KeptOK'
    BY <1>1 DEF NewOK, KeptOK
  <1>6. BoundsOK'
    BY <1>1 DEF BoundsOK, Known
  <1>7. StreamsOK'
    BY <1>1 DEF StreamsOK, Unkept, Stale
  <1> QED BY <1>2, <1>3, <1>4, <1>5, <1>6, <1>7

\* A step that asks for the history leaves no answer that counts as current.
LEMMA RevisedFact ==
    ASSUME Types, Revised
    PROVE  /\ request' \in [made : BOOLEAN, current : BOOLEAN, answer : Store \cup {None}]
           /\ request'.made = TRUE
           /\ request'.current => request'.answer = None
           /\ request'.answer # None => request'.answer = request.answer
           /\ again' \in BOOLEAN
  BY DEF Types, TranscriptTypes, Revised, Reconcile, NewRequest

LEMMA ReconciledFact ==
    ASSUME NEW s \in State
    PROVE  /\ Reconciled(s) \in State
           /\ Reconciled(s).history = s.history /\ Reconciled(s).kept = s.kept
           /\ Reconciled(s).live = s.live /\ Reconciled(s).version = s.version
           /\ Reconciled(s).commitPending = s.commitPending
           /\ Reconciled(s).needsReconcile = TRUE
  BY DEF Reconciled, State

LEMMA AskedOK ==
    ASSUME TranscriptInv, t' = Reconciled(t), Revised,
           UNCHANGED <<server, serving, mixed, down>>,
           error' \in BOOLEAN, ready' \in BOOLEAN, serving # "no" => ready'
    PROVE  TranscriptInv'
  <1> USE DEF TranscriptInv
  <1>1. /\ UNCHANGED <<durable, stream, version, phase, used, serving, mixed, down>>
        /\ t' \in State /\ t'.history = t.history /\ t'.kept = t.kept /\ t'.live = t.live
        /\ t'.version = t.version /\ t'.commitPending = t.commitPending
        /\ t'.needsReconcile = TRUE
    BY ReconciledFact DEF server, Types, TranscriptTypes
  <1>2. Types'
    BY <1>1, RevisedFact DEF Types, TranscriptTypes
  <1>3. FramesOK' /\ RegisteredOK'
    BY <1>1 DEF FramesOK, RegisteredOK
  <1>4. /\ request'.made = TRUE /\ (request'.current => request'.answer = None)
        /\ (request'.answer # None => request'.answer = request.answer)
    BY RevisedFact
  <1>8. ReadsOK'
    BY <1>1, <1>4 DEF ReadsOK
  <1>9. RestOK'
    BY <1>1, <1>4 DEF RestOK
  <1>10. RunnerOK'
    BY <1>1 DEF RunnerOK
  <1>5. NewOK' /\ KeptOK'
    BY <1>1, <1>4 DEF NewOK, KeptOK
  <1>6. BoundsOK'
    BY <1>1, <1>4 DEF BoundsOK, Known
  <1>7. StreamsOK'
    BY <1>1 DEF StreamsOK, Unkept, Stale
  <1> QED BY <1>2, <1>3, <1>5, <1>6, <1>7, <1>8, <1>9, <1>10

LEMMA RetryOK == TranscriptInv /\ Retry => TranscriptInv'
  <1> SUFFICES ASSUME TranscriptInv, Retry PROVE TranscriptInv'
    OBVIOUS
  <1>1. /\ t' = Reconciled(t) /\ Revised /\ UNCHANGED <<server, serving, mixed, down>>
        /\ error' \in BOOLEAN /\ ready' = ready
    BY DEF Retry, wire
  <1>2. ready \in BOOLEAN /\ (serving # "no" => ready)
    BY DEF TranscriptInv, Types, TranscriptTypes, RestOK
  <1> QED BY <1>1, <1>2, AskedOK

LEMMA StutterOK == TranscriptInv /\ UNCHANGED transcript => TranscriptInv'
  <1> SUFFICES ASSUME TranscriptInv, UNCHANGED transcript PROVE TranscriptInv'
    OBVIOUS
  <1> USE DEF TranscriptInv
  <1>1. UNCHANGED <<durable, stream, version, phase, used, serving, mixed, down, ready,
                    t, request, again, error>>
    BY DEF transcript, server, wire, hook
  <1>2. Types' /\ FramesOK' /\ RegisteredOK' /\ RunnerOK'
    BY <1>1 DEF Types, TranscriptTypes, FramesOK, RegisteredOK, RunnerOK
  <1>3. ReadsOK' /\ RestOK' /\ NewOK' /\ KeptOK'
    BY <1>1 DEF ReadsOK, RestOK, NewOK, KeptOK
  <1>4. BoundsOK'
    BY <1>1 DEF BoundsOK, Known
  <1>5. StreamsOK'
    BY <1>1 DEF StreamsOK, Unkept, Stale
  <1> QED BY <1>2, <1>3, <1>4, <1>5

LEMMA BecomeReadyOK == TranscriptInv /\ BecomeReady => TranscriptInv'
  <1> SUFFICES ASSUME TranscriptInv, BecomeReady PROVE TranscriptInv'
    OBVIOUS
  <1> USE DEF TranscriptInv
  <1>1. CASE UNCHANGED hook
    <2>1. UNCHANGED <<durable, stream, version, phase, used, serving, mixed, down,
                      t, request, again, error>> /\ ready' = TRUE
      BY <1>1 DEF BecomeReady, server, hook
    <2>2. Types' /\ FramesOK' /\ RegisteredOK' /\ RunnerOK'
      BY <2>1 DEF Types, TranscriptTypes, FramesOK, RegisteredOK, RunnerOK
    <2>3. ReadsOK' /\ RestOK' /\ NewOK' /\ KeptOK'
      BY <2>1 DEF ReadsOK, RestOK, NewOK, KeptOK
    <2>4. BoundsOK'
      BY <2>1 DEF BoundsOK, Known
    <2>5. StreamsOK'
      BY <2>1 DEF StreamsOK, Unkept, Stale
    <2> QED BY <2>2, <2>3, <2>4, <2>5
  <1>2. CASE t' = Reconciled(t) /\ Revised /\ UNCHANGED error
    BY <1>2, AskedOK DEF BecomeReady, Types, TranscriptTypes
  <1> QED BY <1>1, <1>2 DEF BecomeReady

LEMMA DropOK == TranscriptInv /\ Drop => TranscriptInv'
  <1> SUFFICES ASSUME TranscriptInv, Drop PROVE TranscriptInv'
    OBVIOUS
  <1> USE DEF TranscriptInv
  <1>1. /\ UNCHANGED <<durable, stream, version, phase, used, mixed, t, request, again, error>>
        /\ ready' = FALSE /\ serving' = "no" /\ down' = <<>> /\ Len(down') = 0
    BY DEF Drop, server, hook
  <1>2. Types'
    <2>1. down' \in Seq(Frames) /\ \A k \in 1..Len(down') : down'[k].type \in FrameTypes
      BY <1>1
    <2> QED BY <1>1, <2>1 DEF Types, TranscriptTypes
  <1>3. FramesOK' /\ RegisteredOK' /\ RunnerOK'
    BY <1>1 DEF FramesOK, RegisteredOK, RunnerOK
  <1>4. ReadsOK' /\ RestOK'
    BY <1>1 DEF ReadsOK, RestOK
  <1>5. NewOK' /\ KeptOK'
    BY <1>1 DEF NewOK, KeptOK
  <1>6. BoundsOK'
    BY <1>1 DEF BoundsOK, Known
  <1>7. StreamsOK'
    BY <1>1 DEF StreamsOK, Unkept
  <1> QED BY <1>2, <1>3, <1>4, <1>5, <1>6, <1>7

LEMMA ReadSucceedsOK == TranscriptInv /\ ReadSucceeds => TranscriptInv'
  <1> SUFFICES ASSUME TranscriptInv, ReadSucceeds PROVE TranscriptInv'
    OBVIOUS
  <1> USE DEF TranscriptInv
  <1> DEFINE retires == request.current /\ t.commitPending
  <1>1. /\ UNCHANGED <<durable, stream, version, phase, used, serving, mixed, down, ready>>
        /\ request.made /\ request.answer # None /\ request.answer \in Store
        /\ error' = FALSE /\ again' = FALSE
        /\ request' = IF again \/ t'.needsReconcile THEN NewRequest ELSE NoRequest
        /\ t \in State /\ request.current \in BOOLEAN /\ again \in BOOLEAN
    BY DEF ReadSucceeds, server, wire, Types, TranscriptTypes
  <1>2. /\ t' = [history |-> request.answer,
                 kept |-> IF retires THEN Empty ELSE t.kept,
                 live |-> t.live, version |-> t.version, ended |-> t.ended,
                 commitPending |-> IF retires THEN FALSE ELSE t.commitPending,
                 needsReconcile |-> IF request.current THEN FALSE ELSE t.needsReconcile]
    BY <1>1 DEF ReadSucceeds, HistoryApplied, State
  <1>3. t' \in State
    BY <1>1, <1>2, Values DEF State
  <1>4. request' \in {NewRequest, NoRequest} /\ request'.answer = None
    BY <1>1 DEF NewRequest, NoRequest
  <1>5. Types'
    BY <1>1, <1>3, <1>4 DEF Types, TranscriptTypes, NewRequest, NoRequest
  <1>6. FramesOK' /\ RegisteredOK'
    BY <1>1 DEF FramesOK, RegisteredOK
  <1>7. t'.live = t.live /\ t'.version = t.version /\ t'.history = request.answer
        /\ t'.kept \in {t.kept, Empty}
    BY <1>2
  <1>8. RunnerOK'
    BY <1>1, <1>7 DEF RunnerOK
  <1>9. ReadsOK'
    BY <1>1, <1>2 DEF ReadsOK, NewRequest, NoRequest
  <1>10. RestOK'
    BY <1>1, <1>2, <1>7 DEF RestOK, ReadsOK, NewRequest, NoRequest
  <1>11. NewOK'
    BY <1>1, <1>4, <1>7, Values DEF NewOK
  <1>12. BoundsOK'
    BY <1>1, <1>4, <1>7 DEF BoundsOK, Known
  <1>13. KeptOK'
    BY <1>1, <1>4, <1>7, KnownFact, Values DEF KeptOK
  <1>14. StreamsOK'
    BY <1>1, <1>7, Values DEF StreamsOK, Unkept, Stale
  <1> QED BY <1>5, <1>6, <1>8, <1>9, <1>10, <1>11, <1>12, <1>13, <1>14
LEMMA SendSnapshotOK == TranscriptInv /\ SendSnapshot => TranscriptInv'
  <1> SUFFICES ASSUME TranscriptInv, SendSnapshot PROVE TranscriptInv'
    OBVIOUS
  <1> USE DEF TranscriptInv
  <1>1. /\ UNCHANGED <<durable, stream, version, phase, used, mixed, ready,
                       t, request, again, error>>
        /\ serving = "registered" /\ serving' = "live" /\ down' = <<Snapshot>> \o down
        /\ durable \in Store /\ stream \in Store /\ version \in 0..MaxVersion
        /\ down \in Seq(Frames)
    BY DEF SendSnapshot, server, hook, Types, TranscriptTypes
  <1> DEFINE f == Snapshot
  <1>2. /\ f \in Frames /\ f.reply = TRUE /\ f.version = version /\ Snaps(f)
        /\ f.messages = stream
        /\ phase = "committed" <=> f.type = "committed_snapshot"
    <2>1. phase \in {"running", "terminal", "committed"}
      BY DEF Types, TranscriptTypes
    <2>3. CASE phase = "committed"
      <3>1. (phase = "committed") = TRUE /\ (phase # "running") = TRUE
        BY <2>3
      <3> DEFINE b == Frame("committed_snapshot", version, None, 0, 0, stream)
      <3>3. f = [b EXCEPT !.ended = TRUE, !.reply = TRUE]
        BY <3>1, <2>3 DEF Snapshot
      <3>2. f = [type |-> "committed_snapshot", version |-> version, id |-> None,
                 offset |-> 0, length |-> 0, messages |-> stream,
                 ended |-> TRUE, reply |-> TRUE]
        <4> HIDE DEF f
        <4> QED BY <3>3 DEF Frame
      <3> QED BY <1>1, <3>2, <2>3, Values DEF Frames, FrameTypes, Snaps
    <2>4. CASE phase = "running"
      <3>1. (phase = "committed") = FALSE /\ (phase # "running") = FALSE
        BY <2>4
      <3> DEFINE b == Frame("snapshot", version, None, 0, 0, stream)
      <3>3. f = [b EXCEPT !.ended = FALSE, !.reply = TRUE]
        BY <3>1, <2>4 DEF Snapshot
      <3>2. f = [type |-> "snapshot", version |-> version, id |-> None,
                 offset |-> 0, length |-> 0, messages |-> stream,
                 ended |-> FALSE, reply |-> TRUE]
        <4> HIDE DEF f
        <4> QED BY <3>3 DEF Frame
      <3> QED BY <1>1, <3>2, <2>4, Values DEF Frames, FrameTypes, Snaps
    <2>5. CASE phase = "terminal"
      <3>1. (phase = "committed") = FALSE /\ (phase # "running") = TRUE
        BY <2>5
      <3> DEFINE b == Frame("snapshot", version, None, 0, 0, stream)
      <3>3. f = [b EXCEPT !.ended = TRUE, !.reply = TRUE]
        BY <3>1, <2>5 DEF Snapshot
      <3>2. f = [type |-> "snapshot", version |-> version, id |-> None,
                 offset |-> 0, length |-> 0, messages |-> stream,
                 ended |-> TRUE, reply |-> TRUE]
        <4> HIDE DEF f
        <4> QED BY <3>3 DEF Frame
      <3> QED BY <1>1, <3>2, <2>5, Values DEF Frames, FrameTypes, Snaps
    <2> QED BY <2>1, <2>3, <2>4, <2>5
  <1> HIDE DEF f
  <1>3. /\ down' \in Seq(Frames) /\ Len(down) \in Nat /\ Len(down') = Len(down) + 1
        /\ down' # <<>> /\ down'[1] = f
        /\ \A k \in 1..Len(down') :
               k = 1 \/ (k > 1 /\ k - 1 \in 1..Len(down) /\ down'[k] = down[k - 1])
    BY <1>1, <1>2 DEF f
  <1>4. Types'
    <2>1. \A k \in 1..Len(down') : down'[k] \in Frames
      BY <1>3
    <2> QED BY <1>1, <1>3, <2>1, FrameTyped DEF Types, TranscriptTypes
  <1>5. FramesOK'
    BY <1>1, <1>2, <1>3 DEF FramesOK, Snaps
  <1>6. ReadsOK' /\ RegisteredOK'
    BY <1>1 DEF ReadsOK, RegisteredOK
  <1>7. RestOK'
    <2>1. CASE down = <<>>
      BY <1>1, <1>2, <1>3, <2>1 DEF RestOK, Settles
    <2>2. CASE down # <<>>
      <3>1. Len(down) # 0 /\ down'[Len(down')] = down[Len(down)]
        BY <1>3, <2>2, <1>1
      <3> QED BY <1>1, <1>3, <2>2, <3>1 DEF RestOK
    <2> QED BY <2>1, <2>2
  <1>8. NewOK'
    BY <1>1, <1>2, <1>3 DEF NewOK, Mentions, Streams, Snaps
  <1>9. \A i \in Ids : Amount(f, i) <= Known(i) /\ (phase = "committed" => Amount(f, i) = -1)
    <2>1. CASE phase = "committed"
      <3>1. \A i \in Ids : Amount(f, i) = -1
        BY <1>2, <2>1, Values DEF Amount
      <3>2. \A i \in Ids : Known(i) \in Int /\ Known(i) >= -1
        BY KnownFact
      <3> QED BY <3>1, <3>2
    <2>2. CASE phase # "committed"
      <3>1. \A i \in Ids : Amount(f, i) = stream[i]
        BY <1>2, <2>2 DEF Amount, Snaps
      <3> QED BY <2>2, <3>1, KnownFact
    <2> QED BY <2>1, <2>2
  <1>10. BoundsOK'
    BY <1>1, <1>3, <1>9 DEF BoundsOK, Known
  <1>11. KeptOK'
    <2> SUFFICES ASSUME ~mixed, NEW i \in Ids, used[i] # "discarded",
                        NEW k \in 1..Len(down'), Settles(down'[k])
                 PROVE  /\ t.live[i] <= durable[i]
                        /\ \A j \in 1..(k - 1) : Amount(down'[j], i) <= durable[i]
      BY <1>1 DEF KeptOK
    <2>1. phase = "committed"
      BY <1>1, <1>2, <1>3 DEF RegisteredOK, Settles, Snaps
    <2>2. Known(i) = durable[i] /\ durable[i] \in Int /\ durable[i] >= -1
      BY <2>1, KnownFact, Values DEF RestOK
    <2>3. \A j \in 1..(k - 1) : j \in 1..Len(down')
      BY <1>3
    <2> QED BY <1>3, <1>9, <2>1, <2>2, <2>3 DEF BoundsOK
  <1>12. RunnerOK'
    BY <1>1, <1>2, <1>3 DEF RunnerOK, RegisteredOK, Snaps
  <1>13. StreamsOK'
    <2> SUFFICES ASSUME ~mixed PROVE StreamsOK'
      BY <1>1 DEF StreamsOK
    <2>1. \A k \in 1..Len(down') : Streams(down'[k]) => Stale(k)'
      <3> SUFFICES ASSUME NEW k \in 1..Len(down'), Streams(down'[k]) PROVE Stale(k)'
        OBVIOUS
      <3>1. k > 1
        BY <1>2, <1>3 DEF Streams, Snaps
      <3>2. down'[k].version <= down'[1].version
        BY <1>1, <1>2, <1>3, <3>1 DEF RegisteredOK
      <3>3. \A j \in 2..(k - 1) : ~Snaps(down'[j])
        BY <1>1, <1>3 DEF RegisteredOK
      <3> QED BY <1>2, <1>3, <3>1, <3>2, <3>3 DEF Stale
    <2>2. ASSUME NEW i \in Ids, stream[i] # Absent, used[i] = "used"
          PROVE  Unkept(i, Len(down) + 1)'
      <3>1. phase # "committed"
        BY <2>2, Values DEF RestOK
      <3>2. \A j \in 1..Len(down') : ~Settles(down'[j])
        BY <1>1, <1>2, <1>3, <3>1 DEF RegisteredOK, Settles, Snaps
      <3>3. t.kept[i] = Absent
        BY <2>2 DEF StreamsOK, Unkept
      <3>4. \A j \in 1..(Len(down') + 1 - 1) : j \in 1..Len(down')
        BY <1>3
      <3> QED BY <1>1, <3>2, <3>3, <3>4 DEF Unkept
    <2> QED BY <1>1, <1>3, <2>1, <2>2 DEF StreamsOK
  <1> QED BY <1>4, <1>5, <1>6, <1>7, <1>8, <1>10, <1>11, <1>12, <1>13

\* What a frame does to a transcript, as far as the invariant goes.
LEMMA AppliedEffect ==
    ASSUME NEW s \in State, NEW f \in Frames
    PROVE  LET n == After(s, f) IN
           /\ \A i \in Ids : ~(f.type = "discarded" /\ f.id = i) =>
                  /\ n.history[i] = s.history[i]
                  /\ Settles(f) => n.kept[i] = IF s.live[i] = Absent THEN s.kept[i] ELSE s.live[i]
                  /\ ~Settles(f) => n.kept[i] = s.kept[i]
                  /\ ~Mentions(f, i) => n.live[i] \in {s.live[i], Absent}
           /\ \A i \in Ids : n.live[i] <= s.live[i] \/ n.live[i] <= Amount(f, i)
           /\ \A i \in Ids : f.type = "discarded" /\ f.id = i =>
                  /\ n.history[i] \in {s.history[i], Absent}
                  /\ n.kept[i] \in {s.kept[i], Absent}
                  /\ n.live[i] \in {s.live[i], Absent}
           /\ Settles(f) => n.live = Empty /\ n.commitPending
           /\ Snaps(f) => n.version = f.version
           /\ ~Snaps(f) /\ s.version # None => n.version # None /\ n.version >= s.version
           /\ (~s.commitPending => s.kept = Empty) /\ ~n.commitPending => n.kept = Empty
  <1> DEFINE n == After(s, f)
  <1>0. /\ s.history \in Store /\ s.kept \in Store /\ s.live \in Store
        /\ s.version \in (0..MaxVersion) \cup {None} /\ f.version \in 0..MaxVersion
        /\ f.type \in FrameTypes /\ None \notin 0..MaxVersion
        /\ \A x \in Store, i \in Ids : x[i] \in Int /\ x[i] >= -1
    BY FrameTyped, Values DEF State, Store
  <1>1. CASE f.type = "snapshot"
    <2>1. /\ n.history = s.history /\ n.kept = s.kept /\ n.live = f.messages
          /\ n.version = f.version /\ n.commitPending = s.commitPending
      BY <1>1, SnapshotEffect
    <2>2. \A i \in Ids : Amount(f, i) = f.messages[i] /\ f.messages[i] \in Int
      BY <1>0, <1>1, FrameTyped DEF Amount
    <2> QED BY <1>0, <1>1, <2>1, <2>2 DEF Settles, Snaps, Mentions
  <1>2. CASE Settles(f)
    <2>1. /\ n.history = s.history /\ n.kept = MergeReplay(s.kept, s.live) /\ n.live = Empty
          /\ n.version # None /\ n.version >= f.version
          /\ f.type = "committed_snapshot" => n.version = f.version
          /\ f.type = "history_committed" /\ s.version # None => n.version >= s.version
          /\ n.commitPending = TRUE
      BY <1>2, SettlesEffect
    <2>2. \A i \in Ids : n.kept[i] = IF s.live[i] = Absent THEN s.kept[i] ELSE s.live[i]
      BY <2>1, <1>0, MergeFact
    <2> QED BY <1>0, <1>2, <2>1, <2>2, Values DEF Settles, Snaps
  <1>3. CASE f.type \in {"gap", "terminal"}
    <2>1. /\ n.history = s.history /\ n.kept = s.kept /\ n.live = s.live
          /\ n.version = s.version /\ n.commitPending = s.commitPending
      BY <1>3, QuietEffect
    <2> QED BY <1>0, <1>3, <2>1 DEF Settles, Snaps
  <1>4. CASE f.type \in {"started", "delta", "discarded"} /\ Seen(s, f)
    <2>1. n = s
      BY <1>4, SeenEffect
    <2> QED BY <1>0, <1>4, <2>1 DEF Settles, Snaps
  <1>5. CASE f.type = "started" /\ ~Seen(s, f)
    <2>1. /\ n.history = s.history /\ n.kept = s.kept
          /\ n.live = [s.live EXCEPT ![f.id] = IF @ = Absent THEN 0 ELSE @]
          /\ n.version = f.version /\ (s.version # None => n.version >= s.version)
          /\ n.commitPending = s.commitPending
      BY <1>5, StartedEffect
    <2>2. \A i \in Ids : \/ n.live[i] = s.live[i]
                         \/ i = f.id /\ n.live[i] = 0
      BY <2>1, <1>0 DEF Store
    <2> QED BY <1>0, <1>5, <2>1, <2>2 DEF Settles, Snaps, Mentions, Streams, Amount
  <1>6. CASE f.type = "discarded" /\ ~Seen(s, f)
    <2>1. /\ n.history = [s.history EXCEPT ![f.id] = Absent]
          /\ n.kept = [s.kept EXCEPT ![f.id] = Absent]
          /\ n.live = [s.live EXCEPT ![f.id] = Absent]
          /\ n.version = f.version /\ (s.version # None => n.version >= s.version)
          /\ n.commitPending = s.commitPending
      BY <1>6, DiscardedEffect
    <2>2. \A i \in Ids : IF i = f.id
              THEN n.history[i] = Absent /\ n.kept[i] = Absent /\ n.live[i] = Absent
              ELSE n.history[i] = s.history[i] /\ n.kept[i] = s.kept[i] /\ n.live[i] = s.live[i]
      BY <2>1, <1>0 DEF Store
    <2>3. s.kept = Empty => n.kept = Empty
      BY <2>1, Values DEF Empty
    <2> QED BY <1>0, <1>6, <2>1, <2>2, <2>3, Values DEF Settles, Snaps
  <1>7. CASE f.type = "delta" /\ ~Seen(s, f)
    <2>1. /\ n.history = s.history /\ n.kept = s.kept
          /\ \A i \in Ids : \/ n.live[i] = s.live[i]
                            \/ i = f.id /\ n.live[i] <= f.offset + f.length
          /\ n.version = f.version /\ (s.version # None => n.version >= s.version)
          /\ n.commitPending = s.commitPending
      BY <1>7, DeltaEffect
    <2> QED BY <1>0, <1>7, <2>1 DEF Settles, Snaps, Mentions, Streams, Amount
  <1> QED BY <1>0, <1>1, <1>2, <1>3, <1>4, <1>5, <1>6, <1>7 DEF FrameTypes, Settles
\* The first frame is delivered.
Delivered ==
    /\ Len(down) \in Nat /\ Len(down) >= 1 /\ Head(down) = down[1]
    /\ down[1] \in Frames
    /\ down' \in Seq(Frames) /\ Len(down') = Len(down) - 1
    /\ \A k \in 1..Len(down') : k + 1 \in 1..Len(down) /\ down'[k] = down[k + 1]
    /\ t \in State /\ t' = After(t, down[1])
    /\ UNCHANGED <<durable, stream, version, phase, used, serving, mixed, ready, error>>
    /\ serving = "live"

LEMMA DeliveredFact ==
    ASSUME Types, Deliver
    PROVE  /\ Delivered
           /\ IF Applied(t, down[1]).revised THEN Revised ELSE UNCHANGED <<request, again>>
  <1>1. /\ down \in Seq(Frames) /\ down # <<>> /\ down' = Tail(down)
    BY DEF Deliver, Types
  <1>2. /\ Len(down) \in Nat /\ Len(down) >= 1 /\ Head(down) = down[1] /\ down[1] \in Frames
        /\ down' \in Seq(Frames) /\ Len(down') = Len(down) - 1
        /\ \A k \in 1..Len(down') : k + 1 \in 1..Len(down) /\ down'[k] = down[k + 1]
    BY <1>1
  <1>3. /\ t' = After(t, down[1])
        /\ IF Applied(t, down[1]).revised THEN Revised ELSE UNCHANGED <<request, again>>
    BY <1>2 DEF Deliver, After
  <1>4. t \in State
    BY DEF Types, TranscriptTypes
  <1> QED BY <1>2, <1>3, <1>4 DEF Deliver, server, Delivered

LEMMA StaleTail ==
    ASSUME Delivered, NEW k \in 1..Len(down'), Stale(k + 1)
    PROVE  Stale(k)'
  <1>1. k + 1 \in 2..Len(down) /\ k + 1 > 1 /\ down'[k] = down[k + 1]
    BY DEF Delivered
  <1>2. down[k + 1] \in Frames /\ (k > 1 => down'[1] = down[2] /\ down[2] \in Frames)
    BY <1>1 DEF Delivered
  <1>3. /\ Snaps(down[1]) => t'.version = down[1].version
        /\ ~Snaps(down[1]) /\ t.version # None => t'.version # None /\ t'.version >= t.version
    BY AppliedEffect DEF Delivered
  <1>4. \A j \in 2..(k - 1) : ~Snaps(down'[j])
    <2>1. \A j \in 2..(k - 1) : j + 1 \in 2..((k + 1) - 1) /\ j \in 1..Len(down')
      OBVIOUS
    <2> QED BY <2>1 DEF Stale, Delivered
  <1>5. k > 1 => ~Snaps(down'[1])
    <2>1. k > 1 => 2 \in 2..((k + 1) - 1)
      OBVIOUS
    <2> QED BY <1>2, <2>1 DEF Stale
  <1>6. t.version \in Nat \cup {None} /\ t'.version \in Nat \cup {None}
        /\ down[1].version \in Nat /\ down[k + 1].version \in Nat /\ None \notin Nat
    <2>1. t' \in State
      BY AppliedTyped DEF Delivered
    <2> QED BY <2>1, <1>2, FrameTyped, Values DEF Delivered, State
  <1>7. t'.version # None /\ down[k + 1].version <= t'.version
    <2>1. CASE Snaps(down[1])
      BY <1>1, <1>3, <1>6, <2>1 DEF Stale
    <2>2. CASE ~Snaps(down[1])
      BY <1>1, <1>3, <1>6, <2>2 DEF Stale
    <2> QED BY <2>1, <2>2
  <1> QED BY <1>1, <1>4, <1>5, <1>7 DEF Stale

LEMMA UnkeptTail ==
    ASSUME Delivered, FramesOK, NEW i \in Ids, used[i] # "discarded",
           NEW k \in 1..Len(down), Unkept(i, k + 1)
    PROVE  Unkept(i, k)'
  <1>1. ~(down[1].type = "discarded" /\ down[1].id = i)
    BY DEF FramesOK, Delivered
  <1>2. /\ Settles(down[1]) =>
               t'.kept[i] = IF t.live[i] = Absent THEN t.kept[i] ELSE t.live[i]
        /\ ~Settles(down[1]) => t'.kept[i] = t.kept[i]
        /\ ~Mentions(down[1], i) => t'.live[i] \in {t.live[i], Absent}
    BY <1>1, AppliedEffect DEF Delivered
  <1>3. t'.kept[i] = Absent
    <2>1. 1 \in 1..((k + 1) - 1)
      OBVIOUS
    <2> QED BY <1>2, <2>1 DEF Unkept
  <1>4. ASSUME NEW j \in 1..(k - 1), Settles(down'[j])
        PROVE  /\ t'.live[i] = Absent
               /\ \A l \in 1..(j - 1) : ~Mentions(down'[l], i)
    <2>1. j \in 1..Len(down') /\ j + 1 \in 1..((k + 1) - 1) /\ down'[j] = down[j + 1]
      BY DEF Delivered
    <2>2. t.live[i] = Absent /\ \A l \in 1..((j + 1) - 1) : ~Mentions(down[l], i)
      BY <1>4, <2>1 DEF Unkept
    <2>3. 1 \in 1..((j + 1) - 1) /\ \A l \in 1..(j - 1) :
              l + 1 \in 1..((j + 1) - 1) /\ l \in 1..Len(down')
      BY <2>1 DEF Delivered
    <2>4. \A l \in 1..(j - 1) : down'[l] = down[l + 1]
      BY <2>3 DEF Delivered
    <2> QED BY <1>2, <2>2, <2>3, <2>4
  <1> QED BY <1>3, <1>4 DEF Unkept

LEMMA DeliverOK == TranscriptInv /\ Deliver => TranscriptInv'
  <1> SUFFICES ASSUME TranscriptInv, Deliver PROVE TranscriptInv'
    OBVIOUS
  <1> USE DEF TranscriptInv
  <1> DEFINE h == down[1]
             revised == Applied(t, h).revised
  <1>1. Delivered /\ IF revised THEN Revised ELSE UNCHANGED <<request, again>>
    BY DeliveredFact
  <1>2. /\ h \in Frames /\ t \in State /\ t' = After(t, h) /\ Len(down) \in Nat
        /\ UNCHANGED <<durable, stream, version, phase, used, serving, mixed, ready, error>>
        /\ serving = "live" /\ 1 \in 1..Len(down)
        /\ Len(down') = Len(down) - 1
        /\ \A k \in 1..Len(down') : k + 1 \in 1..Len(down) /\ down'[k] = down[k + 1]
    BY <1>1 DEF Delivered
  <1>3. /\ t' \in State /\ revised \in BOOLEAN
        /\ revised => t'.needsReconcile
        /\ ~revised => t'.needsReconcile = t.needsReconcile
        /\ Settles(h) => revised
    BY <1>2, AppliedTyped, SettlesEffect
  <1>4. /\ request' \in [made : BOOLEAN, current : BOOLEAN, answer : Store \cup {None}]
        /\ again' \in BOOLEAN
        /\ revised => /\ request'.made = TRUE
                      /\ request'.current => request'.answer = None
                      /\ request'.answer # None => request'.answer = request.answer
        /\ ~revised => request' = request /\ again' = again
    BY <1>1, RevisedFact DEF Types, TranscriptTypes
  <1> HIDE DEF revised, h
  <1>5. Types'
    <2>1. \A k \in 1..Len(down') : down'[k] \in Frames
      BY <1>1 DEF Delivered
    <2> QED BY <1>1, <1>2, <1>3, <1>4, <2>1, FrameTyped DEF Types, TranscriptTypes, Delivered
  <1>6. FramesOK'
    BY <1>2 DEF FramesOK
  <1>7. ReadsOK'
    <2>1. (~t.commitPending => t.kept = Empty) /\ ~t'.commitPending => t'.kept = Empty
      BY <1>2, AppliedEffect
    <2> QED BY <1>2, <1>3, <1>4, <2>1 DEF ReadsOK
  <1>8. RestOK'
    <2>1. CASE down' = <<>>
      <3>0. Len(down) = 1 /\ down # <<>> /\ down[Len(down)] = h
        <4>1. Len(down') = 0
          BY <2>1
        <4>2. Len(down) = 1
          BY <1>2, <4>1
        <4> QED BY <4>2 DEF h
      <3>1. phase = "committed" => Settles(h)
        BY <3>0 DEF RestOK
      <3>2. Settles(h) => t'.live = Empty
        BY <1>2, AppliedEffect
      <3> QED BY <1>2, <1>3, <1>4, <2>1, <3>1, <3>2 DEF RestOK
    <2>2. CASE down' # <<>>
      <3>1. Len(down') >= 1 /\ down'[Len(down')] = down[Len(down)] /\ down # <<>>
        BY <1>1, <1>2, <2>2 DEF Delivered
      <3> QED BY <1>2, <2>2, <3>1 DEF RestOK
    <2> QED BY <2>1, <2>2
  <1>9. \A i \in Ids : used[i] # "discarded" => ~(h.type = "discarded" /\ h.id = i)
    BY <1>2 DEF FramesOK, h
  <1>10. \A i \in Ids : used[i] # "discarded" =>
             /\ t'.history[i] = t.history[i]
             /\ Settles(h) => t'.kept[i] = IF t.live[i] = Absent THEN t.kept[i] ELSE t.live[i]
             /\ ~Settles(h) => t'.kept[i] = t.kept[i]
             /\ ~Mentions(h, i) => t'.live[i] \in {t.live[i], Absent}
             /\ t'.live[i] <= t.live[i] \/ t'.live[i] <= Amount(h, i)
    BY <1>2, <1>9, AppliedEffect
  <1>11. NewOK'
    <2> SUFFICES ASSUME NEW i \in Ids, used[i] = "new"
                 PROVE  /\ t'.history[i] = Absent /\ t'.kept[i] = Absent /\ t'.live[i] = Absent
                        /\ \A k \in 1..Len(down') : ~Mentions(down'[k], i)
                        /\ request'.answer # None => request'.answer[i] = Absent
      BY <1>2 DEF NewOK
    <2>1. ~Mentions(h, i) /\ \A k \in 1..Len(down') : ~Mentions(down'[k], i)
      BY <1>2 DEF NewOK, h
    <2> QED BY <1>3, <1>4, <1>10, <2>1 DEF NewOK
  <1>12. /\ \A i \in Ids : /\ t.live[i] \in Int /\ t'.live[i] \in Int /\ t.kept[i] \in Int
                           /\ durable[i] \in Int /\ Known(i) \in Int /\ Amount(h, i) \in Int
    <2>1. \A x \in Store, i \in Ids : x[i] \in Int
      BY Values DEF Store
    <2> QED BY <2>1, <1>2, <1>3, KnownFact, AmountFact DEF State
  <1>13. BoundsOK'
    <2> SUFFICES ASSUME NEW i \in Ids, used[i] # "discarded"
                 PROVE  /\ t'.history[i] <= durable[i]
                        /\ request'.answer # None =>
                              /\ t'.history[i] <= request'.answer[i]
                              /\ request'.answer[i] <= durable[i]
                        /\ t'.live[i] <= Known(i)
                        /\ \A k \in 1..Len(down') : Amount(down'[k], i) <= Known(i)
      BY <1>2 DEF BoundsOK, Known
    <2>1. Amount(h, i) <= Known(i) /\ t.live[i] <= Known(i)
      BY <1>2 DEF BoundsOK, h
    <2>2. t'.live[i] <= Known(i)
      BY <1>10, <1>12, <2>1
    <2> QED BY <1>2, <1>3, <1>4, <1>10, <2>2 DEF BoundsOK
  <1>14. KeptOK'
    <2> SUFFICES ASSUME ~mixed, NEW i \in Ids, used[i] # "discarded"
                 PROVE  /\ t'.kept[i] <= durable[i]
                        /\ request'.made /\ request'.current /\ request'.answer # None
                               => t'.kept[i] <= request'.answer[i]
                        /\ \A k \in 1..Len(down') : Settles(down'[k]) =>
                              /\ t'.live[i] <= durable[i]
                              /\ \A j \in 1..(k - 1) : Amount(down'[j], i) <= durable[i]
      BY <1>2 DEF KeptOK
    <2>1. t'.kept[i] <= durable[i]
      <3>1. Settles(h) => t.live[i] <= durable[i]
        BY <1>2 DEF KeptOK, h
      <3> QED BY <1>10, <3>1 DEF KeptOK
    <2>2. request'.made /\ request'.current /\ request'.answer # None
              => t'.kept[i] <= request'.answer[i]
      BY <1>3, <1>4, <1>10 DEF KeptOK
    <2>3. ASSUME NEW k \in 1..Len(down'), Settles(down'[k])
          PROVE  /\ t'.live[i] <= durable[i]
                 /\ \A j \in 1..(k - 1) : Amount(down'[j], i) <= durable[i]
      <3>1. /\ t.live[i] <= durable[i]
            /\ \A j \in 1..((k + 1) - 1) : Amount(down[j], i) <= durable[i]
        BY <1>2, <2>3 DEF KeptOK
      <3>2. 1 \in 1..((k + 1) - 1)
            /\ \A j \in 1..(k - 1) : j + 1 \in 1..((k + 1) - 1) /\ down'[j] = down[j + 1]
        BY <1>2
      <3>3. Amount(h, i) <= durable[i]
        BY <3>1, <3>2 DEF h
      <3> QED BY <1>10, <1>12, <3>1, <3>2, <3>3
    <2> QED BY <2>1, <2>2, <2>3
  <1>15. RegisteredOK'
    BY <1>2 DEF RegisteredOK
  <1>16. RunnerOK'
    <2>1. Settles(h) => t'.live = Empty
      BY <1>2, AppliedEffect
    <2> QED BY <1>2, <2>1 DEF RunnerOK, h
  <1>17. StreamsOK'
    <2> SUFFICES ASSUME ~mixed PROVE StreamsOK'
      BY <1>2 DEF StreamsOK
    <2>1. ASSUME NEW k \in 1..Len(down'), NEW i \in Ids, Streams(down'[k]),
                 down'[k].id = i, used[i] = "used", ~Stale(k)'
          PROVE  Unkept(i, k)'
      <3>1. k + 1 \in 1..Len(down) /\ down'[k] = down[k + 1] /\ k \in 1..Len(down)
        BY <1>2
      <3>2. ~Stale(k + 1)
        BY <1>1, <2>1, StaleTail
      <3>3. Unkept(i, k + 1)
        BY <1>2, <2>1, <3>1, <3>2 DEF StreamsOK
      <3> QED BY <1>1, <2>1, <3>1, <3>3, UnkeptTail
    <2>2. ASSUME NEW i \in Ids, stream[i] # Absent, used[i] = "used"
          PROVE  Unkept(i, Len(down) + 1)'
      <3>1. Unkept(i, Len(down) + 1)
        BY <2>2 DEF StreamsOK
      <3>2. ASSUME NEW k \in 1..Len(down), k = Len(down) PROVE Unkept(i, k)'
        BY <1>1, <2>2, <3>1, <3>2, UnkeptTail
      <3>3. ASSUME NEW k \in 1..Len(down), k = Len(down') + 1 PROVE Unkept(i, k)'
        BY <1>2, <3>2, <3>3
      <3>4. Len(down') + 1 \in 1..Len(down)
        BY <1>2
      <3> QED BY <3>3, <3>4 DEF Unkept
    <2> QED BY <1>2, <2>1, <2>2 DEF StreamsOK
  <1> QED BY <1>5, <1>6, <1>7, <1>8, <1>11, <1>13, <1>14, <1>15, <1>16, <1>17

LEMMA InvInit == TranscriptInit => TranscriptInv
  <1> SUFFICES ASSUME TranscriptInit PROVE TranscriptInv
    OBVIOUS
  <1> USE DEF TranscriptInit
  <1>1. /\ Len(down) = 0 /\ down \in Seq(Frames) /\ down = <<>>
        /\ t = EmptyTranscript /\ t.history = Empty /\ t.kept = Empty /\ t.live = Empty
        /\ t.version = None /\ t.commitPending = FALSE /\ t.needsReconcile = FALSE
        /\ request = NewRequest /\ request.made = TRUE /\ request.current = TRUE
        /\ request.answer = None /\ Empty \in Store
    BY Values DEF EmptyTranscript, NewRequest
  <1>2. t \in State /\ request \in [made : BOOLEAN, current : BOOLEAN, answer : Store \cup {None}]
    BY <1>1 DEF State, EmptyTranscript, NewRequest
  <1>3. Types
    <2>1. /\ version \in 0..MaxVersion /\ used \in [Ids -> {"new", "used", "discarded"}]
          /\ \A k \in 1..Len(down) : FALSE
      BY <1>1, Values
    <2>2. durable \in Store /\ stream \in Store /\ t \in State
          /\ request \in [made : BOOLEAN, current : BOOLEAN, answer : Store \cup {None}]
      BY <1>1, <1>2
    <2> QED BY <2>1, <2>2, <1>1 DEF Types, TranscriptTypes
  <1>4. FramesOK /\ RegisteredOK /\ RunnerOK
    BY <1>1 DEF FramesOK, RegisteredOK, RunnerOK
  <1>5. ReadsOK /\ RestOK
    BY <1>1 DEF ReadsOK, RestOK
  <1>6. \A i \in Ids : Empty[i] = Absent /\ Absent = -1 /\ Known(i) = Absent
    BY Values DEF Known, Max2
  <1>7. NewOK /\ BoundsOK /\ KeptOK
    BY <1>1, <1>6 DEF NewOK, BoundsOK, KeptOK
  <1>8. StreamsOK
    BY <1>1, <1>6 DEF StreamsOK
  <1> QED BY <1>3, <1>4, <1>5, <1>7, <1>8 DEF TranscriptInv

LEMMA InvStep == TranscriptInv /\ [TranscriptNext]_transcript => TranscriptInv'
  <1> SUFFICES ASSUME TranscriptInv, [TranscriptNext]_transcript PROVE TranscriptInv'
    OBVIOUS
  <1>1. CASE StartRunner BY <1>1, StartRunnerOK
  <1>2. CASE Terminate BY <1>2, TerminateOK
  <1>3. CASE Commit BY <1>3, CommitOK
  <1>4. ASSUME NEW i \in Ids, StartMessage(i) \/ Grow(i) \/ Checkpoint(i) \/ Discard(i)
        PROVE  TranscriptInv'
    BY <1>4, StartMessageOK, GrowOK, CheckpointOK, DiscardOK
  <1>5. CASE Register BY <1>5, RegisterOK
  <1>6. CASE SendSnapshot BY <1>6, SendSnapshotOK
  <1>7. CASE ServerAnswers BY <1>7, ServerAnswersOK
  <1>8. CASE Deliver BY <1>8, DeliverOK
  <1>9. CASE ReadSucceeds BY <1>9, ReadSucceedsOK
  <1>10. CASE ReadFails BY <1>10, ReadFailsOK
  <1>11. CASE Retry BY <1>11, RetryOK
  <1>12. CASE BecomeReady BY <1>12, BecomeReadyOK
  <1>13. CASE Drop BY <1>13, DropOK
  <1>14. CASE UNCHANGED transcript BY <1>14, StutterOK
  <1> QED BY <1>1, <1>2, <1>3, <1>4, <1>5, <1>6, <1>7, <1>8, <1>9, <1>10, <1>11,
             <1>12, <1>13, <1>14 DEF TranscriptNext

LEMMA InvAlways == TranscriptSpec => []TranscriptInv
  BY InvInit, InvStep, PTL DEF TranscriptSpec

\* The transcript, the server's part and the reads stay in their types, and a
\* read is asked for again only while one is in flight or has failed.
THEOREM TranscriptTypesAlways == TranscriptSpec => []TranscriptTypes
  <1>1. TranscriptInv => TranscriptTypes
    BY DEF TranscriptInv, Types
  <1> QED BY <1>1, InvAlways, PTL

\* At rest on a committed generation the pane shows the durable history, or an
\* error (useSubagentTranscript.ts:110-114, messageTranscript.ts:88-101).
THEOREM CommittedShownAlways == TranscriptSpec => []CommittedShown
  <1>1. TranscriptInv => CommittedShown
    <2> SUFFICES ASSUME TranscriptInv, AtRest, phase = "committed", ~error
                 PROVE  Shown(t) = durable /\ t.live = Empty
      BY DEF CommittedShown
    <2>1. t.live = Empty /\ t.history = durable /\ t.kept = Empty /\ durable \in Store
      BY DEF AtRest, TranscriptInv, RestOK, Types, TranscriptTypes
    <2>2. \A i \in Ids : /\ MergeReplay(t.kept, t.live)[i] = -1
                         /\ durable[i] \in Int /\ durable[i] >= -1
      BY <2>1, Values DEF MergeReplay, Store
    <2>3. Shown(t) = [i \in Ids |-> durable[i]]
      BY <2>1, <2>2 DEF Shown, Max2, Absent
    <2> QED BY <2>1, <2>3 DEF Store
  <1> QED BY <1>1, InvAlways, PTL

\* What is shown of a message depends on its length in the history and in the
\* replay, and grows with both.
Replayed(s, i) == IF s.live[i] = Absent THEN s.kept[i] ELSE s.live[i]

LEMMA ShownFact ==
    ASSUME NEW s \in State, NEW i \in Ids
    PROVE  /\ s.history[i] \in Int /\ s.history[i] >= -1
           /\ Replayed(s, i) \in Int /\ Replayed(s, i) >= -1
           /\ Shown(s)[i] = IF s.history[i] # Absent THEN Max2(s.history[i], Replayed(s, i))
                            ELSE IF Replayed(s, i) > 0 THEN Replayed(s, i) ELSE Absent
  <1>1. /\ s.history \in Store /\ s.kept \in Store /\ s.live \in Store
    BY DEF State
  <1>2. \A x \in Store : x[i] \in Int /\ x[i] >= -1
    BY Values DEF Store
  <1>3. MergeReplay(s.kept, s.live)[i] = Replayed(s, i)
    BY <1>1, MergeFact DEF Replayed
  <1> QED BY <1>1, <1>2, <1>3 DEF Shown, Replayed

LEMMA ShownGrows ==
    ASSUME NEW a \in State, NEW b \in State, NEW i \in Ids,
           a.history[i] <= b.history[i],
           Replayed(a, i) <= Replayed(b, i) \/ Replayed(a, i) <= b.history[i]
    PROVE  Shown(a)[i] <= Shown(b)[i]
  BY ShownFact DEF Max2, Absent

\* A frame that answers no subscription takes no text away.
LEMMA DeliverKeepsText ==
    ASSUME TranscriptInv, Deliver, ~mixed, ~Head(down).reply,
           NEW i \in Ids, used[i] = "used"
    PROVE  Shown(t)[i] <= Shown(t')[i]
  <1> USE DEF TranscriptInv
  <1> DEFINE f == down[1]
  <1>1. Delivered
    BY DeliveredFact
  <1>2. /\ f \in Frames /\ t \in State /\ t' = After(t, f) /\ 1 \in 1..Len(down)
        /\ ~f.reply /\ serving = "live"
    BY <1>1 DEF Delivered
  <1>4. ~(f.type = "discarded" /\ f.id = i)
    BY <1>2 DEF FramesOK
  <1>15. f = down[1]
    OBVIOUS
  <1> HIDE DEF f
  <1>3. t' \in State
    BY <1>2, AppliedTyped
  <1>5. t'.history[i] = t.history[i]
    BY <1>2, <1>4, AppliedEffect
  <1>14. /\ t.history[i] \in Int /\ Replayed(t, i) \in Int /\ Replayed(t', i) \in Int
         /\ t.live[i] \in Int /\ t.live[i] >= -1 /\ t.kept[i] \in Int /\ t.kept[i] >= -1
    BY <1>2, <1>3, ShownFact, Values DEF State, Store
  <1> SUFFICES Replayed(t, i) <= Replayed(t', i)
    BY <1>2, <1>3, <1>5, <1>14, ShownGrows
  <1>16. t'.kept[i] = t.kept[i] /\ t'.live[i] = t.live[i] => Replayed(t, i) <= Replayed(t', i)
    BY <1>14 DEF Replayed
  <1>17. t'.kept = t.kept /\ t'.live = t.live => Replayed(t, i) <= Replayed(t', i)
    BY <1>16
  <1>6. CASE f.type = "snapshot"
    <2>1. t.live = Empty /\ f.messages = Empty
      BY <1>2, <1>6, <1>15 DEF RunnerOK, Frames
    <2>2. t'.kept = t.kept /\ t'.live = f.messages
      BY <1>2, <1>6, SnapshotEffect
    <2> QED BY <2>1, <2>2, <1>17
  <1>7. CASE Settles(f)
    <2>1. t'.live = Empty /\ t'.kept[i] = Replayed(t, i)
      BY <1>2, <1>4, <1>7, AppliedEffect DEF Replayed
    <2> QED BY <2>1, <1>14, Values DEF Replayed
  <1>8. CASE f.type \in {"gap", "terminal"}
    <2>1. t'.kept = t.kept /\ t'.live = t.live
      BY <1>2, <1>8, QuietEffect
    <2> QED BY <2>1, <1>17
  <1>9. CASE f.type \in {"started", "delta", "discarded"} /\ Seen(t, f)
    <2>1. t' = t
      BY <1>2, <1>9, SeenEffect
    <2> QED BY <2>1, <1>14
  <1>10. CASE f.type = "discarded" /\ ~Seen(t, f)
    <2>1. /\ t'.kept = [t.kept EXCEPT ![f.id] = Absent]
          /\ t'.live = [t.live EXCEPT ![f.id] = Absent]
      BY <1>2, <1>10, DiscardedEffect
    <2>2. t'.kept[i] = t.kept[i] /\ t'.live[i] = t.live[i]
      BY <2>1, <1>2, <1>4, <1>10 DEF State, Store
    <2> QED BY <2>2, <1>16
  <1>11. ASSUME Streams(f), f.id = i, ~Seen(t, f) PROVE t.kept[i] = Absent
    <2>1. f.version \in Int /\ t.version \in Int \cup {None}
      BY <1>2, FrameTyped, Values DEF State
    <2>2. ~Stale(1)
      BY <2>1, <1>11, <1>15 DEF Stale, Seen
    <2> QED BY <1>2, <1>11, <2>2, <1>15 DEF StreamsOK, Unkept
  <1>12. CASE f.type = "started" /\ ~Seen(t, f)
    <2>1. /\ t'.kept = t.kept
          /\ t'.live = [t.live EXCEPT ![f.id] = IF @ = Absent THEN 0 ELSE @]
      BY <1>2, <1>12, StartedEffect
    <2>2. t'.live[i] = IF f.id = i /\ t.live[i] = Absent THEN 0 ELSE t.live[i]
      BY <2>1, <1>2 DEF State, Store
    <2> QED BY <2>1, <2>2, <1>14, <1>11, <1>12 DEF Replayed, Streams, Absent
  <1>13. CASE f.type = "delta" /\ ~Seen(t, f)
    <2>1. /\ t'.kept = t.kept
          /\ \/ t'.live = t.live
             \/ /\ \A j \in Ids : j # f.id => t'.live[j] = t.live[j]
                /\ t'.live[f.id] >= t.live[f.id]
      BY <1>2, <1>13, DeltaEffect
    <2>2. t'.live[i] \in Int /\ t'.live[i] >= -1
      BY <1>3, Values DEF State, Store
    <2>3. t'.live[i] >= t.live[i]
      BY <2>1, <2>2, <1>14
    <2>4. f.id # i => t'.live[i] = t.live[i]
      BY <2>1
    <2> QED BY <2>1, <2>2, <2>3, <2>4, <1>14, <1>11, <1>13 DEF Replayed, Streams, Absent
  <1> QED BY <1>2, <1>6, <1>7, <1>8, <1>9, <1>10, <1>12, <1>13, FrameTyped
          DEF FrameTypes, Settles, Frames

\* A response takes no text away: it covers what was read before, and all that
\* is kept when it may retire the replay.
LEMMA ReadKeepsText ==
    ASSUME TranscriptInv, ReadSucceeds, ~mixed, NEW i \in Ids, used[i] = "used"
    PROVE  Shown(t)[i] <= Shown(t')[i]
  <1> USE DEF TranscriptInv
  <1> DEFINE answer == request.answer
             retires == request.current /\ t.commitPending
  <1>1. /\ t \in State /\ request.made /\ answer # None /\ answer \in Store
        /\ t' = HistoryApplied(t, answer, request.current)
    BY DEF ReadSucceeds, Types, TranscriptTypes
  <1>2. /\ t'.history = answer /\ t'.live = t.live
        /\ t'.kept = IF retires THEN Empty ELSE t.kept
    BY <1>1 DEF HistoryApplied, State
  <1>3. t' \in State
    BY InvStep DEF Types, TranscriptTypes, TranscriptNext
  <1>4. t.history[i] <= answer[i] /\ (retires => t.kept[i] <= answer[i])
    BY <1>1 DEF BoundsOK, KeptOK
  <1>5. Replayed(t, i) \in Int
    BY <1>1, ShownFact
  <1> HIDE DEF answer, retires
  <1>6. Replayed(t, i) <= Replayed(t', i) \/ Replayed(t, i) <= t'.history[i]
    BY <1>2, <1>4, <1>5 DEF Replayed
  <1> QED BY <1>1, <1>2, <1>3, <1>4, <1>6, ShownGrows

\* Text on show stays: only a rolled-back message, the answer to a subscription
\* and the mixing of two generations take text away
\* (messageTranscript.ts:16-18, 103-116).
THEOREM TextStaysAlways == TranscriptSpec => TextStays
  <1> DEFINE Stays(i) == ~mixed' /\ used'[i] = "used" /\ Shown(t')[i] < Shown(t)[i]
                             => down # <<>> /\ Head(down).reply
  <1>1. TranscriptInv /\ TranscriptInv' /\ [TranscriptNext]_transcript
            => [\A i \in Ids : Stays(i)]_transcript
    <2> SUFFICES ASSUME TranscriptInv, TranscriptInv', TranscriptNext, NEW i \in Ids,
                        ~mixed', used'[i] = "used", Shown(t')[i] < Shown(t)[i]
                 PROVE  down # <<>> /\ Head(down).reply
      OBVIOUS
    <2>1. /\ t \in State /\ t' \in State /\ down \in Seq(Frames)
          /\ Shown(t)[i] \in Int /\ Shown(t')[i] \in Int
      <3>1. t \in State /\ t' \in State /\ down \in Seq(Frames)
        BY DEF TranscriptInv, Types, TranscriptTypes
      <3> QED BY <3>1, ShownFact DEF Max2, Absent
    <2>2. CASE Deliver
      <3>1. ~mixed /\ used[i] = "used" /\ down # <<>>
        BY <2>2 DEF Deliver, server
      <3>2. ASSUME ~Head(down).reply PROVE FALSE
        BY <2>1, <2>2, <3>1, <3>2, DeliverKeepsText
      <3> QED BY <3>1, <3>2
    <2>3. CASE ReadSucceeds
      <3>1. ~mixed /\ used[i] = "used"
        BY <2>3 DEF ReadSucceeds, server, wire
      <3>2. Shown(t)[i] <= Shown(t')[i]
        BY <2>3, <3>1, ReadKeepsText
      <3> QED BY <2>1, <3>2
    <2>4. CASE Retry \/ BecomeReady
      <3>1. t' = t \/ t' = Reconciled(t)
        BY <2>4 DEF Retry, BecomeReady, hook
      <3>2. Shown(t')[i] = Shown(t)[i]
        BY <2>1, <3>1, ReconciledFact DEF Shown
      <3> QED BY <2>1, <3>2
    <2>5. t' = t \/ Deliver \/ ReadSucceeds \/ Retry \/ BecomeReady
      BY DEF TranscriptNext, StartRunner, Terminate, Commit, StartMessage, Grow,
             Checkpoint, Discard, Register, SendSnapshot, ServerAnswers, ReadFails,
             Drop, Quietly, hook
    <2> QED BY <2>1, <2>2, <2>3, <2>4, <2>5
  <1> QED BY <1>1, InvAlways, PTL DEF TranscriptSpec, TextStays
=============================================================================
