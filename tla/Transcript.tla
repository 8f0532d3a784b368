----------------------------- MODULE Transcript -----------------------------
(***************************************************************************)
(* The transcript of one child session: services/chat/messageTranscript.ts   *)
(* (what a frame or a history response does to it) and                       *)
(* hooks/useSubagentTranscript.ts (when the history is read).                *)
(*                                                                          *)
(* A text is the number of its characters: all versions of a message are     *)
(* prefixes of one text.  A store of messages maps each id to its length, or *)
(* to Absent; an empty message counts as absent wherever it is not shown.    *)
(*                                                                          *)
(* The server is external.  It registers a subscriber, lets live events      *)
(* queue, and puts the snapshot before them; an overrun queue loses deltas   *)
(* and says so; a runner's generation ends with its history committed; the   *)
(* history may hold a message that is still streaming.  Ids are not reused.  *)
(***************************************************************************)
EXTENDS Integers, Sequences

CONSTANTS
    Ids,           \* messages, numbered in the order of their creation
    MaxLength,     \* bound on the characters of a message
    MaxVersion,    \* bound on versions of a generation
    MaxFrames,     \* bound on frames in flight
    None           \* JavaScript null

ASSUME TranscriptAssumption ==
    /\ Ids \subseteq Nat /\ None \notin Nat
    /\ MaxLength \in Nat \ {0} /\ MaxVersion \in Nat \ {0}
    /\ MaxFrames \in Nat \ {0}

Absent == -1
Texts  == Absent..MaxLength
Store  == [Ids -> Texts]
Empty  == [i \in Ids |-> Absent]
Max2(a, b) == IF a >= b THEN a ELSE b

VARIABLES
    durable,     \* server: the projected history
    stream,      \* server: messages of the running generation
    version,     \* server: version of the last event
    phase,       \* server: "running", "terminal", or "committed" once durable
    used,        \* server: ids given out, by message; "discarded" if rolled back
    serving,     \* server: "no", "registered" or "live"
    mixed,       \* history: a runner started between a registration and its snapshot
    down,        \* frames in flight
    ready,       \* the socket is ready
    t,           \* MessageTranscriptState
    request,     \* the history read in flight
    again,       \* requestAgain
    error        \* the hook's error

server == <<durable, stream, version, phase, used>>
wire   == <<serving, mixed, down, ready>>
hook   == <<t, request, again, error>>
transcript == <<server, wire, hook>>

\* committedReplay is called kept; a request is answered or None, and current
\* while reconcileRevision is what it was when the request began.
State == [history : Store, kept : Store, live : Store,
          version : (0..MaxVersion) \cup {None}, ended : BOOLEAN,
          commitPending : BOOLEAN, needsReconcile : BOOLEAN]

EmptyTranscript ==
    [history |-> Empty, kept |-> Empty, live |-> Empty, version |-> None,
     ended |-> FALSE, commitPending |-> FALSE, needsReconcile |-> FALSE]

NoRequest  == [made |-> FALSE, current |-> FALSE, answer |-> None]
NewRequest == [made |-> TRUE, current |-> TRUE, answer |-> None]

\* The pane opens with its child registered and the first read under way.
TranscriptInit ==
    /\ durable = Empty /\ stream = Empty /\ version = 0
    /\ phase = "committed"
    /\ used = [i \in Ids |-> "new"]
    /\ serving = "no" /\ mixed = FALSE /\ down = <<>> /\ ready = FALSE
    /\ t = EmptyTranscript
    /\ request = NewRequest /\ again = FALSE /\ error = FALSE

-----------------------------------------------------------------------------
(* The server.                                                              *)

\* A snapshot that answers a subscription is marked `reply`, for the properties.
Frame(type, v, id, offset, length, messages) ==
    [type |-> type, version |-> v, id |-> id, offset |-> offset,
     length |-> length, messages |-> messages, ended |-> FALSE,
     reply |-> FALSE]

Snapshot ==
    [Frame(IF phase = "committed" THEN "committed_snapshot" ELSE "snapshot",
           version, None, 0, 0, stream)
        EXCEPT !.ended = phase # "running", !.reply = TRUE]

Emit(frame) == IF serving = "no" THEN UNCHANGED down
               ELSE Len(down) < MaxFrames /\ down' = Append(down, frame)

Quietly == UNCHANGED <<serving, mixed, ready, hook>>

\* A new runner replaces the last one; its versions begin again.
StartRunner ==
    /\ phase = "committed" /\ phase' = "running"
    /\ \E i \in Ids : used[i] = "new"
    /\ version' = 0
    /\ Emit(Frame("snapshot", 0, None, 0, 0, Empty))
    /\ mixed' = (mixed \/ serving = "registered")
    /\ UNCHANGED <<durable, stream, used, serving, ready, hook>>

StartMessage(i) ==
    /\ phase = "running" /\ version < MaxVersion
    /\ used[i] = "new" /\ \A j \in Ids : j < i => used[j] # "new"
    /\ used' = [used EXCEPT ![i] = "used"]
    /\ stream' = [stream EXCEPT ![i] = 0]
    /\ version' = version + 1
    /\ Emit(Frame("started", version + 1, i, 0, 0, Empty))
    /\ UNCHANGED <<durable, phase>> /\ Quietly

\* An overrun queue loses the delta and reports the gap.
Grow(i) ==
    /\ phase = "running" /\ version < MaxVersion
    /\ stream[i] \in 0..(MaxLength - 1)
    /\ stream' = [stream EXCEPT ![i] = @ + 1]
    /\ version' = version + 1
    /\ \/ Emit(Frame("delta", version + 1, i, stream[i], 1, Empty))
       \/ serving = "live" /\ Emit(Frame("gap", 0, None, 0, 0, Empty))
    /\ UNCHANGED <<durable, phase, used>> /\ Quietly

\* The projected history takes in a message that is still streaming.
Checkpoint(i) ==
    /\ stream[i] > Max2(durable[i], 0)
    /\ durable' = [durable EXCEPT ![i] = stream[i]]
    /\ UNCHANGED <<stream, version, phase, used, down>> /\ Quietly

Discard(i) ==
    /\ phase = "running" /\ version < MaxVersion /\ stream[i] # Absent
    /\ stream' = [stream EXCEPT ![i] = Absent]
    /\ durable' = [durable EXCEPT ![i] = Absent]
    /\ used' = [used EXCEPT ![i] = "discarded"]
    /\ version' = version + 1
    /\ Emit(Frame("discarded", version + 1, i, 0, 0, Empty))
    /\ UNCHANGED phase /\ Quietly

Terminate ==
    /\ phase = "running" /\ phase' = "terminal"
    /\ Emit(Frame("terminal", 0, None, 0, 0, Empty))
    /\ UNCHANGED <<durable, stream, version, used>> /\ Quietly

Commit ==
    /\ phase # "committed" /\ phase' = "committed"
    /\ durable' = [i \in Ids |-> Max2(durable[i], stream[i])]
    /\ stream' = Empty
    /\ Emit(Frame("history_committed", version, None, 0, 0, Empty))
    /\ UNCHANGED <<version, used>> /\ Quietly

Register ==
    /\ ready /\ serving = "no" /\ serving' = "registered"
    /\ UNCHANGED <<server, mixed, down, ready, hook>>

\* The snapshot goes before the events that queued since the registration.
SendSnapshot ==
    /\ serving = "registered" /\ serving' = "live"
    /\ down' = <<Snapshot>> \o down
    /\ UNCHANGED <<server, mixed, ready, hook>>

ServerAnswers ==
    /\ request.made /\ request.answer = None
    /\ request' = [request EXCEPT !.answer = durable]
    /\ UNCHANGED <<server, wire, t, again, error>>

-----------------------------------------------------------------------------
(* messageTranscript.ts.                                                    *)

MergeReplay(current, incoming) ==
    [i \in Ids |-> IF incoming[i] = Absent THEN current[i] ELSE incoming[i]]

\* What a reader of the pane sees of a message; all are prefixes of one text.
Shown(s) ==
    LET replay == MergeReplay(s.kept, s.live) IN
    [i \in Ids |-> IF s.history[i] # Absent THEN Max2(s.history[i], replay[i])
                   ELSE IF replay[i] > 0 THEN replay[i] ELSE Absent]

Reconciled(s) == [s EXCEPT !.needsReconcile = TRUE]

\* Mutant: any response retires the replay.
HistoryAppliedEagerly(s, answer, current) ==
    [s EXCEPT !.history = answer, !.kept = Empty, !.commitPending = FALSE,
              !.needsReconcile = IF current THEN FALSE ELSE @]

\* applyMessageHistory: only a current response retires the committed replay.
HistoryApplied(s, answer, current) ==
    LET retires == current /\ s.commitPending IN
    [s EXCEPT !.history = answer,
              !.kept = IF retires THEN Empty ELSE @,
              !.commitPending = IF retires THEN FALSE ELSE @,
              !.needsReconcile = IF current THEN FALSE ELSE @]

Kept(s) == MergeReplay(s.kept, s.live)

\* An event or control: the transcript after it; revised says that
\* reconcileRevision moved.
Result(s, revised) == [state |-> IF revised THEN Reconciled(s) ELSE s, revised |-> revised]

OnSnapshot(s, f) ==
    IF f.type = "committed_snapshot"
    THEN [s EXCEPT !.kept = Kept(s), !.live = Empty, !.version = f.version,
                   !.ended = f.ended \/ @, !.commitPending = TRUE]
    ELSE [s EXCEPT !.live = f.messages, !.version = f.version, !.ended = f.ended]

OnCommitted(s, f) ==
    [s EXCEPT !.kept = Kept(s), !.live = Empty,
              !.version = IF @ = None THEN f.version ELSE Max2(@, f.version),
              !.commitPending = TRUE]

OnStarted(s, f) ==
    [s EXCEPT !.live[f.id] = IF @ = Absent THEN 0 ELSE @,
              !.version = f.version, !.ended = FALSE]

OnDiscarded(s, f) ==
    [s EXCEPT !.history[f.id] = Absent, !.kept[f.id] = Absent,
              !.live[f.id] = Absent, !.version = f.version]

\* applyDelta: the length after a delta, None if bytes are missing.
Appended(current, f) ==
    LET length == Max2(current, 0) IN
    IF f.offset = length THEN f.offset + f.length
    ELSE IF f.offset + f.length <= length THEN length ELSE None

OnDelta(s, f) ==
    LET next == Appended(s.live[f.id], f) IN
    IF next = None THEN Result([s EXCEPT !.version = f.version], TRUE)
    ELSE Result([s EXCEPT !.live[f.id] = next, !.version = f.version], FALSE)

\* A snapshot is always accepted, another event only with a newer version.
Seen(s, f) == s.version # None /\ (s.version # None => f.version <= s.version)

Applied(s, f) ==
    CASE f.type \in {"snapshot", "committed_snapshot"} -> Result(OnSnapshot(s, f), TRUE)
      [] f.type = "history_committed"                  -> Result(OnCommitted(s, f), TRUE)
      [] f.type = "gap"                                -> Result(s, TRUE)
      [] f.type = "terminal"         -> Result([s EXCEPT !.ended = TRUE], FALSE)
      [] f.type \in {"started", "delta", "discarded"} /\ Seen(s, f) -> Result(s, FALSE)
      [] f.type = "started" /\ ~Seen(s, f)             -> Result(OnStarted(s, f), TRUE)
      [] f.type = "discarded" /\ ~Seen(s, f)           -> Result(OnDiscarded(s, f), FALSE)
      [] f.type = "delta" /\ ~Seen(s, f)               -> OnDelta(s, f)

-----------------------------------------------------------------------------
(* useSubagentTranscript.ts.                                                *)

\* Mutant: a read in flight is taken to cover what was asked since.
ReconcileOnce(stale) ==
    /\ request' = IF request.made THEN request ELSE NewRequest
    /\ UNCHANGED again

\* reconcile; `stale` is the request in flight as the step left it.
Reconcile(stale) ==
    /\ request' = IF request.made THEN stale ELSE NewRequest
    /\ again' = request.made

Revised == Reconcile([request EXCEPT !.current = FALSE])

\* onEvent, onControl: reconcileAfter.  Until the snapshot is sent the frames
\* wait on the server.
Deliver ==
    /\ serving = "live" /\ down # <<>> /\ down' = Tail(down)
    /\ LET r == Applied(t, Head(down)) IN
       /\ t' = r.state
       /\ IF r.revised THEN Revised ELSE UNCHANGED <<request, again>>
    /\ UNCHANGED <<server, serving, mixed, ready, error>>

\* The history arrives; what it does not cover is read again.
ReadSucceeds ==
    /\ request.made /\ request.answer # None
    /\ t' = HistoryApplied(t, request.answer, request.current)
    /\ error' = FALSE
    /\ request' = IF again \/ t'.needsReconcile THEN NewRequest ELSE NoRequest
    /\ again' = FALSE
    /\ UNCHANGED <<server, wire>>

\* Mutant: a failed read is not reported.
ReadFailsSilently ==
    /\ request.made
    /\ request' = NoRequest
    /\ UNCHANGED <<server, wire, t, again, error>>

\* The read fails: nothing is read again by itself, not even what asked for it.
ReadFails ==
    /\ request.made
    /\ error' = TRUE
    /\ request' = NoRequest
    /\ UNCHANGED <<server, wire, t, again>>

Retry ==
    /\ error
    /\ error' = FALSE
    /\ t' = Reconciled(t)
    /\ Revised
    /\ UNCHANGED <<server, wire>>

\* The first connection, or a reconnect, which the hook is told of.
BecomeReady ==
    /\ ~ready /\ ready' = TRUE
    /\ \/ UNCHANGED hook
       \/ t' = Reconciled(t) /\ Revised /\ UNCHANGED error
    /\ UNCHANGED <<server, serving, mixed, down>>

Drop ==
    /\ ready /\ ready' = FALSE
    /\ serving' = "no" /\ down' = <<>>
    /\ UNCHANGED <<server, mixed, hook>>

-----------------------------------------------------------------------------
TranscriptNext ==
    \/ StartRunner \/ Terminate \/ Commit
    \/ \E i \in Ids : StartMessage(i) \/ Grow(i) \/ Checkpoint(i) \/ Discard(i)
    \/ Register \/ SendSnapshot \/ ServerAnswers
    \/ Deliver \/ ReadSucceeds \/ ReadFails \/ Retry
    \/ BecomeReady \/ Drop

TranscriptSpec == TranscriptInit /\ [][TranscriptNext]_transcript

-----------------------------------------------------------------------------
(* Properties.                                                              *)

FrameTypes == {"snapshot", "committed_snapshot", "started", "delta", "discarded",
               "gap", "terminal", "history_committed"}

\* Types; a read is asked for again only while one is in flight or has failed.
TranscriptTypes ==
    /\ durable \in Store /\ stream \in Store /\ version \in 0..MaxVersion
    /\ phase \in {"running", "terminal", "committed"}
    /\ used \in [Ids -> {"new", "used", "discarded"}]
    /\ serving \in {"no", "registered", "live"}
    /\ mixed \in BOOLEAN /\ ready \in BOOLEAN
    /\ \A k \in 1..Len(down) : down[k].type \in FrameTypes
    /\ t \in State
    /\ request \in [made : BOOLEAN, current : BOOLEAN, answer : Store \cup {None}]
    /\ again \in BOOLEAN /\ error \in BOOLEAN
    /\ again => request.made \/ error

\* Nothing more will happen by itself.
AtRest == ready /\ serving = "live" /\ down = <<>> /\ ~request.made

\* When a generation is committed and all is quiet, the pane shows the durable
\* history and nothing else, or an error; nothing seems to stream
\* (useSubagentTranscript.ts:110-114, messageTranscript.ts:88-101).
CommittedShown ==
    AtRest /\ phase = "committed" /\ ~error => Shown(t) = durable /\ t.live = Empty

\* While frames are delivered in order, text on show never shrinks: not when a
\* generation is committed, nor when a response is older than the stream.  A
\* rolled-back message may go, the snapshot that answers a subscription may
\* replace what a lost commit would have kept, and all is lost once the frames
\* of one generation came behind the snapshot of the next
\* (messageTranscript.ts:16-18, 103-116).
TextStays ==
    [][\A i \in Ids :
          ~mixed' /\ used'[i] = "used" /\ Shown(t')[i] < Shown(t)[i]
              => down # <<>> /\ Head(down).reply]_transcript

\* A rolled-back attempt is not shown once all is quiet (messageTranscript.test.ts:102).
DiscardedGone ==
    AtRest /\ ~error => \A i \in Ids : used[i] = "discarded" => Shown(t)[i] = Absent
=============================================================================
