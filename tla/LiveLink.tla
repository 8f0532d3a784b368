------------------------------ MODULE LiveLink ------------------------------
(***************************************************************************)
(* What services/chat/v2Stream.ts promises its consumers about the one live *)
(* connection, without sockets, timers or frames: while something is        *)
(* subscribed the link is up or down; when it comes up again after it was   *)
(* down, the consumers are told, so that they reconcile what they missed;   *)
(* and a page that unsubscribed everything owes nobody anything             *)
(* (v2Stream.ts:421-426, 861-874).                                          *)
(***************************************************************************)

VARIABLES
    wanted,   \* something is subscribed
    up,       \* the channels are served
    owed      \* the next time the link comes up, its consumers are told

link == <<wanted, up, owed>>

Init == ~wanted /\ ~up /\ ~owed

\* The first subscription: nothing was missed yet.
Want == /\ ~wanted /\ wanted' = TRUE
        /\ up' = FALSE /\ owed' = FALSE

\* The link comes up, and a gap that was owed is announced in the same step.
ComeUp == /\ wanted /\ ~up /\ up' = TRUE
          /\ owed' = FALSE /\ UNCHANGED wanted

\* The link goes down under its subscribers.
GoDown == /\ wanted /\ up /\ up' = FALSE
          /\ owed' = TRUE /\ UNCHANGED wanted

\* An attempt to come up fails.  That is told as well, also the first time.
Fail == /\ wanted /\ ~up /\ ~owed
        /\ owed' = TRUE /\ UNCHANGED <<wanted, up>>

\* The last subscription ends.
Quit == /\ wanted /\ wanted' = FALSE
        /\ up' = FALSE /\ owed' = FALSE

Next == Want \/ ComeUp \/ GoDown \/ Fail \/ Quit

Spec == Init /\ [][Next]_link
=============================================================================
