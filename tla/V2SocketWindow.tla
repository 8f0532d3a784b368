--------------------------- MODULE V2SocketWindow ---------------------------
(***************************************************************************)
(* V2Socket with a history variable for the window in which a call may find *)
(* the current socket CLOSING and replace it before its close event comes   *)
(* (v2Stream.ts:1212 and 1295).  It separates what that window may swallow  *)
(* from every other interruption.                                           *)
(***************************************************************************)
EXTENDS V2Socket

VARIABLE window  \* since the page was idle, the current socket was CLOSING

windowVars == <<vars, window>>

Closes == \E s \in Sockets : ServerCloses(s)

WindowInit == Init /\ window = FALSE
WindowNext == Next /\ window' = (HasSubscriptions' /\ (window \/ Closes))
WindowSpec == WindowInit /\ [][WindowNext]_windowVars

WindowFairSpec == WindowSpec /\ Fairness

-----------------------------------------------------------------------------
\* No channel is live again after an interruption before the consumers that
\* reconcile lost agent events were told of it (onReconnected, v2Stream.ts:421),
\* but for what the window may swallow: no other interruption is ever silent.
GapAnnouncedElse == window \/ GapAnnounced

\* A page that never met the window sees a LiveLink, whatever goes wrong
\* underneath (ImplementsLiveLink is the same promise without any window).
LiveLinkElse == Link!Init /\ [][window' \/ Link!Next]_(Link!link)
=============================================================================
