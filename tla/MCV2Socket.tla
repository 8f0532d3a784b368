----------------------------- MODULE MCV2Socket -----------------------------
(* Instances of V2Socket for TLC: two session channels, one of which is an   *)
(* agent channel.                                                            *)
EXTENDS V2SocketWindow

CONSTANTS agentA, messageA

MCSessions == {agentA, messageA}
MCAgents   == {agentA}
=============================================================================
