------------------------------ MODULE MCWeTalk ------------------------------
(***************************************************************************)
(* Two peers under TLC: a busy one and one that types less, for the runs   *)
(* in which users answer, and in which they type over their own            *)
(* invitation.                                                             *)
(***************************************************************************)
EXTENDS WeTalk

CONSTANTS p1, p2

MCPeers == {p1, p2}

\* Both users type three lines: invite, answer and talk in every order.
MCThreeLines == [p \in MCPeers |-> 3]

\* p1 invites up to three times, p2 answers once.
MCOneSided == [p \in MCPeers |-> IF p = p1 THEN 3 ELSE 1]
=============================================================================
