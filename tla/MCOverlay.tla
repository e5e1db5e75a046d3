----------------------------- MODULE MCOverlay ------------------------------
(***************************************************************************)
(* Two routers, a tunnel server and two users under TLC.                   *)
(***************************************************************************)
EXTENDS Overlay

CONSTANTS r1, r2, t, u1, u2, junk

\* One user goes through both routers, the other through r2 alone, with the
\* shorter request, or through the tunnel.
MCRoutes == [u \in {u1, u2} |-> IF u = u1 THEN {<<r1, r2>>} ELSE {<<r2>>, <<t>>}]

\* Nothing but zeros.
MCZeros == {[r \in {r1, r2} |-> <<>>]}

\* Nothing but zeros, or one name's worth of something in the buffer of the
\* first router and two in that of the second.
MCStacks == {[r \in {r1, r2} |-> <<>>],
             [r \in {r1, r2} |-> IF r = r1 THEN <<junk>> ELSE <<junk, junk>>]}
=============================================================================
