---------------------------- MODULE LossInjector ----------------------------
(***************************************************************************)
(* The loss injector of the turbo server, dropsendto in                    *)
(* src/lab6/turboserver.c: every datagram the server sends goes through    *)
(* it, and two counters that live for the whole process decide which ones  *)
(* reach the socket.  Pure operators on the pair of counters; the modules  *)
(* DropSend and Turbo keep the pair in a variable.                         *)
(***************************************************************************)
EXTENDS Integers

CONSTANT LossCap  \* bound on loss_counter, see DropSendTo

ASSUME LossCapAssumption == LossCap \in Nat /\ LossCap > 1

\* Mutation of FreshCounters: counting from 0.
ZeroCounters == [packet |-> 0, loss |-> 0]

\* The two globals packet_counter and loss_counter at program start.
FreshCounters == [packet |-> 1, loss |-> 1]

\* The datagram is handed to sendto: only the packet_counter == totalnum branch
\* returns before the call.
Passes(c, totalnum) == c.packet # totalnum

\* loss_counter++.  Above every lossnum in use the counter equals none of them
\* until it overflows (2^31 swallowed datagrams later), so it stays at LossCap.
CountLoss(n) == IF n < LossCap THEN n + 1 ELSE n

\* Mutation of DropSendTo: every swallowed datagram counts, and loss_counter is
\* not reset.
DropSendToKeepsLoss(c, totalnum, lossnum) ==
  CASE c.packet < totalnum -> [c EXCEPT !.packet = @ + 1]
    [] c.packet = totalnum -> [packet |-> IF c.loss = lossnum THEN 1 ELSE c.packet,
                               loss |-> CountLoss(c.loss)]
    [] c.packet > totalnum -> c

\* Mutation of DropSendTo: loss_counter is compared with >= instead of ==.
DropSendToAtLeast(c, totalnum, lossnum) ==
  CASE c.packet < totalnum                         -> [c EXCEPT !.packet = @ + 1]
    [] c.packet = totalnum /\ c.loss >= lossnum    -> FreshCounters
    [] c.packet = totalnum /\ c.loss < lossnum     -> [c EXCEPT !.loss = CountLoss(@)]
    [] c.packet > totalnum                         -> c

\* What one call of dropsendto(.., totalnum, lossnum) does to the counters.  A
\* packet_counter above totalnum, which another caller's larger totalnum can
\* leave behind, matches neither branch.
DropSendTo(c, totalnum, lossnum) ==
  CASE c.packet < totalnum                         -> [c EXCEPT !.packet = @ + 1]
    [] c.packet = totalnum /\ c.loss = lossnum     -> FreshCounters
    [] c.packet = totalnum /\ c.loss # lossnum     -> [c EXCEPT !.loss = CountLoss(@)]
    [] c.packet > totalnum                         -> c
=============================================================================
