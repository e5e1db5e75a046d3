------------------------------ MODULE DropSend ------------------------------
(***************************************************************************)
(* The loss injector of the turbo server under every order of its calls.   *)
(* The server calls dropsendto with two different parameter pairs: blocks  *)
(* of the file with (1000, LOSS_NUM), empty answers to a request for a     *)
(* block past the end with (10, 9).  Both pairs share the two counters.    *)
(***************************************************************************)
EXTENDS LossInjector

CONSTANTS
  TotalNum,    \* totalnum of the block sends (1000 in the code)
  LossNum,     \* LOSS_NUM, the server's fourth argument
  EmptyTotal,  \* totalnum of the empty sends (10)
  EmptyLoss    \* lossnum of the empty sends (9)

ASSUME InjectorAssumption ==
  /\ TotalNum \in Nat /\ TotalNum > 1
  /\ LossNum \in Nat
  /\ EmptyTotal \in Nat /\ EmptyTotal > 1 /\ EmptyTotal < TotalNum
  /\ EmptyLoss \in Nat /\ EmptyLoss > 0
  /\ LossCap > LossNum /\ LossCap > EmptyLoss

VARIABLES
  counters,  \* packet_counter and loss_counter
  drops,     \* block sends swallowed in a row, counted up to LossCap
  passes,    \* block sends let through in a row
  empties    \* an empty send has been made

vars == <<counters, drops, passes, empties>>

Init ==
  /\ counters = FreshCounters
  /\ drops = 0
  /\ passes = 0
  /\ empties = FALSE

\* A send of a block, of the size datagram or of the repeated last packet.
SendBlock ==
  /\ counters' = DropSendTo(counters, TotalNum, LossNum)
  /\ IF Passes(counters, TotalNum)
       THEN passes' = passes + 1 /\ drops' = 0
       ELSE drops' = (IF drops < LossCap THEN drops + 1 ELSE drops) /\ passes' = 0
  /\ UNCHANGED empties

\* nackhandle answers a request for a block past the end of the file.
SendEmpty ==
  /\ counters' = DropSendTo(counters, EmptyTotal, EmptyLoss)
  /\ empties' = TRUE
  /\ drops' = 0
  /\ passes' = 0

Next == SendBlock \/ SendEmpty

Spec == Init /\ [][Next]_vars /\ WF_vars(SendBlock)

-----------------------------------------------------------------------------

Jammed == counters.packet = TotalNum /\ counters.loss > LossNum

\* TypeOK: the counters are positive and packet_counter stops at the larger
\* total.
TypeOK ==
  /\ counters \in [packet : Nat \ {0}, loss : Nat \ {0}]
  /\ counters.packet <= TotalNum
  /\ counters.loss <= LossCap
  /\ drops \in Nat
  /\ passes \in Nat
  /\ empties \in BOOLEAN

\* While only blocks are sent, dropsendto swallows at most LOSS_NUM of them in a
\* row and lets at most totalnum - 1 through in a row: the burst the lossnum
\* argument asks for, over any number of periods.
BurstBounded ==
  LossNum > 0 /\ ~empties => /\ drops <= LossNum
                              /\ passes <= TotalNum - 1

\* With LOSS_NUM at least 1, the injector can jam (swallow every later block)
\* only if an empty send moved the shared loss_counter past LOSS_NUM.
JamNeedsEmpty == LossNum > 0 /\ Jammed => empties

\* A jam is for ever: no later call of either kind brings the counters back.
JamIsPermanent == [][Jammed => Jammed']_vars

\* Under block sends alone a block is let through again and again: the turbo
\* transfer can rely on it to make progress however its NACKs fall.
KeepsPassing == []~empties => []<>(passes > 0)
=============================================================================
