--------------------------- MODULE DropSendProofs ---------------------------
(***************************************************************************)
(* The loss injector, for every period and every burst length.             *)
(***************************************************************************)
EXTENDS DropSend, TLAPS

\* Where a period of block sends stands: first totalnum - 1 passes, counted by
\* packet_counter, then LOSS_NUM drops, counted by loss_counter, then the reset.
Period ==
  LossNum > 0 /\ ~empties =>
    /\ counters.packet < TotalNum =>
         /\ counters.loss = 1
         /\ passes = counters.packet - 1
         /\ drops \in {0, LossNum}
    /\ counters.packet = TotalNum /\ counters.loss = 1 =>
         /\ passes = TotalNum - 1
         /\ drops = 0
    /\ counters.packet = TotalNum /\ counters.loss > 1 =>
         /\ passes = 0
         /\ drops = counters.loss - 1
    /\ counters.loss <= LossNum

IInv == TypeOK /\ Period

Counters == [packet : Nat \ {0}, loss : Nat \ {0}]

LEMMA InitIInv == Init => IInv
<1> SUFFICES ASSUME Init PROVE IInv
  OBVIOUS
<1>1. counters \in Counters /\ counters.packet = 1 /\ counters.loss = 1
  BY DEF Init, FreshCounters, Counters
<1>2. counters.packet <= TotalNum /\ counters.loss <= LossCap
  BY <1>1, InjectorAssumption, LossCapAssumption
<1>3. drops \in Nat /\ passes \in Nat /\ empties \in BOOLEAN
  BY DEF Init
<1>4. Period
  BY <1>1, InjectorAssumption DEF Init, Period
<1> QED
  BY <1>1, <1>2, <1>3, <1>4 DEF IInv, TypeOK, Counters

\* What one call does, by the branch it takes.
LEMMA SendBelow ==
  ASSUME NEW c \in Counters, NEW t \in Nat, NEW l \in Nat, c.packet < t
  PROVE  /\ DropSendTo(c, t, l) \in Counters
         /\ DropSendTo(c, t, l).packet = c.packet + 1
         /\ DropSendTo(c, t, l).loss = c.loss
<1>1. c.packet \in Nat
  BY DEF Counters
<1>2. DropSendTo(c, t, l) = [c EXCEPT !.packet = c.packet + 1]
  BY <1>1 DEF DropSendTo
<1> QED
  BY <1>1, <1>2 DEF Counters

LEMMA SendReset ==
  ASSUME NEW c \in Counters, NEW t \in Nat, NEW l \in Nat, c.packet = t, c.loss = l
  PROVE  /\ DropSendTo(c, t, l) \in Counters
         /\ DropSendTo(c, t, l).packet = 1
         /\ DropSendTo(c, t, l).loss = 1
<1>1. DropSendTo(c, t, l) = [packet |-> 1, loss |-> 1]
  BY DEF DropSendTo, FreshCounters
<1> QED
  BY <1>1 DEF Counters

LEMMA SendCount ==
  ASSUME NEW c \in Counters, NEW t \in Nat, NEW l \in Nat, c.packet = t, c.loss # l
  PROVE  /\ DropSendTo(c, t, l) \in Counters
         /\ DropSendTo(c, t, l).packet = t
         /\ DropSendTo(c, t, l).loss = IF c.loss < LossCap THEN c.loss + 1 ELSE c.loss
<1>1. DropSendTo(c, t, l) = [c EXCEPT !.loss = CountLoss(c.loss)]
  BY DEF DropSendTo
<1>2. CountLoss(c.loss) = IF c.loss < LossCap THEN c.loss + 1 ELSE c.loss
  BY DEF CountLoss
<1> QED
  BY <1>1, <1>2, LossCapAssumption DEF Counters

LEMMA SendAbove ==
  ASSUME NEW c \in Counters, NEW t \in Nat, NEW l \in Nat, c.packet > t
  PROVE  DropSendTo(c, t, l) = c
BY DEF DropSendTo, Counters

LEMMA NextIInv == IInv /\ [Next]_vars => IInv'
<1> SUFFICES ASSUME IInv, [Next]_vars PROVE IInv'
  OBVIOUS
<1>1. /\ counters \in Counters
      /\ counters.packet <= TotalNum /\ counters.loss <= LossCap
      /\ counters.packet \in Nat \ {0} /\ counters.loss \in Nat \ {0}
  BY DEF IInv, TypeOK, Counters
<1>2. drops \in Nat /\ passes \in Nat /\ empties \in BOOLEAN
  BY DEF IInv, TypeOK
<1>3. /\ TotalNum \in Nat /\ TotalNum > 1 /\ EmptyTotal \in Nat /\ EmptyTotal < TotalNum
      /\ LossNum \in Nat /\ EmptyLoss \in Nat /\ EmptyTotal > 1
      /\ LossCap \in Nat /\ LossCap > LossNum
  BY InjectorAssumption, LossCapAssumption
<1>4. CASE SendBlock
  <2>1. counters' = DropSendTo(counters, TotalNum, LossNum)
    BY <1>4 DEF SendBlock
  <2>2. /\ counters' \in Counters
        /\ counters.packet < TotalNum =>
             counters'.packet = counters.packet + 1 /\ counters'.loss = counters.loss
        /\ counters.packet = TotalNum /\ counters.loss = LossNum =>
             counters'.packet = 1 /\ counters'.loss = 1
        /\ counters.packet = TotalNum /\ counters.loss # LossNum =>
             /\ counters'.packet = TotalNum
             /\ counters'.loss = IF counters.loss < LossCap THEN counters.loss + 1 ELSE counters.loss
    <3>1. CASE counters.packet < TotalNum
      BY <1>1, <1>3, <2>1, <3>1, SendBelow
    <3>2. CASE counters.packet = TotalNum /\ counters.loss = LossNum
      BY <1>1, <1>3, <2>1, <3>2, SendReset
    <3>3. CASE counters.packet = TotalNum /\ counters.loss # LossNum
      BY <1>1, <1>3, <2>1, <3>3, SendCount
    <3> QED
      BY <1>1, <1>3, <3>1, <3>2, <3>3
  <2>3. counters'.packet <= TotalNum /\ counters'.loss <= LossCap
    BY <1>1, <1>3, <2>2
  <2>4. drops' \in Nat /\ passes' \in Nat
    BY <1>2, <1>4 DEF SendBlock
  <2>5. empties' = empties
    BY <1>4 DEF SendBlock
  <2>6. ASSUME LossNum > 0, ~empties
        PROVE  /\ counters'.packet < TotalNum =>
                    counters'.loss = 1 /\ passes' = counters'.packet - 1 /\ drops' \in {0, LossNum}
               /\ counters'.packet = TotalNum /\ counters'.loss = 1 =>
                    passes' = TotalNum - 1 /\ drops' = 0
               /\ counters'.packet = TotalNum /\ counters'.loss > 1 =>
                    passes' = 0 /\ drops' = counters'.loss - 1
               /\ counters'.loss <= LossNum
    <3>1. /\ counters.packet < TotalNum =>
               counters.loss = 1 /\ passes = counters.packet - 1 /\ drops \in {0, LossNum}
          /\ counters.packet = TotalNum /\ counters.loss = 1 => passes = TotalNum - 1 /\ drops = 0
          /\ counters.packet = TotalNum /\ counters.loss > 1 => passes = 0 /\ drops = counters.loss - 1
          /\ counters.loss <= LossNum
      BY <2>6 DEF IInv, Period
    <3>2. CASE counters.packet < TotalNum
      <4>1. passes' = passes + 1 /\ drops' = 0
        BY <1>1, <1>3, <1>4, <3>2 DEF SendBlock, Passes
      <4> QED
        BY <1>1, <1>2, <1>3, <2>2, <2>6, <3>1, <3>2, <4>1
    <3>3. CASE counters.packet = TotalNum
      <4>1. passes' = 0 /\ drops' = IF drops < LossCap THEN drops + 1 ELSE drops
        BY <1>4, <3>3 DEF SendBlock, Passes
      <4>2. CASE counters.loss = LossNum
        BY <1>1, <1>2, <1>3, <2>2, <2>6, <3>1, <3>3, <4>1, <4>2
      <4>3. CASE counters.loss # LossNum
        BY <1>1, <1>2, <1>3, <2>2, <2>6, <3>1, <3>3, <4>1, <4>3
      <4> QED
        BY <4>2, <4>3
    <3> QED
      BY <1>1, <1>3, <3>2, <3>3
  <2>7. TypeOK'
    BY <1>2, <2>2, <2>3, <2>4, <2>5 DEF TypeOK, Counters
  <2>8. Period'
    BY <2>5, <2>6 DEF Period
  <2> QED
    BY <2>7, <2>8 DEF IInv
<1>5. CASE SendEmpty
  <2>1. counters' = DropSendTo(counters, EmptyTotal, EmptyLoss)
    BY <1>5 DEF SendEmpty
  <2>2. /\ counters' \in Counters
        /\ counters'.packet <= TotalNum /\ counters'.loss <= LossCap
    <3>1. CASE counters.packet < EmptyTotal
      BY <1>1, <1>3, <2>1, <3>1, SendBelow
    <3>2. CASE counters.packet = EmptyTotal /\ counters.loss = EmptyLoss
      BY <1>1, <1>3, <2>1, <3>2, SendReset
    <3>3. CASE counters.packet = EmptyTotal /\ counters.loss # EmptyLoss
      BY <1>1, <1>3, <2>1, <3>3, SendCount
    <3>4. CASE counters.packet > EmptyTotal
      BY <1>1, <1>3, <2>1, <3>4, SendAbove
    <3> QED
      BY <1>1, <1>3, <3>1, <3>2, <3>3, <3>4
  <2>3. drops' \in Nat /\ passes' \in Nat /\ empties' = TRUE
    BY <1>5 DEF SendEmpty
  <2>4. TypeOK'
    BY <2>2, <2>3 DEF TypeOK, Counters
  <2>5. Period'
    BY <2>3 DEF Period
  <2> QED
    BY <2>4, <2>5 DEF IInv
<1>6. CASE UNCHANGED vars
  BY <1>6 DEF vars, IInv, TypeOK, Period
<1> QED
  BY <1>4, <1>5, <1>6 DEF Next

LEMMA InvariantIInv == Spec => []IInv
BY InitIInv, NextIInv, PTL DEF Spec

\* dropsendto swallows at most LOSS_NUM blocks in a row, and lets at most
\* totalnum - 1 through in a row, as long as no empty datagram is sent.
THEOREM BurstBoundedAlways == Spec => []BurstBounded
<1>1. IInv => BurstBounded
  BY InjectorAssumption DEF IInv, TypeOK, Period, BurstBounded
<1> QED
  BY <1>1, InvariantIInv, PTL

\* The injector jams only after an empty datagram has moved loss_counter.
THEOREM JamNeedsEmptyAlways == Spec => []JamNeedsEmpty
<1>1. IInv => JamNeedsEmpty
  BY InjectorAssumption DEF IInv, TypeOK, Period, JamNeedsEmpty, Jammed
<1> QED
  BY <1>1, InvariantIInv, PTL

\* Once jammed, dropsendto swallows every block for the rest of the process.
THEOREM JamForEver == Spec => JamIsPermanent
<1>1. IInv /\ [Next]_vars => [Jammed => Jammed']_vars
  <2> SUFFICES ASSUME IInv, Next, Jammed PROVE Jammed'
    BY DEF vars, Jammed
  <2>1. /\ counters \in Counters /\ counters.loss \in Nat
        /\ counters.packet = TotalNum /\ counters.loss > LossNum
    BY DEF IInv, TypeOK, Counters, Jammed
  <2>2. /\ TotalNum \in Nat /\ EmptyTotal \in Nat /\ EmptyTotal < TotalNum
        /\ LossNum \in Nat /\ EmptyLoss \in Nat
    BY InjectorAssumption
  <2>3. CASE SendBlock
    <3>1. counters' = DropSendTo(counters, TotalNum, LossNum)
      BY <2>3 DEF SendBlock
    <3>2. /\ counters'.packet = TotalNum
          /\ counters'.loss = IF counters.loss < LossCap THEN counters.loss + 1 ELSE counters.loss
      BY <2>1, <2>2, <3>1, SendCount
    <3> QED
      BY <2>1, <2>2, <3>2 DEF Jammed
  <2>4. CASE SendEmpty
    <3>1. counters' = counters
      BY <2>1, <2>2, <2>4, SendAbove DEF SendEmpty
    <3> QED
      BY <2>1, <3>1 DEF Jammed
  <2> QED
    BY <2>3, <2>4 DEF Next
<1> QED
  BY <1>1, InvariantIInv, PTL DEF Spec, JamIsPermanent

\* The counters stay positive and within their caps for every period and every
\* LOSS_NUM, in whatever order the two kinds of calls come.
THEOREM TypeOKAlways == Spec => []TypeOK
<1>1. IInv => TypeOK
  BY DEF IInv
<1> QED
  BY <1>1, InvariantIInv, PTL
=============================================================================
