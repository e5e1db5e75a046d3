---------------------------- MODULE WeTalkProofs ----------------------------
(***************************************************************************)
(* The chat, for every set of peers, any number of lines and any losses:   *)
(* the type invariant, that an invitation never waits without a timer, and *)
(* that with users who wait for their answer a conversation keeps its      *)
(* opponent, and comes to be one with nobody only by a packet_handler the  *)
(* alarm has given up the invitation under.                                *)
(***************************************************************************)
EXTENDS WeTalk, TLAPS

\* A list of statements of the main loop: after received = false comes
\* alarm(7), and only a line that names a peer is dialled.
MainList(s, l) ==
  /\ s \in Seq(Statement)
  /\ \A i \in 1 .. Len(s) :
       /\ s[i] = "recvFalse" => \E j \in i + 1 .. Len(s) : s[j] = "alarm7"
       /\ s[i] = "oppServer" => l \in Peers

\* A list of statements of a handler: it neither dials nor starts to wait.
HandlerList(s) ==
  /\ s \in Seq(Statement)
  /\ \A i \in 1 .. Len(s) : s[i] \notin {"recvFalse", "oppServer"}

TodoOK ==
  \A p \in Peers : /\ MainList(todo[p]["main"], line[p])
                   /\ HandlerList(todo[p]["io"])
                   /\ HandlerList(todo[p]["alarm"])

IInv == TypeOK /\ TodoOK /\ WaitingIsTimed

-----------------------------------------------------------------------------
\* The lists the code can start with.

LEMMA TailMain ==
  ASSUME NEW s, NEW l, MainList(s, l), s # <<>>
  PROVE  MainList(Tail(s), l)
<1>1. s \in Seq(Statement) /\ Len(s) \in Nat /\ Len(s) >= 1
  BY DEF MainList
<1>2. /\ Tail(s) \in Seq(Statement) /\ Len(Tail(s)) = Len(s) - 1
      /\ \A i \in 1 .. Len(Tail(s)) : Tail(s)[i] = s[i + 1]
  BY <1>1
<1>3. ASSUME NEW i \in 1 .. Len(Tail(s)), Tail(s)[i] = "recvFalse"
      PROVE  \E j \in i + 1 .. Len(Tail(s)) : Tail(s)[j] = "alarm7"
  <2>1. i + 1 \in 1 .. Len(s) /\ s[i + 1] = "recvFalse"
    BY <1>1, <1>2, <1>3
  <2>2. PICK j \in i + 1 + 1 .. Len(s) : s[j] = "alarm7"
    BY <2>1 DEF MainList
  <2>3. j - 1 \in i + 1 .. Len(Tail(s)) /\ j - 1 \in 1 .. Len(Tail(s)) /\ (j - 1) + 1 = j
    BY <1>1, <1>2, <2>2
  <2> QED
    BY <1>2, <2>2, <2>3
<1>4. ASSUME NEW i \in 1 .. Len(Tail(s)), Tail(s)[i] = "oppServer"
      PROVE  l \in Peers
  <2>1. i + 1 \in 1 .. Len(s) /\ s[i + 1] = "oppServer"
    BY <1>1, <1>2, <1>4
  <2> QED
    BY <2>1 DEF MainList
<1> QED
  BY <1>2, <1>3, <1>4 DEF MainList

LEMMA TailHandler ==
  ASSUME NEW s, HandlerList(s), s # <<>>
  PROVE  HandlerList(Tail(s))
<1>1. s \in Seq(Statement) /\ Len(s) \in Nat /\ Len(s) >= 1
  BY DEF HandlerList
<1>2. /\ Tail(s) \in Seq(Statement) /\ Len(Tail(s)) = Len(s) - 1
      /\ \A i \in 1 .. Len(Tail(s)) : Tail(s)[i] = s[i + 1]
  BY <1>1
<1>3. \A i \in 1 .. Len(Tail(s)) : i + 1 \in 1 .. Len(s)
  BY <1>1, <1>2
<1> QED
  BY <1>2, <1>3 DEF HandlerList

\* A statement still to come comes after the next one too, unless it is it.
LEMMA TailHas ==
  ASSUME NEW s \in Seq(Statement), NEW x, Has(s, x)
  PROVE  /\ s # <<>>
         /\ Head(s) = x \/ Has(Tail(s), x)
<1>1. PICK i \in 1 .. Len(s) : s[i] = x
  BY DEF Has
<1>2. s # <<>> /\ Len(s) \in Nat
  BY <1>1
<1>3. CASE i = 1
  BY <1>1, <1>2, <1>3
<1>4. CASE i > 1
  <2>1. i - 1 \in 1 .. Len(Tail(s)) /\ Tail(s)[i - 1] = s[i]
    BY <1>1, <1>2, <1>4
  <2> QED
    BY <1>1, <1>2, <2>1 DEF Has
<1> QED
  BY <1>1, <1>2, <1>3, <1>4

LEMMA EmptyList == ASSUME NEW l PROVE MainList(<<>>, l) /\ HandlerList(<<>>)
BY DEF MainList, HandlerList

LEMMA DialList == ASSUME NEW l \in Peers PROVE MainList(DialStatements, l)
<1> DEFINE s == <<"oppServer", "sendWanna", "recvFalse", "alarm7">>
<1>1. s \in Seq(Statement) /\ Len(s) = 4 /\ s[3] = "recvFalse" /\ s[4] = "alarm7"
      /\ s[1] = "oppServer" /\ s[2] = "sendWanna"
  BY DEF Statement
<1>2. s = DialStatements
  BY DEF DialStatements
<1> HIDE DEF s
<1>3. \A i \in 1 .. 4 : s[i] = "recvFalse" => i = 3
  BY <1>1
<1>4. 4 \in 3 + 1 .. Len(s)
  BY <1>1
<1>5. \A i \in 1 .. Len(s) : s[i] = "recvFalse" => \E j \in i + 1 .. Len(s) : s[j] = "alarm7"
  BY <1>1, <1>3, <1>4
<1> QED
  BY <1>1, <1>2, <1>5 DEF MainList

LEMMA IdleList ==
  ASSUME NEW p \in Peers, line[p] \in Line
  PROVE  MainList(IdleStatements(p), line[p])
<1>1. MainList(<<"sendOK", "connTrue">>, line[p])
  BY DEF MainList, Statement
<1>2. MainList(<<"sendKO", "connFalse", "oppNull">>, line[p])
  BY DEF MainList, Statement
<1> QED
  BY <1>1, <1>2, DialList, EmptyList DEF IdleStatements

LEMMA TalkList == ASSUME NEW p \in Peers PROVE MainList(TalkStatements(p), line[p])
<1>1. MainList(<<"sendE", "connFalse", "oppNull">>, line[p])
  BY DEF MainList, Statement
<1>2. MainList(<<"sendD">>, line[p])
  BY DEF MainList, Statement
<1> QED
  BY <1>1, <1>2 DEF TalkStatements

LEMMA IoList == ASSUME NEW p \in Peers, NEW m PROVE HandlerList(HandlerStatements(p, m))
<1>1. HandlerList(<<"oppTheir">>)
  BY DEF HandlerList, Statement
<1>2. HandlerList(<<"recvTrue", "connTrue">>)
  BY DEF HandlerList, Statement
<1>3. HandlerList(<<"recvTrue", "connFalse", "oppNull">>)
  BY DEF HandlerList, Statement
<1>4. HandlerList(<<"connFalse", "oppNull">>)
  BY DEF HandlerList, Statement
<1> QED
  BY <1>1, <1>2, <1>3, <1>4, EmptyList DEF HandlerStatements

LEMMA AlarmList ==
  /\ HandlerList(<<"recvTrue", "connFalse", "oppNull">>)
  /\ Has(<<"recvTrue", "connFalse", "oppNull">>, "recvTrue")
BY DEF HandlerList, Statement, Has

-----------------------------------------------------------------------------
LEMMA InitIInv == Init => IInv
<1> SUFFICES ASSUME Init PROVE IInv
  OBVIOUS
<1>1. /\ connection \in [Peers -> BOOLEAN] /\ received \in [Peers -> BOOLEAN]
      /\ timer \in [Peers -> BOOLEAN] /\ expired \in [Peers -> BOOLEAN]
  BY DEF Init
<1>2. /\ opp \in [Peers -> Pointer]
      /\ opp_server \in [Peers -> Peers \cup {NoPeer}]
      /\ their_addr \in [Peers -> Peers \cup {NoPeer}]
      /\ pc \in [Peers -> {"prompt", "test", "idle", "talking", "wrong", "gone"}]
      /\ line \in [Peers -> Line]
      /\ todo \in [Peers -> [Frame -> Seq(Statement)]]
      /\ stack \in [Peers -> Seq(Handler)]
  BY DEF Init, Pointer, Line, Letter
<1>3. /\ lines \in [Peers -> Nat]
      /\ \A p \in Peers : lines[p] <= MaxLines[p]
      /\ lost \in 0 .. MaxLost
  BY WeTalkAssumption DEF Init
<1>4. DOMAIN net = {}
  BY DEF Init, NoDatagrams
<1>5. TypeOK
  BY <1>1, <1>2, <1>3, <1>4 DEF TypeOK
<1>6. TodoOK
  <2>1. \A p \in Peers, f \in Frame : todo[p][f] = <<>>
    BY DEF Init
  <2> QED
    BY <2>1, EmptyList DEF TodoOK, Frame, Handler
<1>7. WaitingIsTimed
  BY DEF Init, WaitingIsTimed
<1> QED
  BY <1>5, <1>6, <1>7 DEF IInv

-----------------------------------------------------------------------------
\* The network.

Datagram == [src : Peers, dst : Peers, msg : {"WANNATALK", "OK", "KO", "E", "D"}]

NetOK == DOMAIN net \subseteq Datagram /\ \A d \in DOMAIN net : net[d] \in 1 .. Copies

LEMMA PutOK ==
  ASSUME NetOK, NEW d \in Datagram, net' = Put(net, d)
  PROVE  NetOK'
<1>1. DOMAIN net' = DOMAIN net \cup {d}
  BY DEF Put
<1>2. \A e \in DOMAIN net' :
        net'[e] = IF e # d THEN net[e]
                  ELSE IF d \notin DOMAIN net THEN 1
                  ELSE IF net[d] < Copies THEN net[d] + 1 ELSE net[d]
  BY DEF Put
<1>3. ASSUME NEW e \in DOMAIN net' PROVE net'[e] \in 1 .. Copies
  BY <1>1, <1>2, CopiesAssumption DEF NetOK
<1> QED
  BY <1>1, <1>3 DEF NetOK

LEMMA TakeOK ==
  ASSUME NetOK, NEW d \in DOMAIN net, net' = Take(net, d)
  PROVE  NetOK'
<1>1. DOMAIN net' = {f \in DOMAIN net : f # d \/ net[f] > 1}
  BY DEF Take
<1>2. \A e \in DOMAIN net' : net'[e] = IF e = d THEN net[e] - 1 ELSE net[e]
  BY DEF Take
<1>3. ASSUME NEW e \in DOMAIN net' PROVE net'[e] \in 1 .. Copies
  <2>1. net[e] \in 1 .. Copies /\ (e = d => net[e] > 1)
    BY <1>1 DEF NetOK
  <2> QED
    BY <1>2, <2>1, CopiesAssumption
<1> QED
  BY <1>1, <1>3 DEF NetOK

LEMMA SendToOK ==
  ASSUME NetOK, NEW p \in Peers, NEW dst \in Peers \cup {NoPeer},
         NEW m \in {"WANNATALK", "OK", "KO", "E", "D"}, SendTo(p, dst, m)
  PROVE  NetOK'
<1>1. CASE dst = NoPeer
  BY <1>1 DEF SendTo, NetOK
<1>2. CASE dst # NoPeer
  <2> DEFINE d == [src |-> p, dst |-> dst, msg |-> m]
  <2>1. d \in Datagram
    BY <1>2 DEF Datagram
  <2>2. net' = Put(net, d)
    BY <1>2 DEF SendTo
  <2> HIDE DEF d
  <2> QED
    BY <2>1, <2>2, PutOK
<1> QED
  BY <1>1, <1>2

-----------------------------------------------------------------------------
\* One statement of a running frame.

LEMMA FrameFacts ==
  ASSUME IInv, NEW p \in Peers, Execute(p)
  PROVE  /\ Running(p) \in Frame
         /\ todo[p][Running(p)] \in Seq(Statement) \ {<<>>}
         /\ Head(todo[p][Running(p)]) \in Statement
         /\ todo' \in [Peers -> [Frame -> Seq(Statement)]]
         /\ \A q \in Peers, g \in Frame :
              todo'[q][g] = IF q = p /\ g = Running(p) THEN Tail(todo[q][g]) ELSE todo[q][g]
<1> DEFINE f == Running(p)
<1>1. f \in Frame
  <2>1. stack[p] \in Seq(Handler)
    BY DEF IInv, TypeOK
  <2>2. stack[p] # <<>> => Head(stack[p]) \in Handler
    BY <2>1
  <2> QED
    BY <2>2 DEF Running, Frame
<1>2. todo \in [Peers -> [Frame -> Seq(Statement)]]
  BY DEF IInv, TypeOK
<1>3. todo[p][f] # <<>> /\ todo' = [todo EXCEPT ![p][f] = Tail(@)]
  BY DEF Execute
<1> HIDE DEF f
<1>4. todo[p][f] \in Seq(Statement) \ {<<>>}
  BY <1>1, <1>2, <1>3
<1>5. Head(todo[p][f]) \in Statement /\ Tail(todo[p][f]) \in Seq(Statement)
  BY <1>4
<1>6. todo' \in [Peers -> [Frame -> Seq(Statement)]]
  BY <1>1, <1>2, <1>3, <1>5
<1>7. \A q \in Peers, g \in Frame :
        todo'[q][g] = IF q = p /\ g = f THEN Tail(todo[q][g]) ELSE todo[q][g]
  BY <1>1, <1>2, <1>3
<1> QED
  BY <1>1, <1>4, <1>5, <1>6, <1>7 DEF f

LEMMA ExecuteTodo == ASSUME IInv, NEW p \in Peers, Execute(p) PROVE TodoOK'
<1> SUFFICES ASSUME NEW q \in Peers
             PROVE  /\ MainList(todo'[q]["main"], line'[q])
                    /\ HandlerList(todo'[q]["io"])
                    /\ HandlerList(todo'[q]["alarm"])
  BY DEF TodoOK
<1>1. /\ MainList(todo[q]["main"], line[q])
      /\ HandlerList(todo[q]["io"])
      /\ HandlerList(todo[q]["alarm"])
  BY DEF IInv, TodoOK
<1>2. line' = line
  BY DEF Execute
<1>3. todo[p][Running(p)] # <<>>
  BY FrameFacts
<1>4. \A g \in Frame :
        todo'[q][g] = IF q = p /\ g = Running(p) THEN Tail(todo[q][g]) ELSE todo[q][g]
  BY FrameFacts
<1>5. MainList(todo'[q]["main"], line[q])
  BY <1>1, <1>3, <1>4, TailMain DEF Frame
<1>6. HandlerList(todo'[q]["io"])
  BY <1>1, <1>3, <1>4, TailHandler DEF Frame, Handler
<1>7. HandlerList(todo'[q]["alarm"])
  BY <1>1, <1>3, <1>4, TailHandler DEF Frame, Handler
<1> QED
  BY <1>2, <1>5, <1>6, <1>7

\* A frame that dials runs in main, for a line that names a peer.
LEMMA RunningStatement ==
  ASSUME IInv, NEW p \in Peers, Execute(p), NEW s, s = Head(todo[p][Running(p)])
  PROVE  /\ s = "recvFalse" => /\ Running(p) = "main"
                               /\ Has(Tail(todo[p]["main"]), "alarm7")
         /\ s = "oppServer" => line[p] \in Peers
<1>1. /\ MainList(todo[p]["main"], line[p])
      /\ HandlerList(todo[p]["io"])
      /\ HandlerList(todo[p]["alarm"])
  BY DEF IInv, TodoOK
<1>2. Running(p) \in Frame /\ todo[p][Running(p)] \in Seq(Statement) \ {<<>>}
  BY FrameFacts
<1>3. s = todo[p][Running(p)][1] /\ 1 \in 1 .. Len(todo[p][Running(p)])
  BY <1>2
<1>4. s \in {"recvFalse", "oppServer"} => Running(p) = "main"
  BY <1>1, <1>2, <1>3 DEF HandlerList, Frame, Handler
<1>5. s = "oppServer" => line[p] \in Peers
  BY <1>1, <1>3, <1>4 DEF MainList
<1>6. ASSUME s = "recvFalse" PROVE Has(Tail(todo[p]["main"]), "alarm7")
  <2> DEFINE l == todo[p]["main"]
  <2>1. l \in Seq(Statement) /\ l # <<>> /\ l[1] = "recvFalse" /\ 1 \in 1 .. Len(l)
    BY <1>2, <1>3, <1>4, <1>6
  <2>2. MainList(l, line[p])
    BY <1>1
  <2> HIDE DEF l
  <2>3. PICK j \in 1 + 1 .. Len(l) : l[j] = "alarm7"
    BY <2>1, <2>2 DEF MainList
  <2>4. j - 1 \in 1 .. Len(Tail(l)) /\ Tail(l)[j - 1] = l[j]
    BY <2>1, <2>3
  <2>5. Has(Tail(l), "alarm7")
    BY <2>3, <2>4 DEF Has
  <2> QED
    BY <2>5 DEF l
<1> QED
  BY <1>4, <1>5, <1>6

LEMMA ExecuteWaits == ASSUME IInv, NEW p \in Peers, Execute(p) PROVE WaitingIsTimed'
<1> DEFINE f == Running(p)
           s == Head(todo[p][f])
<1> SUFFICES ASSUME NEW q \in Peers, ~received'[q], pc'[q] # "gone"
             PROVE  timer'[q] \/ Has(todo'[q]["main"], "alarm7") \/ Has(todo'[q]["alarm"], "recvTrue")
  BY DEF WaitingIsTimed
<1>1. pc' = pc
  BY DEF Execute
<1>2. /\ received' = [received EXCEPT ![p] = (@ /\ s # "recvFalse") \/ s = "recvTrue"]
      /\ timer' = [timer EXCEPT ![p] = @ \/ s = "alarm7"]
      /\ received \in [Peers -> BOOLEAN] /\ timer \in [Peers -> BOOLEAN]
  BY DEF Execute, IInv, TypeOK
<1>3. \A g \in Frame : todo'[q][g] = IF q = p /\ g = f THEN Tail(todo[q][g]) ELSE todo[q][g]
  BY FrameFacts
<1>4. f \in Frame /\ \A g \in Frame : todo[q][g] \in Seq(Statement)
  BY FrameFacts DEF IInv, TypeOK
<1>5. s = "recvFalse" => f = "main" /\ Has(Tail(todo[p]["main"]), "alarm7")
  BY RunningStatement
<1> HIDE DEF f, s
<1>6. CASE q = p /\ s = "recvFalse"
  <2>1. todo'[q]["main"] = Tail(todo[q]["main"])
    BY <1>3, <1>5, <1>6 DEF Frame
  <2> QED
    BY <1>5, <1>6, <2>1
<1>7. CASE q # p \/ s # "recvFalse"
  <2>1. ~received[q] /\ (q = p => s # "recvTrue")
    BY <1>2, <1>7
  <2>2. timer[q] \/ Has(todo[q]["main"], "alarm7") \/ Has(todo[q]["alarm"], "recvTrue")
    BY <1>1, <2>1 DEF IInv, WaitingIsTimed
  <2>3. CASE timer[q]
    BY <1>2, <2>3
  <2>4. CASE Has(todo[q]["main"], "alarm7")
    <3>1. todo[q]["main"] \in Seq(Statement) /\ "main" \in Frame
      BY <1>4 DEF Frame
    <3>2. Head(todo[q]["main"]) = "alarm7" \/ Has(Tail(todo[q]["main"]), "alarm7")
      BY <2>4, <3>1, TailHas
    <3>3. CASE q = p /\ f = "main"
      <4>1. s = Head(todo[q]["main"])
        BY <3>3 DEF s
      <4>2. todo'[q]["main"] = Tail(todo[q]["main"])
        BY <1>3, <3>1, <3>3
      <4>3. s = "alarm7" => timer'[q]
        BY <1>2, <3>3
      <4> QED
        BY <3>2, <4>1, <4>2, <4>3
    <3>4. CASE ~(q = p /\ f = "main")
      BY <1>3, <2>4, <3>1, <3>4
    <3> QED
      BY <3>3, <3>4
  <2>5. CASE Has(todo[q]["alarm"], "recvTrue")
    <3>1. todo[q]["alarm"] \in Seq(Statement) /\ "alarm" \in Frame
      BY <1>4 DEF Frame, Handler
    <3>2. Head(todo[q]["alarm"]) = "recvTrue" \/ Has(Tail(todo[q]["alarm"]), "recvTrue")
      BY <2>5, <3>1, TailHas
    <3>3. CASE q = p /\ f = "alarm"
      <4>1. s = Head(todo[q]["alarm"])
        BY <3>3 DEF s
      <4>2. todo'[q]["alarm"] = Tail(todo[q]["alarm"])
        BY <1>3, <3>1, <3>3
      <4> QED
        BY <2>1, <3>2, <3>3, <4>1, <4>2
    <3>4. CASE ~(q = p /\ f = "alarm")
      BY <1>3, <2>5, <3>1, <3>4
    <3> QED
      BY <3>3, <3>4
  <2> QED
    BY <2>2, <2>3, <2>4, <2>5
<1> QED
  BY <1>6, <1>7

LEMMA ExecuteType == ASSUME IInv, NEW p \in Peers, Execute(p) PROVE TypeOK'
<1> DEFINE f == Running(p)
           s == Head(todo[p][f])
<1> USE DEF IInv
<1>1. s \in Statement /\ todo' \in [Peers -> [Frame -> Seq(Statement)]]
  BY FrameFacts
<1>2. s = "oppServer" => line[p] \in Peers
  BY RunningStatement
<1>3. /\ connection' = [connection EXCEPT ![p] = (@ /\ s # "connFalse") \/ s = "connTrue"]
      /\ received' = [received EXCEPT ![p] = (@ /\ s # "recvFalse") \/ s = "recvTrue"]
      /\ timer' = [timer EXCEPT ![p] = @ \/ s = "alarm7"]
      /\ opp' = [opp EXCEPT ![p] = CASE s = "oppNull"   -> "null"
                                     [] s = "oppServer" -> "server"
                                     [] s = "oppTheir"  -> "their"
                                     [] OTHER           -> @]
      /\ opp_server' = IF s = "oppServer" THEN [opp_server EXCEPT ![p] = line[p]] ELSE opp_server
      /\ CASE s = "sendOK"    -> SendTo(p, Opponent(p), "OK")
           [] s = "sendKO"    -> SendTo(p, Opponent(p), "KO")
           [] s = "sendE"     -> SendTo(p, Opponent(p), "E")
           [] s = "sendD"     -> SendTo(p, Opponent(p), "D")
           [] s = "sendWanna" -> SendTo(p, opp_server[p], "WANNATALK")
           [] OTHER           -> UNCHANGED net
  BY DEF Execute
<1>4. stack' \in [Peers -> Seq(Handler)]
  <2>1. stack[p] \in Seq(Handler) /\ stack \in [Peers -> Seq(Handler)]
    BY DEF TypeOK
  <2>2. CASE stack' = stack
    BY <2>1, <2>2
  <2>3. CASE f # "main" /\ stack' = [stack EXCEPT ![p] = Tail(@)]
    <3>1. stack[p] # <<>>
      BY <2>3 DEF Running
    <3>2. Tail(stack[p]) \in Seq(Handler)
      BY <2>1, <3>1
    <3> QED
      BY <2>1, <2>3, <3>2
  <2> QED
    BY <2>2, <2>3 DEF Execute
<1> HIDE DEF f, s
<1>5. connection' \in [Peers -> BOOLEAN]
  BY <1>3 DEF TypeOK
<1>6. received' \in [Peers -> BOOLEAN]
  BY <1>3 DEF TypeOK
<1>7. timer' \in [Peers -> BOOLEAN]
  BY <1>3 DEF TypeOK
<1>8. opp' \in [Peers -> Pointer]
  BY <1>3 DEF TypeOK, Pointer
<1>9. opp_server' \in [Peers -> Peers \cup {NoPeer}]
  BY <1>2, <1>3 DEF TypeOK
<1>10. NetOK'
  <2>1. opp \in [Peers -> Pointer] /\ Opponent(p) \in Peers \cup {NoPeer} /\ opp_server[p] \in Peers \cup {NoPeer}
    BY DEF TypeOK, Opponent, Pointer
  <2>2. NetOK
    BY DEF TypeOK, NetOK, Datagram
  <2>3. CASE s = "sendOK"
    BY <1>3, <2>1, <2>2, <2>3, SendToOK
  <2>4. CASE s = "sendKO"
    BY <1>3, <2>1, <2>2, <2>4, SendToOK
  <2>5. CASE s = "sendE"
    BY <1>3, <2>1, <2>2, <2>5, SendToOK
  <2>6. CASE s = "sendD"
    BY <1>3, <2>1, <2>2, <2>6, SendToOK
  <2>7. CASE s = "sendWanna"
    BY <1>3, <2>1, <2>2, <2>7, SendToOK
  <2>8. CASE s \notin {"sendOK", "sendKO", "sendE", "sendD", "sendWanna"}
    <3>1. UNCHANGED net
      BY <1>3, <2>8
    <3> QED
      BY <2>2, <3>1 DEF NetOK
  <2> QED
    BY <2>3, <2>4, <2>5, <2>6, <2>7, <2>8
<1>11. UNCHANGED <<their_addr, pc, line, expired, lines, lost>>
  BY DEF Execute
<1> QED
  BY <1>1, <1>4, <1>5, <1>6, <1>7, <1>8, <1>9, <1>10, <1>11 DEF TypeOK, NetOK, Datagram

LEMMA ExecuteStep == ASSUME NEW p \in Peers PROVE IInv /\ Execute(p) => IInv'
BY ExecuteTodo, ExecuteWaits, ExecuteType DEF IInv

-----------------------------------------------------------------------------
\* The main loop.

LEMMA ReadLineStep == ASSUME NEW p \in Peers PROVE IInv /\ ReadLine(p) => IInv'
<1> SUFFICES ASSUME IInv, ReadLine(p) PROVE IInv'
  OBVIOUS
<1> USE DEF IInv
<1>1. PICK l \in Line \ {p} : line' = [line EXCEPT ![p] = l]
  BY DEF ReadLine
<1>2. line' \in [Peers -> Line]
  BY <1>1 DEF TypeOK
<1>3. pc' \in [Peers -> {"prompt", "test", "idle", "talking", "wrong", "gone"}]
  BY DEF ReadLine, TypeOK
<1>4. lines' \in [Peers -> Nat] /\ \A q \in Peers : lines'[q] <= MaxLines[q]
  <2>1. lines \in [Peers -> Nat] /\ \A q \in Peers : lines[q] <= MaxLines[q]
    BY DEF TypeOK
  <2>2. lines' = [lines EXCEPT ![p] = @ + 1] /\ lines[p] < MaxLines[p]
    BY DEF ReadLine
  <2>3. MaxLines[p] \in Nat /\ lines[p] \in Nat
    BY <2>1, WeTalkAssumption
  <2>4. lines[p] + 1 <= MaxLines[p]
    BY <2>2, <2>3
  <2> QED
    BY <2>1, <2>2, <2>3, <2>4
<1>5. UNCHANGED <<connection, received, opp, opp_server, their_addr, timer, todo, stack,
                  expired, net, lost>>
  BY DEF ReadLine, peer
<1>6. TypeOK'
  BY <1>2, <1>3, <1>4, <1>5 DEF TypeOK
<1>7. TodoOK'
  <2>1. todo[p]["main"] = <<>>
    BY DEF ReadLine, MainTurn
  <2>2. \A q \in Peers : q # p => line'[q] = line[q]
    BY <1>1 DEF TypeOK
  <2> QED
    BY <1>5, <2>1, <2>2, EmptyList DEF TodoOK
<1>8. WaitingIsTimed'
  <2>1. \A q \in Peers : pc'[q] # "gone" => pc[q] # "gone"
    BY DEF ReadLine, TypeOK
  <2> QED
    BY <1>5, <2>1 DEF WaitingIsTimed
<1> QED
  BY <1>6, <1>7, <1>8

\* The two actions of the main loop that only move its place.
LEMMA MoveStep ==
  ASSUME NEW p \in Peers, IInv, pc[p] # "gone",
         NEW c \in {"prompt", "test", "idle", "talking", "wrong", "gone"},
         pc' = [pc EXCEPT ![p] = c],
         UNCHANGED <<peer, line, todo, stack, expired, lines, net, lost>>
  PROVE  IInv'
<1> USE DEF IInv
<1>1. pc' \in [Peers -> {"prompt", "test", "idle", "talking", "wrong", "gone"}]
  BY DEF TypeOK
<1>2. TypeOK'
  BY <1>1 DEF TypeOK, peer
<1>3. TodoOK'
  BY DEF TodoOK
<1>4. WaitingIsTimed'
  <2>1. \A q \in Peers : pc'[q] # "gone" => pc[q] # "gone"
    BY DEF TypeOK
  <2> QED
    BY <2>1 DEF WaitingIsTimed, peer
<1> QED
  BY <1>2, <1>3, <1>4

LEMMA TestConnectionStep == ASSUME NEW p \in Peers PROVE IInv /\ TestConnection(p) => IInv'
BY MoveStep DEF TestConnection

LEMMA RepromptStep == ASSUME NEW p \in Peers PROVE IInv /\ Reprompt(p) => IInv'
BY MoveStep DEF Reprompt

\* Quitting takes the timer away, but nobody waits in a process that is gone.
LEMMA TestOpponentStep == ASSUME NEW p \in Peers PROVE IInv /\ TestOpponent(p) => IInv'
<1> SUFFICES ASSUME IInv, TestOpponent(p) PROVE IInv'
  OBVIOUS
<1> USE DEF IInv
<1>1. todo[p]["main"] = <<>> /\ pc[p] # "gone"
  BY DEF TestOpponent, MainTurn
<1>2. UNCHANGED <<connection, received, opp, opp_server, their_addr, line, stack, expired,
                  lines, net, lost>>
  BY DEF TestOpponent
<1>3. PICK c \in {"prompt", "wrong", "gone"} :
        /\ pc' = [pc EXCEPT ![p] = c]
        /\ \/ c = "gone" /\ timer' = [timer EXCEPT ![p] = FALSE]
           \/ timer' = timer
  BY DEF TestOpponent
<1>4. PICK ss : MainList(ss, line[p]) /\ todo' = [todo EXCEPT ![p]["main"] = ss]
  <2>1. line[p] \in Line
    BY DEF TypeOK
  <2>2. CASE UNCHANGED todo
    <3>1. todo \in [Peers -> [Frame -> Seq(Statement)]] /\ "main" \in Frame
      BY DEF TypeOK, Frame
    <3>2. todo' = [todo EXCEPT ![p]["main"] = <<>>]
      BY <1>1, <2>2, <3>1
    <3> QED
      BY <3>2, EmptyList
  <2>3. CASE todo' = [todo EXCEPT ![p]["main"] = IdleStatements(p)]
    BY <2>1, <2>3, IdleList
  <2>4. CASE todo' = [todo EXCEPT ![p]["main"] = TalkStatements(p)]
    BY <2>4, TalkList
  <2> QED
    BY <2>2, <2>3, <2>4 DEF TestOpponent
<1>5. /\ todo' \in [Peers -> [Frame -> Seq(Statement)]]
      /\ \A q \in Peers, g \in Frame : q # p \/ g # "main" => todo'[q][g] = todo[q][g]
      /\ todo'[p]["main"] = ss
  BY <1>4 DEF TypeOK, MainList, Frame
<1>6. timer' \in [Peers -> BOOLEAN]
  BY <1>3 DEF TypeOK
<1>7. pc' \in [Peers -> {"prompt", "test", "idle", "talking", "wrong", "gone"}]
  BY <1>3 DEF TypeOK
<1>8. TypeOK'
  BY <1>2, <1>5, <1>6, <1>7 DEF TypeOK
<1>9. TodoOK'
  BY <1>2, <1>4, <1>5 DEF TodoOK, Frame, Handler
<1>10. WaitingIsTimed'
  <2> SUFFICES ASSUME NEW q \in Peers, ~received[q], pc'[q] # "gone"
               PROVE  \/ timer'[q] \/ Has(todo'[q]["main"], "alarm7")
                      \/ Has(todo'[q]["alarm"], "recvTrue")
    BY <1>2 DEF WaitingIsTimed
  <2>1. pc[q] # "gone"
    BY <1>1, <1>3 DEF TypeOK
  <2>2. timer'[q] = timer[q]
    BY <1>3 DEF TypeOK
  <2>3. timer[q] \/ Has(todo[q]["main"], "alarm7") \/ Has(todo[q]["alarm"], "recvTrue")
    BY <2>1 DEF WaitingIsTimed
  <2>4. ~Has(todo[p]["main"], "alarm7")
    BY <1>1 DEF Has
  <2> QED
    BY <1>5, <2>2, <2>3, <2>4 DEF Frame, Handler
<1> QED
  BY <1>8, <1>9, <1>10

-----------------------------------------------------------------------------
\* The handlers.

LEMMA InterruptFacts ==
  ASSUME IInv, NEW p \in Peers, NEW h \in Handler, NEW ss, HandlerList(ss),
         Interrupt(p, h, ss), line' = line
  PROVE  /\ pc[p] # "gone"
         /\ todo' \in [Peers -> [Frame -> Seq(Statement)]]
         /\ stack' \in [Peers -> Seq(Handler)]
         /\ TodoOK'
         /\ \A q \in Peers, g \in Frame :
              todo'[q][g] = IF q = p /\ g = h THEN ss ELSE todo[q][g]
<1> USE DEF IInv
<1>1. pc[p] # "gone" /\ todo' = [todo EXCEPT ![p][h] = ss] /\ h \in Frame
  BY DEF Interrupt, Frame
<1>2. todo' \in [Peers -> [Frame -> Seq(Statement)]]
  BY <1>1 DEF TypeOK, HandlerList
<1>3. \A q \in Peers, g \in Frame :
        todo'[q][g] = IF q = p /\ g = h THEN ss ELSE todo[q][g]
  BY <1>1 DEF TypeOK
<1>4. stack' \in [Peers -> Seq(Handler)]
  <2>1. stack \in [Peers -> Seq(Handler)] /\ stack[p] \in Seq(Handler)
    BY DEF TypeOK
  <2>2. <<h>> \o stack[p] \in Seq(Handler)
    BY <2>1
  <2>3. stack' = stack \/ stack' = [stack EXCEPT ![p] = <<h>> \o @]
    BY DEF Interrupt
  <2> QED
    BY <2>1, <2>2, <2>3
<1>5. TodoOK'
  BY <1>3 DEF TodoOK, Frame, Handler
<1> QED
  BY <1>1, <1>2, <1>3, <1>4, <1>5

LEMMA PacketHandlerStep == ASSUME NEW p \in Peers PROVE IInv /\ PacketHandler(p) => IInv'
<1> SUFFICES ASSUME IInv, PacketHandler(p) PROVE IInv'
  OBVIOUS
<1> USE DEF IInv
<1>1. PICK d \in DOMAIN net :
        /\ net' = Take(net, d)
        /\ their_addr' = [their_addr EXCEPT ![p] = d.src]
        /\ expired' = [expired EXCEPT ![p] = FALSE]
        /\ Interrupt(p, "io", HandlerStatements(p, d.msg))
        /\ UNCHANGED <<connection, received, opp, opp_server, timer, pc, line, lines, lost>>
  BY DEF PacketHandler
<1>2. NetOK'
  BY <1>1, TakeOK DEF TypeOK, NetOK, Datagram
<1>3. their_addr' \in [Peers -> Peers \cup {NoPeer}] /\ expired' \in [Peers -> BOOLEAN]
  BY <1>1 DEF TypeOK
<1>4. /\ todo' \in [Peers -> [Frame -> Seq(Statement)]]
      /\ stack' \in [Peers -> Seq(Handler)]
      /\ TodoOK'
      /\ \A q \in Peers, g \in Frame :
           todo'[q][g] = IF q = p /\ g = "io" THEN HandlerStatements(p, d.msg) ELSE todo[q][g]
  BY <1>1, IoList, InterruptFacts DEF Handler
<1>5. TypeOK'
  BY <1>1, <1>2, <1>3, <1>4 DEF TypeOK, NetOK, Datagram
<1>6. WaitingIsTimed'
  BY <1>1, <1>4 DEF WaitingIsTimed, Frame, Handler
<1> QED
  BY <1>4, <1>5, <1>6

\* The alarm uses the timer up, and starts to release the peer in its place.
LEMMA AlarmHandlerStep == ASSUME NEW p \in Peers PROVE IInv /\ AlarmHandler(p) => IInv'
<1> SUFFICES ASSUME IInv, AlarmHandler(p) PROVE IInv'
  OBVIOUS
<1> USE DEF IInv
<1> DEFINE ss == IF received[p] THEN <<>> ELSE <<"recvTrue", "connFalse", "oppNull">>
<1>1. /\ timer' = [timer EXCEPT ![p] = FALSE]
      /\ expired' = [expired EXCEPT ![p] = @ \/ (~received[p] /\ todo[p]["io"] # <<>>)]
      /\ Interrupt(p, "alarm", ss)
      /\ UNCHANGED <<connection, received, opp, opp_server, their_addr, pc, line, lines, net, lost>>
  BY DEF AlarmHandler
<1>2. HandlerList(ss)
  BY AlarmList, EmptyList
<1>3. ~received[p] => Has(ss, "recvTrue")
  BY AlarmList
<1> HIDE DEF ss
<1>4. /\ todo' \in [Peers -> [Frame -> Seq(Statement)]]
      /\ stack' \in [Peers -> Seq(Handler)]
      /\ TodoOK'
      /\ \A q \in Peers, g \in Frame :
           todo'[q][g] = IF q = p /\ g = "alarm" THEN ss ELSE todo[q][g]
  BY <1>1, <1>2, InterruptFacts DEF Handler
<1>5. timer' \in [Peers -> BOOLEAN]
  BY <1>1 DEF TypeOK
<1>6. expired' \in [Peers -> BOOLEAN]
  BY <1>1 DEF TypeOK
<1>7. TypeOK'
  BY <1>1, <1>4, <1>5, <1>6 DEF TypeOK
<1>8. WaitingIsTimed'
  <2> SUFFICES ASSUME NEW q \in Peers, ~received[q], pc[q] # "gone"
               PROVE  \/ timer'[q] \/ Has(todo'[q]["main"], "alarm7")
                      \/ Has(todo'[q]["alarm"], "recvTrue")
    BY <1>1 DEF WaitingIsTimed
  <2>1. CASE q = p
    BY <1>3, <1>4, <2>1 DEF Frame, Handler
  <2>2. CASE q # p
    <3>1. timer'[q] = timer[q]
      BY <1>1, <2>2 DEF TypeOK
    <3> QED
      BY <1>4, <2>2, <3>1 DEF WaitingIsTimed, Frame, Handler
  <2> QED
    BY <2>1, <2>2
<1> QED
  BY <1>4, <1>7, <1>8

LEMMA LoseStep == IInv /\ Lose => IInv'
<1> SUFFICES ASSUME IInv, Lose PROVE IInv'
  OBVIOUS
<1> USE DEF IInv
<1>1. PICK d \in DOMAIN net : net' = Take(net, d)
  BY DEF Lose
<1>2. NetOK'
  BY <1>1, TakeOK DEF TypeOK, NetOK, Datagram
<1>3. lost' \in 0 .. MaxLost
  BY WeTalkAssumption DEF Lose, TypeOK
<1>4. UNCHANGED <<peer, pc, line, todo, stack, expired, lines>>
  BY DEF Lose
<1>5. TypeOK'
  BY <1>2, <1>3, <1>4 DEF TypeOK, NetOK, Datagram, peer
<1>6. TodoOK' /\ WaitingIsTimed'
  BY <1>4 DEF TodoOK, WaitingIsTimed, peer
<1> QED
  BY <1>5, <1>6

-----------------------------------------------------------------------------
LEMMA StepIInv == IInv /\ [Next]_vars => IInv'
<1> SUFFICES ASSUME IInv, [Next]_vars PROVE IInv'
  OBVIOUS
<1>1. ASSUME NEW p \in Peers, Execute(p) PROVE IInv'
  BY <1>1, ExecuteStep
<1>2. ASSUME NEW p \in Peers, ReadLine(p) PROVE IInv'
  BY <1>2, ReadLineStep
<1>3. ASSUME NEW p \in Peers, TestConnection(p) PROVE IInv'
  BY <1>3, TestConnectionStep
<1>4. ASSUME NEW p \in Peers, TestOpponent(p) PROVE IInv'
  BY <1>4, TestOpponentStep
<1>5. ASSUME NEW p \in Peers, Reprompt(p) PROVE IInv'
  BY <1>5, RepromptStep
<1>6. ASSUME NEW p \in Peers, PacketHandler(p) PROVE IInv'
  BY <1>6, PacketHandlerStep
<1>7. ASSUME NEW p \in Peers, AlarmHandler(p) PROVE IInv'
  BY <1>7, AlarmHandlerStep
<1>8. CASE Lose
  BY <1>8, LoseStep
<1>9. CASE UNCHANGED vars
  <2>1. TypeOK'
    BY <1>9 DEF IInv, TypeOK, vars
  <2>2. TodoOK' /\ WaitingIsTimed'
    BY <1>9 DEF IInv, TodoOK, WaitingIsTimed, vars
  <2> QED
    BY <2>1, <2>2 DEF IInv
<1> QED
  BY <1>1, <1>2, <1>3, <1>4, <1>5, <1>6, <1>7, <1>8, <1>9 DEF Next

LEMMA Inductive == Spec => []IInv
BY InitIInv, StepIInv, PTL DEF Spec

\* Every variable keeps its type under every nesting of the handlers; in
\* particular opp_server only ever holds the address of a peer that was named.
THEOREM TypeOKAlways == Spec => []TypeOK
<1>1. IInv => TypeOK
  BY DEF IInv
<1> QED
  BY <1>1, Inductive, PTL

\* A peer that waits for an answer has a timer set, is about to set one, or is
\* being released by the alarm handler, whatever interrupts the dialling.
THEOREM WaitingIsTimedAlways == Spec => []WaitingIsTimed
<1>1. IInv => WaitingIsTimed
  BY DEF IInv
<1> QED
  BY <1>1, Inductive, PTL

-----------------------------------------------------------------------------
(* If users wait, a conversation keeps its opponent, and is one with nobody  *)
(* only where the alarm has come into packet_handler.                        *)

\* The next statement of a list, and of a frame.
First(s) == IF s = <<>> THEN "none" ELSE Head(s)

Coming(p, f) == First(todo[p][f])

\* A frame can come from one statement to another, "none" at its end.
Follows(f, s, t) ==
  \/ f = "main" /\ s = "oppServer" /\ t = "sendWanna"
  \/ f = "main" /\ s = "sendWanna" /\ t = "recvFalse"
  \/ f = "main" /\ s = "recvFalse" /\ t = "alarm7"
  \/ f = "main" /\ s = "sendOK" /\ t = "connTrue"
  \/ f = "main" /\ s \in {"sendKO", "sendE"} /\ t = "connFalse"
  \/ f = "io" /\ s = "recvTrue" /\ t = "connTrue"
  \/ f # "main" /\ s = "recvTrue" /\ t = "connFalse"
  \/ s = "connFalse" /\ t = "oppNull"
  \/ f = "main" /\ s \in {"alarm7", "connTrue", "sendD"} /\ t = "none"
  \/ f = "io" /\ s \in {"connTrue", "oppTheir"} /\ t = "none"
  \/ s = "oppNull" /\ t = "none"

\* The lists of statements, from their beginnings on.
Dials == {<<"oppServer", "sendWanna", "recvFalse", "alarm7">>,
          <<"sendWanna", "recvFalse", "alarm7">>, <<"recvFalse", "alarm7">>, <<"alarm7">>}
Answers == {<<"sendOK", "connTrue">>, <<"connTrue">>, <<"sendKO", "connFalse", "oppNull">>}
Leavings == {<<"sendE", "connFalse", "oppNull">>, <<"connFalse", "oppNull">>, <<"oppNull">>}
Releases == {<<"recvTrue", "connFalse", "oppNull">>, <<"connFalse", "oppNull">>, <<"oppNull">>}
Takings == {<<"recvTrue", "connTrue">>, <<"connTrue">>, <<"oppTheir">>}

ListsOf(f) ==
  IF f = "main" THEN {<<>>, <<"sendD">>} \cup Dials \cup Answers \cup Leavings
  ELSE IF f = "io" THEN {<<>>} \cup Releases \cup Takings
  ELSE {<<>>} \cup Releases

\* No handler interrupts itself.
Stacks == {st \in Seq(Handler) : \A i, j \in 1 .. Len(st) : st[i] = st[j] => i = j}

\* The handlers on the stack are those that have statements left.
Stacked(p) ==
  /\ \A f \in Frame : todo[p][f] \in ListsOf(f)
  /\ stack[p] \in Stacks
  /\ \A h \in Handler : Has(stack[p], h) <=> todo[p][h] # <<>>

\* The main loop is about to act on a line.
Acting(p) ==
  \/ pc[p] \in {"test", "idle", "talking", "wrong"}
  \/ Coming(p, "main") \notin {"none", "alarm7"}

\* It is about to dial, to accept, or to forget an opponent.
Turning(p) ==
  \/ pc[p] = "idle"
  \/ Coming(p, "main") \in {"oppServer", "sendWanna", "recvFalse", "sendOK", "connTrue", "oppNull"}

\* Where the pointer moves there is no conversation, and none comes up.
Talk(p) ==
  /\ todo[p]["main"] # <<>> => pc[p] = "prompt"
  /\ ~received[p] => ~connection[p] /\ ~Acting(p)
  /\ Acting(p) => /\ Coming(p, "alarm") = "none"
                  /\ Coming(p, "io") \in {"none", "oppTheir", "connFalse", "oppNull"}
  /\ Turning(p) => ~connection[p] /\ Coming(p, "io") \in {"none", "oppTheir"}
  /\ Coming(p, "io") \in {"oppTheir", "oppNull"} => ~connection[p]
  /\ Coming(p, "io") \in {"connTrue", "connFalse", "oppNull"} => received[p]
  /\ Coming(p, "alarm") = "oppNull" => ~connection[p]
  /\ Coming(p, "alarm") \in {"connFalse", "oppNull"} =>
       /\ received[p]
       /\ Running(p) = "io" => Coming(p, "io") \notin {"recvTrue", "connTrue"}

\* Whoever waits for an answer, or is about to invite or to accept, has an
\* opponent, and so has packet_handler when it is about to open a conversation,
\* unless the alarm has given up the invitation under it.
Company(p) ==
  /\ \/ ~received[p]
     \/ Coming(p, "main") \in {"sendWanna", "recvFalse", "sendOK", "connTrue"}
     => opp[p] # "null"
  /\ Running(p) = "alarm" /\ Coming(p, "io") \in {"recvTrue", "connTrue"} => expired[p]
  /\ Coming(p, "io") = "recvTrue" /\ ~expired[p] => ~received[p]
  /\ Coming(p, "io") = "connTrue" /\ ~expired[p] => opp[p] # "null"

TalkInv == \A p \in Peers : Stacked(p) /\ (Patient => Talk(p) /\ Company(p))

\* One list of statements after another.
Goes(f, s, t) ==
  /\ Tail(s) = t /\ t \in ListsOf(f) /\ (Len(s) = 1 <=> t = <<>>)
  /\ Follows(f, First(s), First(t)) /\ s # <<>>

LEMMA ListFacts ==
  ASSUME NEW f \in Frame, NEW s \in ListsOf(f), s # <<>>
  PROVE  Goes(f, s, Tail(s))
<1>1. ASSUME f = "main", s \in Dials PROVE Goes(f, s, Tail(s))
  <2>1. CASE s = <<"oppServer", "sendWanna", "recvFalse", "alarm7">>
    <3>1. Tail(s) = <<"sendWanna", "recvFalse", "alarm7">> /\ First(s) = "oppServer" /\ s # <<>>
      BY <2>1 DEF First
    <3>2. First(<<"sendWanna", "recvFalse", "alarm7">>) = "sendWanna" /\ <<"sendWanna", "recvFalse", "alarm7">> # <<>> /\ Len(s) # 1
      BY <2>1 DEF First
    <3>3. <<"sendWanna", "recvFalse", "alarm7">> \in ListsOf(f)
      BY <1>1 DEF ListsOf, Dials
    <3>4. Follows(f, "oppServer", "sendWanna")
      BY <1>1 DEF Follows
    <3>5. Follows(f, First(s), First(Tail(s)))
      BY <3>1, <3>2, <3>4
    <3> QED
      BY <3>1, <3>2, <3>3, <3>5 DEF Goes
  <2>2. CASE s = <<"sendWanna", "recvFalse", "alarm7">>
    <3>1. Tail(s) = <<"recvFalse", "alarm7">> /\ First(s) = "sendWanna" /\ s # <<>>
      BY <2>2 DEF First
    <3>2. First(<<"recvFalse", "alarm7">>) = "recvFalse" /\ <<"recvFalse", "alarm7">> # <<>> /\ Len(s) # 1
      BY <2>2 DEF First
    <3>3. <<"recvFalse", "alarm7">> \in ListsOf(f)
      BY <1>1 DEF ListsOf, Dials
    <3>4. Follows(f, "sendWanna", "recvFalse")
      BY <1>1 DEF Follows
    <3>5. Follows(f, First(s), First(Tail(s)))
      BY <3>1, <3>2, <3>4
    <3> QED
      BY <3>1, <3>2, <3>3, <3>5 DEF Goes
  <2>3. CASE s = <<"recvFalse", "alarm7">>
    <3>1. Tail(s) = <<"alarm7">> /\ First(s) = "recvFalse" /\ s # <<>>
      BY <2>3 DEF First
    <3>2. First(<<"alarm7">>) = "alarm7" /\ <<"alarm7">> # <<>> /\ Len(s) # 1
      BY <2>3 DEF First
    <3>3. <<"alarm7">> \in ListsOf(f)
      BY <1>1 DEF ListsOf, Dials
    <3>4. Follows(f, "recvFalse", "alarm7")
      BY <1>1 DEF Follows
    <3>5. Follows(f, First(s), First(Tail(s)))
      BY <3>1, <3>2, <3>4
    <3> QED
      BY <3>1, <3>2, <3>3, <3>5 DEF Goes
  <2>4. CASE s = <<"alarm7">>
    <3>1. Tail(s) = <<>> /\ First(s) = "alarm7" /\ s # <<>>
      BY <2>4 DEF First
    <3>2. First(<<>>) = "none" /\ Len(s) = 1
      BY <2>4 DEF First
    <3>3. <<>> \in ListsOf(f)
      BY <1>1 DEF ListsOf, Dials
    <3>4. Follows(f, "alarm7", "none")
      BY <1>1 DEF Follows
    <3>5. Follows(f, First(s), First(Tail(s)))
      BY <3>1, <3>2, <3>4
    <3> QED
      BY <3>1, <3>2, <3>3, <3>5 DEF Goes
  <2> QED
    BY <1>1, <2>1, <2>2, <2>3, <2>4 DEF Dials
<1>2. ASSUME f = "main", s \in Answers PROVE Goes(f, s, Tail(s))
  <2>1. CASE s = <<"sendOK", "connTrue">>
    <3>1. Tail(s) = <<"connTrue">> /\ First(s) = "sendOK" /\ s # <<>>
      BY <2>1 DEF First
    <3>2. First(<<"connTrue">>) = "connTrue" /\ <<"connTrue">> # <<>> /\ Len(s) # 1
      BY <2>1 DEF First
    <3>3. <<"connTrue">> \in ListsOf(f)
      BY <1>2 DEF ListsOf, Answers, Leavings
    <3>4. Follows(f, "sendOK", "connTrue")
      BY <1>2 DEF Follows
    <3>5. Follows(f, First(s), First(Tail(s)))
      BY <3>1, <3>2, <3>4
    <3> QED
      BY <3>1, <3>2, <3>3, <3>5 DEF Goes
  <2>2. CASE s = <<"connTrue">>
    <3>1. Tail(s) = <<>> /\ First(s) = "connTrue" /\ s # <<>>
      BY <2>2 DEF First
    <3>2. First(<<>>) = "none" /\ Len(s) = 1
      BY <2>2 DEF First
    <3>3. <<>> \in ListsOf(f)
      BY <1>2 DEF ListsOf, Answers, Leavings
    <3>4. Follows(f, "connTrue", "none")
      BY <1>2 DEF Follows
    <3>5. Follows(f, First(s), First(Tail(s)))
      BY <3>1, <3>2, <3>4
    <3> QED
      BY <3>1, <3>2, <3>3, <3>5 DEF Goes
  <2>3. CASE s = <<"sendKO", "connFalse", "oppNull">>
    <3>1. Tail(s) = <<"connFalse", "oppNull">> /\ First(s) = "sendKO" /\ s # <<>>
      BY <2>3 DEF First
    <3>2. First(<<"connFalse", "oppNull">>) = "connFalse" /\ <<"connFalse", "oppNull">> # <<>> /\ Len(s) # 1
      BY <2>3 DEF First
    <3>3. <<"connFalse", "oppNull">> \in ListsOf(f)
      BY <1>2 DEF ListsOf, Answers, Leavings
    <3>4. Follows(f, "sendKO", "connFalse")
      BY <1>2 DEF Follows
    <3>5. Follows(f, First(s), First(Tail(s)))
      BY <3>1, <3>2, <3>4
    <3> QED
      BY <3>1, <3>2, <3>3, <3>5 DEF Goes
  <2> QED
    BY <1>2, <2>1, <2>2, <2>3 DEF Answers
<1>3. ASSUME f = "main", s \in Leavings PROVE Goes(f, s, Tail(s))
  <2>1. CASE s = <<"sendE", "connFalse", "oppNull">>
    <3>1. Tail(s) = <<"connFalse", "oppNull">> /\ First(s) = "sendE" /\ s # <<>>
      BY <2>1 DEF First
    <3>2. First(<<"connFalse", "oppNull">>) = "connFalse" /\ <<"connFalse", "oppNull">> # <<>> /\ Len(s) # 1
      BY <2>1 DEF First
    <3>3. <<"connFalse", "oppNull">> \in ListsOf(f)
      BY <1>3 DEF ListsOf, Leavings
    <3>4. Follows(f, "sendE", "connFalse")
      BY <1>3 DEF Follows
    <3>5. Follows(f, First(s), First(Tail(s)))
      BY <3>1, <3>2, <3>4
    <3> QED
      BY <3>1, <3>2, <3>3, <3>5 DEF Goes
  <2>2. CASE s = <<"connFalse", "oppNull">>
    <3>1. Tail(s) = <<"oppNull">> /\ First(s) = "connFalse" /\ s # <<>>
      BY <2>2 DEF First
    <3>2. First(<<"oppNull">>) = "oppNull" /\ <<"oppNull">> # <<>> /\ Len(s) # 1
      BY <2>2 DEF First
    <3>3. <<"oppNull">> \in ListsOf(f)
      BY <1>3 DEF ListsOf, Leavings
    <3>4. Follows(f, "connFalse", "oppNull")
      BY <1>3 DEF Follows
    <3>5. Follows(f, First(s), First(Tail(s)))
      BY <3>1, <3>2, <3>4
    <3> QED
      BY <3>1, <3>2, <3>3, <3>5 DEF Goes
  <2>3. CASE s = <<"oppNull">>
    <3>1. Tail(s) = <<>> /\ First(s) = "oppNull" /\ s # <<>>
      BY <2>3 DEF First
    <3>2. First(<<>>) = "none" /\ Len(s) = 1
      BY <2>3 DEF First
    <3>3. <<>> \in ListsOf(f)
      BY <1>3 DEF ListsOf, Leavings
    <3>4. Follows(f, "oppNull", "none")
      BY <1>3 DEF Follows
    <3>5. Follows(f, First(s), First(Tail(s)))
      BY <3>1, <3>2, <3>4
    <3> QED
      BY <3>1, <3>2, <3>3, <3>5 DEF Goes
  <2> QED
    BY <1>3, <2>1, <2>2, <2>3 DEF Leavings
<1>4. ASSUME f \in {"io", "alarm"}, s \in Releases PROVE Goes(f, s, Tail(s))
  <2>1. CASE s = <<"recvTrue", "connFalse", "oppNull">>
    <3>1. Tail(s) = <<"connFalse", "oppNull">> /\ First(s) = "recvTrue" /\ s # <<>>
      BY <2>1 DEF First
    <3>2. First(<<"connFalse", "oppNull">>) = "connFalse" /\ <<"connFalse", "oppNull">> # <<>> /\ Len(s) # 1
      BY <2>1 DEF First
    <3>3. <<"connFalse", "oppNull">> \in ListsOf(f)
      BY <1>4 DEF ListsOf, Releases
    <3>4. Follows(f, "recvTrue", "connFalse")
      BY <1>4 DEF Follows
    <3>5. Follows(f, First(s), First(Tail(s)))
      BY <3>1, <3>2, <3>4
    <3> QED
      BY <3>1, <3>2, <3>3, <3>5 DEF Goes
  <2>2. CASE s = <<"connFalse", "oppNull">>
    <3>1. Tail(s) = <<"oppNull">> /\ First(s) = "connFalse" /\ s # <<>>
      BY <2>2 DEF First
    <3>2. First(<<"oppNull">>) = "oppNull" /\ <<"oppNull">> # <<>> /\ Len(s) # 1
      BY <2>2 DEF First
    <3>3. <<"oppNull">> \in ListsOf(f)
      BY <1>4 DEF ListsOf, Releases
    <3>4. Follows(f, "connFalse", "oppNull")
      BY <1>4 DEF Follows
    <3>5. Follows(f, First(s), First(Tail(s)))
      BY <3>1, <3>2, <3>4
    <3> QED
      BY <3>1, <3>2, <3>3, <3>5 DEF Goes
  <2>3. CASE s = <<"oppNull">>
    <3>1. Tail(s) = <<>> /\ First(s) = "oppNull" /\ s # <<>>
      BY <2>3 DEF First
    <3>2. First(<<>>) = "none" /\ Len(s) = 1
      BY <2>3 DEF First
    <3>3. <<>> \in ListsOf(f)
      BY <1>4 DEF ListsOf, Releases
    <3>4. Follows(f, "oppNull", "none")
      BY <1>4 DEF Follows
    <3>5. Follows(f, First(s), First(Tail(s)))
      BY <3>1, <3>2, <3>4
    <3> QED
      BY <3>1, <3>2, <3>3, <3>5 DEF Goes
  <2> QED
    BY <1>4, <2>1, <2>2, <2>3 DEF Releases
<1>5. ASSUME f = "io", s \in Takings PROVE Goes(f, s, Tail(s))
  <2>1. CASE s = <<"recvTrue", "connTrue">>
    <3>1. Tail(s) = <<"connTrue">> /\ First(s) = "recvTrue" /\ s # <<>>
      BY <2>1 DEF First
    <3>2. First(<<"connTrue">>) = "connTrue" /\ <<"connTrue">> # <<>> /\ Len(s) # 1
      BY <2>1 DEF First
    <3>3. <<"connTrue">> \in ListsOf(f)
      BY <1>5 DEF ListsOf, Takings
    <3>4. Follows(f, "recvTrue", "connTrue")
      BY <1>5 DEF Follows
    <3>5. Follows(f, First(s), First(Tail(s)))
      BY <3>1, <3>2, <3>4
    <3> QED
      BY <3>1, <3>2, <3>3, <3>5 DEF Goes
  <2>2. CASE s = <<"connTrue">>
    <3>1. Tail(s) = <<>> /\ First(s) = "connTrue" /\ s # <<>>
      BY <2>2 DEF First
    <3>2. First(<<>>) = "none" /\ Len(s) = 1
      BY <2>2 DEF First
    <3>3. <<>> \in ListsOf(f)
      BY <1>5 DEF ListsOf, Takings
    <3>4. Follows(f, "connTrue", "none")
      BY <1>5 DEF Follows
    <3>5. Follows(f, First(s), First(Tail(s)))
      BY <3>1, <3>2, <3>4
    <3> QED
      BY <3>1, <3>2, <3>3, <3>5 DEF Goes
  <2>3. CASE s = <<"oppTheir">>
    <3>1. Tail(s) = <<>> /\ First(s) = "oppTheir" /\ s # <<>>
      BY <2>3 DEF First
    <3>2. First(<<>>) = "none" /\ Len(s) = 1
      BY <2>3 DEF First
    <3>3. <<>> \in ListsOf(f)
      BY <1>5 DEF ListsOf, Takings
    <3>4. Follows(f, "oppTheir", "none")
      BY <1>5 DEF Follows
    <3>5. Follows(f, First(s), First(Tail(s)))
      BY <3>1, <3>2, <3>4
    <3> QED
      BY <3>1, <3>2, <3>3, <3>5 DEF Goes
  <2> QED
    BY <1>5, <2>1, <2>2, <2>3 DEF Takings
<1>6. CASE f = "main" /\ s = <<"sendD">>
  <2>1. Tail(s) = <<>> /\ First(s) = "sendD" /\ First(<<>>) = "none" /\ Len(s) = 1
    BY <1>6 DEF First
  <2> QED
    BY <1>6, <2>1 DEF Goes, Follows, ListsOf
<1> QED
  BY <1>1, <1>2, <1>3, <1>4, <1>5, <1>6 DEF ListsOf, Frame, Handler

LEMMA ListTypes ==
  ASSUME NEW f \in Frame, NEW s \in ListsOf(f)
  PROVE  s \in Seq(Statement) /\ (s # <<>> => First(s) # "none")
<1>1. ListsOf(f) \subseteq Seq(Statement)
  <2>1. Dials \subseteq Seq(Statement)
    BY DEF Dials, Statement
  <2>2. {<<>>, <<"sendD">>} \cup Answers \cup Leavings \subseteq Seq(Statement)
    BY DEF Answers, Leavings, Statement
  <2>3. Releases \cup Takings \subseteq Seq(Statement)
    BY DEF Releases, Takings, Statement
  <2> QED
    BY <2>1, <2>2, <2>3 DEF ListsOf, Frame, Handler
<1>2. s \in Seq(Statement)
  BY <1>1
<1>3. s # <<>> => Head(s) \in Statement
  BY <1>2
<1> QED
  BY <1>2, <1>3 DEF First, Statement

LEMMA PopFacts ==
  ASSUME NEW st \in Stacks, st # <<>>
  PROVE  /\ Tail(st) \in Stacks
         /\ Head(st) \in Handler /\ Has(st, Head(st))
         /\ \A h \in Handler : Has(Tail(st), h) <=> Has(st, h) /\ h # Head(st)
<1>1. st \in Seq(Handler) /\ Len(st) \in Nat /\ Len(st) >= 1
  BY DEF Stacks
<1>2. /\ Tail(st) \in Seq(Handler) /\ Len(Tail(st)) = Len(st) - 1
      /\ Head(st) = st[1] /\ 1 \in 1 .. Len(st)
      /\ \A i \in 1 .. Len(Tail(st)) : Tail(st)[i] = st[i + 1] /\ i + 1 \in 1 .. Len(st)
  BY <1>1
<1>3. \A i, j \in 1 .. Len(st) : st[i] = st[j] => i = j
  BY DEF Stacks
<1>4. Tail(st) \in Stacks
  <2>1. ASSUME NEW i \in 1 .. Len(Tail(st)), NEW j \in 1 .. Len(Tail(st)),
               Tail(st)[i] = Tail(st)[j]
        PROVE  i = j
    <3>1. i + 1 = j + 1
      BY <1>2, <1>3, <2>1
    <3> QED
      BY <1>1, <1>2, <3>1
  <2> QED
    BY <1>2, <2>1 DEF Stacks
<1>5. Head(st) \in Handler /\ Has(st, Head(st))
  BY <1>1, <1>2 DEF Has
<1>6. ASSUME NEW h, Has(Tail(st), h) PROVE Has(st, h) /\ h # Head(st)
  <2>1. PICK i \in 1 .. Len(Tail(st)) : Tail(st)[i] = h
    BY <1>6 DEF Has
  <2>2. i + 1 \in 1 .. Len(st) /\ st[i + 1] = h /\ i + 1 # 1
    BY <1>1, <1>2, <2>1
  <2> QED
    BY <1>2, <1>3, <2>2 DEF Has
<1>7. ASSUME NEW h, Has(st, h), h # Head(st) PROVE Has(Tail(st), h)
  <2>1. PICK i \in 1 .. Len(st) : st[i] = h
    BY <1>7 DEF Has
  <2>2. i # 1
    BY <1>2, <1>7, <2>1
  <2>3. i - 1 \in 1 .. Len(Tail(st)) /\ (i - 1) + 1 = i
    BY <1>1, <1>2, <2>1, <2>2
  <2> QED
    BY <1>2, <2>1, <2>3 DEF Has
<1> QED
  BY <1>4, <1>5, <1>6, <1>7

LEMMA PushFacts ==
  ASSUME NEW st \in Stacks, NEW h \in Handler, ~Has(st, h)
  PROVE  /\ <<h>> \o st \in Stacks
         /\ <<h>> \o st # <<>> /\ Head(<<h>> \o st) = h
         /\ \A g \in Handler : Has(<<h>> \o st, g) <=> Has(st, g) \/ g = h
<1> DEFINE u == <<h>> \o st
<1>1. st \in Seq(Handler) /\ Len(st) \in Nat
  BY DEF Stacks
<1>2. /\ u \in Seq(Handler) /\ Len(u) = Len(st) + 1 /\ u[1] = h
      /\ \A i \in 1 .. Len(st) : u[i + 1] = st[i] /\ i + 1 \in 1 .. Len(u)
  BY <1>1
<1> HIDE DEF u
<1>3. u # <<>> /\ Head(u) = h
  BY <1>1, <1>2
<1>4. \A i \in 1 .. Len(u) : i # 1 => i - 1 \in 1 .. Len(st) /\ u[i] = st[i - 1]
  <2> SUFFICES ASSUME NEW i \in 1 .. Len(u), i # 1
               PROVE  i - 1 \in 1 .. Len(st) /\ u[i] = st[i - 1]
    OBVIOUS
  <2>1. i - 1 \in 1 .. Len(st) /\ (i - 1) + 1 = i
    BY <1>1, <1>2
  <2> QED
    BY <1>2, <2>1
<1>5. \A i \in 1 .. Len(st) : st[i] # h
  BY DEF Has
<1>6. ASSUME NEW i \in 1 .. Len(u), NEW j \in 1 .. Len(u), u[i] = u[j] PROVE i = j
  <2>1. CASE i = 1 /\ j # 1
    BY <1>2, <1>4, <1>5, <1>6, <2>1
  <2>2. CASE i # 1 /\ j = 1
    BY <1>2, <1>4, <1>5, <1>6, <2>2
  <2>3. CASE i # 1 /\ j # 1
    <3>1. i - 1 = j - 1
      BY <1>4, <1>6, <2>3 DEF Stacks
    <3> QED
      BY <3>1
  <2> QED
    BY <2>1, <2>2, <2>3
<1>7. ASSUME NEW g, Has(u, g) PROVE Has(st, g) \/ g = h
  BY <1>2, <1>4, <1>7 DEF Has
<1>8. ASSUME NEW g, Has(st, g) \/ g = h PROVE Has(u, g)
  <2>1. 1 \in 1 .. Len(u)
    BY <1>1, <1>2
  <2> QED
    BY <1>2, <1>8, <2>1 DEF Has
<1>9. u \in Stacks
  BY <1>2, <1>6 DEF Stacks
<1> QED
  BY <1>3, <1>7, <1>8, <1>9 DEF u


\* The main loop runs when no handler has statements left, and a handler that
\* runs has some.
LEMMA RunningFacts ==
  ASSUME NEW p \in Peers, Stacked(p)
  PROVE  /\ Running(p) \in Frame
         /\ Running(p) = "main" => Coming(p, "io") = "none" /\ Coming(p, "alarm") = "none"
         /\ Running(p) # "main" => todo[p][Running(p)] # <<>>
<1>1. CASE stack[p] = <<>>
  <2>1. \A h \in Handler : ~Has(stack[p], h)
    BY <1>1 DEF Has
  <2>2. todo[p]["io"] = <<>> /\ todo[p]["alarm"] = <<>>
    BY <2>1 DEF Stacked, Handler
  <2>3. Running(p) = "main"
    BY <1>1 DEF Running
  <2> QED
    BY <2>2, <2>3 DEF Coming, First, Frame
<1>2. CASE stack[p] # <<>>
  <2>1. stack[p] \in Stacks
    BY DEF Stacked
  <2>2. Running(p) = Head(stack[p])
    BY <1>2 DEF Running
  <2>3. Running(p) \in Handler /\ Has(stack[p], Running(p))
    BY <1>2, <2>1, <2>2, PopFacts
  <2>4. todo[p][Running(p)] # <<>>
    BY <2>3 DEF Stacked
  <2>5. Running(p) # "main"
    BY <2>3 DEF Handler
  <2> QED
    BY <2>3, <2>4, <2>5 DEF Frame
<1> QED
  BY <1>1, <1>2

\* What a statement does to the lists and to the stack.
LEMMA ExecuteLists ==
  ASSUME TypeOK, \A q \in Peers : Stacked(q),
         NEW p \in Peers, Execute(p), NEW f, f = Running(p), NEW s, s = Coming(p, f)
  PROVE  /\ f \in Frame /\ s # "none" /\ s = Head(todo[p][f])
         /\ Follows(f, s, Coming(p, f)')
         /\ \A g \in Frame : g # f => Coming(p, g)' = Coming(p, g)
         /\ todo'[p]["main"] # <<>> => todo[p]["main"] # <<>>
         /\ Coming(p, f)' # "none" => Running(p)' = f
         /\ \A q \in Peers : Stacked(q)'
         /\ \A q \in Peers : q # p =>
              /\ todo'[q] = todo[q] /\ stack'[q] = stack[q]
<1>1. f \in Frame
  BY RunningFacts
<1>2. /\ todo[p][f] # <<>>
      /\ todo' = [todo EXCEPT ![p][f] = Tail(@)]
      /\ stack' = IF f # "main" /\ Len(todo[p][f]) = 1
                    THEN [stack EXCEPT ![p] = Tail(@)] ELSE stack
  BY DEF Execute
<1>3. todo[p][f] \in ListsOf(f)
  BY <1>1 DEF Stacked
<1>4. Goes(f, todo[p][f], Tail(todo[p][f]))
  BY <1>1, <1>2, <1>3, ListFacts
<1>5. todo \in [Peers -> [Frame -> Seq(Statement)]] /\ stack \in [Peers -> Seq(Handler)]
  BY DEF TypeOK
<1>6. /\ todo'[p][f] = Tail(todo[p][f])
      /\ \A g \in Frame : g # f => todo'[p][g] = todo[p][g]
      /\ \A q \in Peers : q # p => todo'[q] = todo[q]
  BY <1>1, <1>2, <1>5
<1>7. \A q \in Peers : q # p => stack'[q] = stack[q]
  BY <1>2, <1>5
<1>8. s # "none" /\ s = Head(todo[p][f])
  BY <1>1, <1>2, <1>3, ListTypes DEF Coming, First
<1>9. Follows(f, s, Coming(p, f)')
  <2>1. Coming(p, f)' = First(Tail(todo[p][f]))
    BY <1>6 DEF Coming
  <2> QED
    BY <1>4, <2>1 DEF Goes, Coming
<1>10. \A g \in Frame : g # f => Coming(p, g)' = Coming(p, g)
  BY <1>6 DEF Coming
<1>11. todo'[p]["main"] # <<>> => todo[p]["main"] # <<>>
  BY <1>2, <1>6 DEF Frame
<1>12. stack[p] \in Stacks /\ \A h \in Handler : Has(stack[p], h) <=> todo[p][h] # <<>>
  BY DEF Stacked
<1>13. CASE f # "main" /\ Len(todo[p][f]) = 1
  <2>1. stack'[p] = Tail(stack[p]) /\ todo'[p][f] = <<>>
    BY <1>2, <1>4, <1>5, <1>6, <1>13 DEF Goes
  <2>2. stack[p] # <<>> /\ f = Head(stack[p])
    BY <1>13 DEF Running
  <2>3. /\ Tail(stack[p]) \in Stacks
        /\ \A h \in Handler : Has(Tail(stack[p]), h) <=> Has(stack[p], h) /\ h # f
    BY <1>12, <2>2, PopFacts
  <2>4. \A h \in Handler : Has(stack'[p], h) <=> todo'[p][h] # <<>>
    BY <1>6, <1>12, <2>1, <2>3 DEF Frame
  <2>5. Stacked(p)'
    BY <1>3, <1>4, <1>6, <2>1, <2>3, <2>4 DEF Stacked, Goes
  <2>6. Coming(p, f)' = "none"
    BY <2>1 DEF Coming, First
  <2> QED
    BY <1>1, <1>6, <1>7, <1>8, <1>9, <1>10, <1>11, <2>5, <2>6 DEF Stacked
<1>14. CASE ~(f # "main" /\ Len(todo[p][f]) = 1)
  <2>1. stack' = stack
    BY <1>2, <1>14
  <2>2. f # "main" => todo'[p][f] # <<>>
    BY <1>4, <1>6, <1>14 DEF Goes
  <2>3. \A h \in Handler : Has(stack'[p], h) <=> todo'[p][h] # <<>>
    BY <1>2, <1>6, <1>12, <2>1, <2>2 DEF Frame, Handler
  <2>4. Stacked(p)'
    BY <1>4, <1>6, <1>12, <2>1, <2>3 DEF Stacked, Goes
  <2>5. Running(p)' = f
    BY <2>1 DEF Running
  <2> QED
    BY <1>1, <1>6, <1>7, <1>8, <1>9, <1>10, <1>11, <2>4, <2>5 DEF Stacked
<1> QED
  BY <1>13, <1>14

\* What a statement does to the shared variables.
LEMMA ExecuteShared ==
  ASSUME TypeOK, NEW p \in Peers, Execute(p),
         NEW f, f = Running(p), NEW s, s = Head(todo[p][f])
  PROVE  /\ connection'[p] = ((connection[p] /\ s # "connFalse") \/ s = "connTrue")
         /\ received'[p] = ((received[p] /\ s # "recvFalse") \/ s = "recvTrue")
         /\ s = "oppNull" => opp'[p] = "null"
         /\ s \in {"oppServer", "oppTheir"} => opp'[p] # "null"
         /\ s \notin {"oppNull", "oppServer", "oppTheir"} => opp'[p] = opp[p]
         /\ \A q \in Peers : q # p =>
              /\ connection'[q] = connection[q] /\ received'[q] = received[q]
              /\ opp'[q] = opp[q]
         /\ pc' = pc /\ expired' = expired
<1>1. /\ connection' = [connection EXCEPT ![p] = (@ /\ s # "connFalse") \/ s = "connTrue"]
      /\ received' = [received EXCEPT ![p] = (@ /\ s # "recvFalse") \/ s = "recvTrue"]
      /\ opp' = [opp EXCEPT ![p] = CASE s = "oppNull"   -> "null"
                                     [] s = "oppServer" -> "server"
                                     [] s = "oppTheir"  -> "their"
                                     [] OTHER           -> @]
      /\ pc' = pc /\ expired' = expired
  BY DEF Execute
<1>2. /\ connection \in [Peers -> BOOLEAN] /\ received \in [Peers -> BOOLEAN]
      /\ opp \in [Peers -> Pointer]
  BY DEF TypeOK
<1>3. connection'[p] = ((connection[p] /\ s # "connFalse") \/ s = "connTrue")
  BY <1>1, <1>2
<1>4. received'[p] = ((received[p] /\ s # "recvFalse") \/ s = "recvTrue")
  BY <1>1, <1>2
<1>5. opp'[p] = CASE s = "oppNull"   -> "null"
                  [] s = "oppServer" -> "server"
                  [] s = "oppTheir"  -> "their"
                  [] OTHER           -> opp[p]
  BY <1>1, <1>2
<1>6. \A q \in Peers : q # p =>
              /\ connection'[q] = connection[q] /\ received'[q] = received[q]
              /\ opp'[q] = opp[q]
  BY <1>1, <1>2
<1> QED
  BY <1>1, <1>3, <1>4, <1>5, <1>6

LEMMA TalkExecute ==
  ASSUME TypeOK, \A q \in Peers : Stacked(q), NEW p \in Peers, Execute(p), Talk(p)
  PROVE  Talk(p)'
<1>1. PICK g, t : g = Running(p) /\ t = Coming(p, g)
  OBVIOUS
<1>2. /\ g \in Frame /\ t # "none" /\ t = Head(todo[p][g])
      /\ Follows(g, t, Coming(p, g)')
      /\ \A h \in Frame : h # g => Coming(p, h)' = Coming(p, h)
      /\ todo'[p]["main"] # <<>> => todo[p]["main"] # <<>>
      /\ Coming(p, g)' # "none" => Running(p)' = g
  BY <1>1, ExecuteLists
<1>3. /\ connection'[p] = ((connection[p] /\ t # "connFalse") \/ t = "connTrue")
      /\ received'[p] = ((received[p] /\ t # "recvFalse") \/ t = "recvTrue")
      /\ pc' = pc
  BY <1>1, <1>2, ExecuteShared
<1>4. /\ g = "main" => Coming(p, "io") = "none" /\ Coming(p, "alarm") = "none"
      /\ g = "main" => pc[p] = "prompt"
  <2>1. g = "main" => todo[p]["main"] # <<>>
    BY <1>1, <1>2 DEF Coming, First
  <2> QED
    BY <1>1, <2>1, RunningFacts DEF Talk
<1>5. connection[p] \in BOOLEAN /\ received[p] \in BOOLEAN
  BY DEF TypeOK
<1>6. CASE g = "main"
  <2>1. Coming(p, "io")' = "none" /\ Coming(p, "alarm")' = "none"
    BY <1>2, <1>4, <1>6 DEF Frame, Handler
  <2> QED
    BY <1>1, <1>2, <1>3, <1>4, <1>5, <1>6, <2>1 DEF Talk, Acting, Turning, Follows
<1>7. CASE g = "io"
  <2>1. Coming(p, "main")' = Coming(p, "main") /\ Coming(p, "alarm")' = Coming(p, "alarm")
    BY <1>2, <1>7 DEF Frame, Handler
  <2> QED
    BY <1>1, <1>2, <1>3, <1>5, <1>7, <2>1 DEF Talk, Acting, Turning, Follows
<1>8. CASE g = "alarm"
  <2>1. Coming(p, "main")' = Coming(p, "main") /\ Coming(p, "io")' = Coming(p, "io")
    BY <1>2, <1>8 DEF Frame, Handler
  <2> QED
    BY <1>1, <1>2, <1>3, <1>5, <1>8, <2>1 DEF Talk, Acting, Turning, Follows
<1> QED
  BY <1>2, <1>6, <1>7, <1>8 DEF Frame, Handler

LEMMA CompanyExecute ==
  ASSUME TypeOK, \A q \in Peers : Stacked(q), NEW p \in Peers, Execute(p),
         Talk(p), Company(p)
  PROVE  Company(p)'
<1>1. PICK g, t : g = Running(p) /\ t = Coming(p, g)
  OBVIOUS
<1>2. /\ g \in Frame /\ t # "none" /\ t = Head(todo[p][g])
      /\ Follows(g, t, Coming(p, g)')
      /\ \A h \in Frame : h # g => Coming(p, h)' = Coming(p, h)
      /\ Coming(p, g)' # "none" => Running(p)' = g
  BY <1>1, ExecuteLists
<1>3. /\ received'[p] = ((received[p] /\ t # "recvFalse") \/ t = "recvTrue")
      /\ t \in {"oppServer", "oppTheir"} => opp'[p] # "null"
      /\ t \notin {"oppNull", "oppServer", "oppTheir"} => opp'[p] = opp[p]
      /\ expired' = expired
  BY <1>1, <1>2, ExecuteShared
<1>4. received[p] \in BOOLEAN
  BY DEF TypeOK
<1>5. CASE g = "main"
  <2>1. Coming(p, "io") = "none"
    BY <1>1, <1>5, RunningFacts
  <2>2. Coming(p, "io")' = "none" /\ Coming(p, "alarm")' = Coming(p, "alarm")
    BY <1>2, <1>5, <2>1 DEF Frame, Handler
  <2> QED
    BY <1>1, <1>2, <1>3, <1>4, <1>5, <2>1, <2>2
       DEF Talk, Company, Acting, Turning, Follows
<1>6. CASE g = "io"
  <2>1. Coming(p, "main")' = Coming(p, "main") /\ Coming(p, "alarm")' = Coming(p, "alarm")
    BY <1>2, <1>6 DEF Frame, Handler
  <2> QED
    BY <1>1, <1>2, <1>3, <1>4, <1>6, <2>1
       DEF Talk, Company, Acting, Turning, Follows
<1>7. CASE g = "alarm"
  <2>1. Coming(p, "main")' = Coming(p, "main") /\ Coming(p, "io")' = Coming(p, "io")
    BY <1>2, <1>7 DEF Frame, Handler
  <2> QED
    BY <1>1, <1>2, <1>3, <1>4, <1>7, <2>1
       DEF Talk, Company, Acting, Turning, Follows
<1> QED
  BY <1>2, <1>5, <1>6, <1>7 DEF Frame, Handler

\* A peer that nothing happens to.
LEMMA Untouched ==
  ASSUME NEW q \in Peers,
         /\ connection'[q] = connection[q] /\ received'[q] = received[q] /\ opp'[q] = opp[q]
         /\ pc'[q] = pc[q] /\ todo'[q] = todo[q] /\ stack'[q] = stack[q]
         /\ expired'[q] = expired[q]
  PROVE  /\ Stacked(q) => Stacked(q)'
         /\ Talk(q) => Talk(q)'
         /\ Company(q) => Company(q)'
<1>1. \A f : Coming(q, f)' = Coming(q, f)
  BY DEF Coming
<1>2. Running(q)' = Running(q)
  BY DEF Running
<1>3. Acting(q)' = Acting(q) /\ Turning(q)' = Turning(q)
  BY <1>1 DEF Acting, Turning
<1> QED
  BY <1>1, <1>2, <1>3 DEF Stacked, Talk, Company

TalkOK(p) == Stacked(p) /\ (Patient => Talk(p) /\ Company(p))

\* A step of p leaves the others alone.
LEMMA OneAtATime ==
  ASSUME TalkInv, NEW p \in Peers, TalkOK(p)',
         \A q \in Peers : q # p =>
           /\ connection'[q] = connection[q] /\ received'[q] = received[q] /\ opp'[q] = opp[q]
           /\ pc'[q] = pc[q] /\ todo'[q] = todo[q] /\ stack'[q] = stack[q]
           /\ expired'[q] = expired[q]
  PROVE  TalkInv'
<1>1. ASSUME NEW q \in Peers, q # p PROVE TalkOK(q)'
  BY <1>1, Untouched DEF TalkInv, TalkOK
<1> QED
  BY <1>1 DEF TalkInv, TalkOK


LEMMA ExecuteTalk ==
  ASSUME TypeOK, TalkInv, NEW p \in Peers, Execute(p)
  PROVE  TalkInv'
<1>1. \A q \in Peers : Stacked(q)
  BY DEF TalkInv
<1>2. PICK g, t : g = Running(p) /\ t = Coming(p, g)
  OBVIOUS
<1>3. /\ t = Head(todo[p][g])
      /\ Stacked(p)'
      /\ \A q \in Peers : q # p => todo'[q] = todo[q] /\ stack'[q] = stack[q]
  BY <1>1, <1>2, ExecuteLists
<1>4. /\ \A q \in Peers : q # p =>
              /\ connection'[q] = connection[q] /\ received'[q] = received[q]
              /\ opp'[q] = opp[q]
      /\ pc' = pc /\ expired' = expired
  BY <1>2, <1>3, ExecuteShared
<1>5. TalkOK(p)'
  BY <1>1, <1>3, TalkExecute, CompanyExecute DEF TalkInv, TalkOK
<1> QED
  BY <1>3, <1>4, <1>5, OneAtATime

\* The main loop moves while no handler runs.
LEMMA TurnFacts ==
  ASSUME NEW p \in Peers, Stacked(p), MainTurn(p)
  PROVE  /\ todo[p]["main"] = <<>> /\ Running(p) = "main"
         /\ \A f \in Frame : Coming(p, f) = "none"
<1>1. todo[p]["main"] = <<>> /\ Running(p) = "main"
  BY DEF MainTurn
<1>2. Coming(p, "main") = "none"
  BY <1>1 DEF Coming, First
<1> QED
  BY <1>1, <1>2, RunningFacts DEF Frame, Handler

LEMMA MoveTalk ==
  ASSUME TypeOK, TalkInv, NEW p \in Peers, MainTurn(p),
         NEW c, pc' = [pc EXCEPT ![p] = c],
         UNCHANGED <<connection, received, opp, todo, stack, expired>>,
         Patient /\ c \in {"test", "idle", "talking", "wrong"} => received[p],
         Patient /\ c = "idle" => ~connection[p]
  PROVE  TalkInv'
<1>1. pc'[p] = c /\ \A q \in Peers : q # p => pc'[q] = pc[q]
  BY DEF TypeOK
<1>2. Stacked(p) /\ Stacked(p)'
  BY DEF TalkInv, Stacked
<1>3. todo[p]["main"] = <<>> /\ \A f \in Frame : Coming(p, f) = "none"
  BY <1>2, TurnFacts
<1>4. \A f \in Frame : Coming(p, f)' = "none"
  BY <1>3 DEF Coming
<1>5. ASSUME Patient PROVE Talk(p)'
  <2>1. Talk(p)
    BY <1>5 DEF TalkInv
  <2> QED
    BY <1>1, <1>3, <1>4, <1>5, <2>1 DEF Talk, Acting, Turning, Frame, Handler
<1>6. ASSUME Patient PROVE Company(p)'
  <2>1. Company(p)
    BY <1>6 DEF TalkInv
  <2> QED
    BY <1>3, <1>4, <2>1 DEF Company, Frame, Handler
<1>7. TalkOK(p)'
  BY <1>2, <1>5, <1>6 DEF TalkOK
<1> QED
  BY <1>1, <1>7, OneAtATime

LEMMA ReadLineTalk ==
  ASSUME TypeOK, TalkInv, NEW p \in Peers, ReadLine(p) PROVE TalkInv'
<1>1. /\ MainTurn(p) /\ pc' = [pc EXCEPT ![p] = "test"] /\ (Patient => received[p])
      /\ UNCHANGED <<connection, received, opp, todo, stack, expired>>
  BY DEF ReadLine, peer
<1> QED
  BY <1>1, MoveTalk

\* Where connection is found false, it stays so until the line is dealt with.
LEMMA TestConnectionTalk ==
  ASSUME TypeOK, TalkInv, NEW p \in Peers, TestConnection(p) PROVE TalkInv'
<1> DEFINE c == IF connection[p] THEN "talking" ELSE "idle"
<1>1. /\ MainTurn(p) /\ pc' = [pc EXCEPT ![p] = c] /\ pc[p] = "test"
      /\ UNCHANGED <<connection, received, opp, todo, stack, expired>>
  BY DEF TestConnection, peer
<1>2. Patient => received[p]
  BY <1>1 DEF TalkInv, Talk, Acting
<1>3. c = "idle" => ~connection[p]
  OBVIOUS
<1> HIDE DEF c
<1> QED
  BY <1>1, <1>2, <1>3, MoveTalk

LEMMA RepromptTalk ==
  ASSUME TypeOK, TalkInv, NEW p \in Peers, Reprompt(p) PROVE TalkInv'
<1>1. /\ MainTurn(p) /\ pc' = [pc EXCEPT ![p] = "prompt"]
      /\ UNCHANGED <<connection, received, opp, todo, stack, expired>>
  BY DEF Reprompt, peer
<1> QED
  BY <1>1, MoveTalk

\* What the main loop decides to do about a line.
LEMMA IdleStarts ==
  ASSUME NEW p \in Peers
  PROVE  /\ IdleStatements(p) \in ListsOf("main")
         /\ First(IdleStatements(p)) \in {"none", "sendOK", "sendKO", "oppServer"}
         /\ First(IdleStatements(p)) = "sendOK" => opp[p] # "null"
<1>1. CASE opp[p] # "null" /\ line[p] = "c"
  <2>1. IdleStatements(p) = <<"sendOK", "connTrue">>
    BY <1>1 DEF IdleStatements
  <2>2. First(<<"sendOK", "connTrue">>) = "sendOK"
    BY DEF First
  <2> QED
    BY <1>1, <2>1, <2>2 DEF ListsOf, Answers
<1>2. CASE opp[p] # "null" /\ line[p] = "n"
  <2>1. IdleStatements(p) = <<"sendKO", "connFalse", "oppNull">>
    BY <1>2 DEF IdleStatements
  <2>2. First(<<"sendKO", "connFalse", "oppNull">>) = "sendKO"
    BY DEF First
  <2> QED
    BY <1>2, <2>1, <2>2 DEF ListsOf, Answers
<1>3. CASE opp[p] = "null" /\ line[p] \in Peers
  <2>1. IdleStatements(p) = <<"oppServer", "sendWanna", "recvFalse", "alarm7">>
    BY <1>3 DEF IdleStatements, DialStatements
  <2>2. First(<<"oppServer", "sendWanna", "recvFalse", "alarm7">>) = "oppServer"
    BY DEF First
  <2> QED
    BY <1>3, <2>1, <2>2 DEF ListsOf, Dials
<1>4. CASE ~(opp[p] # "null" /\ line[p] \in {"c", "n"}) /\ ~(opp[p] = "null" /\ line[p] \in Peers)
  <2>1. IdleStatements(p) = <<>>
    BY <1>4 DEF IdleStatements
  <2> QED
    BY <2>1 DEF ListsOf, First
<1> QED
  BY <1>1, <1>2, <1>3, <1>4

LEMMA TalkStarts ==
  ASSUME NEW p \in Peers
  PROVE  /\ TalkStatements(p) \in ListsOf("main")
         /\ First(TalkStatements(p)) \in {"sendE", "sendD"}
<1>1. First(<<"sendE", "connFalse", "oppNull">>) = "sendE" /\ First(<<"sendD">>) = "sendD"
  BY DEF First
<1> QED
  BY <1>1 DEF TalkStatements, ListsOf, Leavings

LEMMA StartTalk ==
  ASSUME TypeOK, TalkInv, NEW p \in Peers, MainTurn(p),
         NEW ss \in ListsOf("main"),
         pc[p] \in {"idle", "talking"}, pc' = [pc EXCEPT ![p] = "prompt"],
         todo' = [todo EXCEPT ![p]["main"] = ss],
         UNCHANGED <<connection, received, opp, stack, expired>>,
         First(ss) \in {"none", "sendOK", "sendKO", "oppServer", "sendE", "sendD"},
         First(ss) \in {"sendOK", "oppServer"} => pc[p] = "idle",
         First(ss) = "sendOK" => opp[p] # "null"
  PROVE  TalkInv'
<1>1. pc'[p] = "prompt" /\ \A q \in Peers : q # p => pc'[q] = pc[q]
  BY DEF TypeOK
<1>2. /\ todo'[p]["main"] = ss
      /\ \A f \in Frame : f # "main" => todo'[p][f] = todo[p][f]
      /\ \A q \in Peers : q # p => todo'[q] = todo[q]
  BY DEF TypeOK, Frame
<1>3. Stacked(p)
  BY DEF TalkInv
<1>4. Stacked(p)'
  BY <1>2, <1>3 DEF Stacked, Frame, Handler
<1>5. \A f \in Frame : Coming(p, f) = "none"
  BY <1>3, TurnFacts
<1>6. /\ Coming(p, "main")' = First(ss)
      /\ Coming(p, "io")' = "none" /\ Coming(p, "alarm")' = "none"
  BY <1>2, <1>5 DEF Coming, Frame, Handler
<1>7. ASSUME Patient PROVE Talk(p)'
  <2>1. Talk(p)
    BY <1>7 DEF TalkInv
  <2> QED
    BY <1>1, <1>5, <1>6, <2>1 DEF Talk, Acting, Turning, Frame, Handler
<1>8. ASSUME Patient PROVE Company(p)'
  <2>1. Company(p)
    BY <1>8 DEF TalkInv
  <2> QED
    BY <1>5, <1>6, <2>1 DEF Company, Frame, Handler
<1>9. TalkOK(p)'
  BY <1>4, <1>7, <1>8 DEF TalkOK
<1> QED
  BY <1>1, <1>2, <1>9, OneAtATime

LEMMA TestOpponentTalk ==
  ASSUME TypeOK, TalkInv, NEW p \in Peers, TestOpponent(p) PROVE TalkInv'
<1>1. /\ MainTurn(p)
      /\ UNCHANGED <<connection, received, opp, stack, expired>>
  BY DEF TestOpponent
<1>2. CASE /\ pc[p] = "idle" /\ pc' = [pc EXCEPT ![p] = "gone"] /\ UNCHANGED todo
  BY <1>1, <1>2, MoveTalk
<1>3. CASE /\ pc[p] = "idle" /\ pc' = [pc EXCEPT ![p] = "prompt"]
           /\ todo' = [todo EXCEPT ![p]["main"] = IdleStatements(p)]
  <2> DEFINE ss == IdleStatements(p)
  <2>1. /\ ss \in ListsOf("main")
        /\ First(ss) \in {"none", "sendOK", "sendKO", "oppServer"}
        /\ First(ss) = "sendOK" => opp[p] # "null"
    BY IdleStarts
  <2>2. todo' = [todo EXCEPT ![p]["main"] = ss]
    BY <1>3
  <2> HIDE DEF ss
  <2> QED
    BY <1>1, <1>3, <2>1, <2>2, StartTalk
<1>4. CASE /\ pc[p] = "talking" /\ pc' = [pc EXCEPT ![p] = "prompt"]
           /\ todo' = [todo EXCEPT ![p]["main"] = TalkStatements(p)]
  <2> DEFINE ss == TalkStatements(p)
  <2>1. ss \in ListsOf("main") /\ First(ss) \in {"sendE", "sendD"}
    BY TalkStarts
  <2>2. todo' = [todo EXCEPT ![p]["main"] = ss]
    BY <1>4
  <2> HIDE DEF ss
  <2> QED
    BY <1>1, <1>4, <2>1, <2>2, StartTalk
<1>5. CASE /\ pc[p] = "talking" /\ pc' = [pc EXCEPT ![p] = "wrong"] /\ UNCHANGED todo
  <2>1. Patient => received[p]
    BY <1>5 DEF TalkInv, Talk, Acting
  <2> QED
    BY <1>1, <1>5, <2>1, MoveTalk
<1> QED
  BY <1>2, <1>3, <1>4, <1>5 DEF TestOpponent

\* A handler starts on top of whatever runs.
LEMMA InterruptTalk ==
  ASSUME TypeOK, TalkInv, NEW p \in Peers, NEW h \in Handler, NEW ss \in ListsOf(h),
         Interrupt(p, h, ss)
  PROVE  /\ Coming(p, h) = "none" /\ Coming(p, h)' = First(ss)
         /\ ss # <<>> => Running(p)' = h
         /\ ss = <<>> => Running(p)' = Running(p)
         /\ \A f \in Frame : f # h => Coming(p, f)' = Coming(p, f)
         /\ todo'[p]["main"] = todo[p]["main"]
         /\ Stacked(p)'
         /\ \A q \in Peers : q # p => todo'[q] = todo[q] /\ stack'[q] = stack[q]
<1>1. /\ \A f \in Frame : todo[p][f] \in ListsOf(f)
      /\ stack[p] \in Stacks
      /\ \A g \in Handler : Has(stack[p], g) <=> todo[p][g] # <<>>
  BY DEF TalkInv, Stacked
<1>2. /\ ~Has(stack[p], h)
      /\ todo' = [todo EXCEPT ![p][h] = ss]
      /\ stack' = IF ss = <<>> THEN stack ELSE [stack EXCEPT ![p] = <<h>> \o @]
  BY DEF Interrupt, Has
<1>3. h \in Frame /\ h # "main"
  BY DEF Frame, Handler
<1>4. /\ todo'[p][h] = ss
      /\ \A f \in Frame : f # h => todo'[p][f] = todo[p][f]
      /\ \A q \in Peers : q # p => todo'[q] = todo[q]
  BY <1>2, <1>3 DEF TypeOK
<1>5. todo[p][h] = <<>>
  BY <1>1, <1>2
<1>6. /\ Coming(p, h) = "none" /\ Coming(p, h)' = First(ss)
      /\ \A f \in Frame : f # h => Coming(p, f)' = Coming(p, f)
      /\ todo'[p]["main"] = todo[p]["main"]
  BY <1>3, <1>4, <1>5 DEF Coming, First, Frame
<1>7. CASE ss = <<>>
  <2>1. stack' = stack
    BY <1>2, <1>7
  <2>2. Running(p)' = Running(p)
    BY <2>1 DEF Running
  <2>3. Stacked(p)'
    BY <1>1, <1>2, <1>4, <1>7, <2>1 DEF Stacked, Frame
  <2> QED
    BY <1>4, <1>6, <1>7, <2>1, <2>2, <2>3
<1>8. CASE ss # <<>>
  <2>1. stack'[p] = <<h>> \o stack[p] /\ \A q \in Peers : q # p => stack'[q] = stack[q]
    BY <1>2, <1>8 DEF TypeOK
  <2>2. /\ <<h>> \o stack[p] \in Stacks
        /\ <<h>> \o stack[p] # <<>> /\ Head(<<h>> \o stack[p]) = h
        /\ \A g \in Handler : Has(<<h>> \o stack[p], g) <=> Has(stack[p], g) \/ g = h
    BY <1>1, <1>2, PushFacts
  <2>3. Running(p)' = h
    BY <2>1, <2>2 DEF Running
  <2>4. \A g \in Handler : Has(stack'[p], g) <=> todo'[p][g] # <<>>
    BY <1>1, <1>4, <1>8, <2>1, <2>2 DEF Frame
  <2>5. Stacked(p)'
    BY <1>1, <1>4, <2>1, <2>2, <2>4 DEF Stacked
  <2> QED
    BY <1>4, <1>6, <1>8, <2>1, <2>3, <2>5
<1> QED
  BY <1>7, <1>8

\* What packet_handler decides to do.
LEMMA IoStarts ==
  ASSUME NEW p \in Peers, NEW m
  PROVE  /\ HandlerStatements(p, m) \in ListsOf("io")
         /\ First(HandlerStatements(p, m)) \in {"none", "oppTheir", "recvTrue", "connFalse"}
         /\ First(HandlerStatements(p, m)) = "oppTheir" => ~connection[p]
         /\ First(HandlerStatements(p, m)) = "recvTrue" => ~connection[p] /\ ~received[p]
         /\ First(HandlerStatements(p, m)) = "connFalse" => connection[p]
         /\ First(HandlerStatements(p, m)) = "none" <=> HandlerStatements(p, m) = <<>>
<1>1. /\ First(<<"oppTheir">>) = "oppTheir" /\ First(<<"recvTrue", "connTrue">>) = "recvTrue"
      /\ First(<<"recvTrue", "connFalse", "oppNull">>) = "recvTrue"
      /\ First(<<"connFalse", "oppNull">>) = "connFalse" /\ First(<<>>) = "none"
  BY DEF First
<1>2. {<<>>, <<"oppTheir">>, <<"recvTrue", "connTrue">>, <<"recvTrue", "connFalse", "oppNull">>,
       <<"connFalse", "oppNull">>} \subseteq ListsOf("io")
  BY DEF ListsOf, Releases, Takings
<1>3. CASE ~connection[p] /\ m = "WANNATALK"
  <2>1. HandlerStatements(p, m) = <<"oppTheir">>
    BY <1>3 DEF HandlerStatements
  <2> QED
    BY <1>1, <1>2, <1>3, <2>1
<1>4. CASE ~connection[p] /\ ~received[p] /\ m = "OK"
  <2>1. HandlerStatements(p, m) = <<"recvTrue", "connTrue">>
    BY <1>4 DEF HandlerStatements
  <2> QED
    BY <1>1, <1>2, <1>4, <2>1
<1>5. CASE ~connection[p] /\ ~received[p] /\ m = "KO"
  <2>1. HandlerStatements(p, m) = <<"recvTrue", "connFalse", "oppNull">>
    BY <1>5 DEF HandlerStatements
  <2> QED
    BY <1>1, <1>2, <1>5, <2>1
<1>6. CASE connection[p] /\ m = "E"
  <2>1. HandlerStatements(p, m) = <<"connFalse", "oppNull">>
    BY <1>6 DEF HandlerStatements
  <2> QED
    BY <1>1, <1>2, <1>6, <2>1
<1>7. CASE /\ ~(~connection[p] /\ m = "WANNATALK")
           /\ ~(~connection[p] /\ ~received[p] /\ m \in {"OK", "KO"})
           /\ ~(connection[p] /\ m = "E")
  <2>1. HandlerStatements(p, m) = <<>>
    BY <1>7 DEF HandlerStatements
  <2> QED
    BY <1>1, <1>2, <2>1
<1> QED
  BY <1>3, <1>4, <1>5, <1>6, <1>7

LEMMA PacketHandlerTalk ==
  ASSUME TypeOK, TalkInv, NEW p \in Peers, PacketHandler(p) PROVE TalkInv'
<1>1. PICK d \in DOMAIN net : Interrupt(p, "io", HandlerStatements(p, d.msg))
  BY DEF PacketHandler
<1>2. /\ UNCHANGED <<connection, received, opp, pc>>
      /\ \A q \in Peers : q # p => expired'[q] = expired[q]
  BY DEF PacketHandler, TypeOK
<1> DEFINE ss == HandlerStatements(p, d.msg)
<1>3. /\ ss \in ListsOf("io")
      /\ First(ss) \in {"none", "oppTheir", "recvTrue", "connFalse"}
      /\ First(ss) = "oppTheir" => ~connection[p]
      /\ First(ss) = "recvTrue" => ~connection[p] /\ ~received[p]
      /\ First(ss) = "connFalse" => connection[p]
      /\ First(ss) = "none" <=> ss = <<>>
  BY IoStarts
<1>4. Interrupt(p, "io", ss)
  BY <1>1
<1> HIDE DEF ss
<1>5. /\ Coming(p, "io") = "none" /\ Coming(p, "io")' = First(ss)
      /\ \A f \in Frame : f # "io" => Coming(p, f)' = Coming(p, f)
      /\ todo'[p]["main"] = todo[p]["main"]
      /\ Stacked(p)'
      /\ ss # <<>> => Running(p)' = "io"
      /\ \A q \in Peers : q # p => todo'[q] = todo[q] /\ stack'[q] = stack[q]
  BY <1>3, <1>4, InterruptTalk DEF Handler
<1>6. /\ Coming(p, "main")' = Coming(p, "main")
      /\ Coming(p, "alarm")' = Coming(p, "alarm")
  BY <1>5 DEF Frame, Handler
<1>7. ASSUME Patient PROVE Talk(p)'
  <2>1. Talk(p)
    BY <1>7 DEF TalkInv
  <2> QED
    BY <1>2, <1>3, <1>5, <1>6, <2>1 DEF Talk, Acting, Turning
<1>8. ASSUME Patient PROVE Company(p)'
  <2>1. Company(p)
    BY <1>8 DEF TalkInv
  <2> QED
    BY <1>2, <1>3, <1>5, <1>6, <2>1 DEF Company
<1>9. TalkOK(p)'
  BY <1>5, <1>7, <1>8 DEF TalkOK
<1> QED
  BY <1>2, <1>5, <1>9, OneAtATime

\* The alarm comes into an answer only where it gives up an invitation.
LEMMA AlarmHandlerTalk ==
  ASSUME TypeOK, TalkInv, NEW p \in Peers, AlarmHandler(p) PROVE TalkInv'
<1> DEFINE ss == IF received[p] THEN <<>> ELSE <<"recvTrue", "connFalse", "oppNull">>
<1>1. Interrupt(p, "alarm", ss) /\ UNCHANGED <<connection, received, opp, pc>>
  BY DEF AlarmHandler
<1>2. /\ expired'[p] = (expired[p] \/ (~received[p] /\ todo[p]["io"] # <<>>))
      /\ \A q \in Peers : q # p => expired'[q] = expired[q]
  BY DEF AlarmHandler, TypeOK
<1>3. /\ ss \in ListsOf("alarm")
      /\ received[p] => First(ss) = "none"
      /\ ~received[p] => First(ss) = "recvTrue"
  <2>1. First(<<"recvTrue", "connFalse", "oppNull">>) = "recvTrue" /\ First(<<>>) = "none"
    BY DEF First
  <2> QED
    BY <2>1 DEF ListsOf, Releases
<1>4. received[p] => ss = <<>>
  OBVIOUS
<1> HIDE DEF ss
<1>5. /\ Coming(p, "alarm") = "none" /\ Coming(p, "alarm")' = First(ss)
      /\ \A f \in Frame : f # "alarm" => Coming(p, f)' = Coming(p, f)
      /\ todo'[p]["main"] = todo[p]["main"]
      /\ Stacked(p)'
      /\ ss = <<>> => Running(p)' = Running(p)
      /\ \A q \in Peers : q # p => todo'[q] = todo[q] /\ stack'[q] = stack[q]
  BY <1>1, <1>3, InterruptTalk DEF Handler
<1>6. /\ Coming(p, "main")' = Coming(p, "main")
      /\ Coming(p, "io")' = Coming(p, "io")
  BY <1>5 DEF Frame, Handler
<1>7. ASSUME Patient PROVE Talk(p)'
  <2>1. Talk(p)
    BY <1>7 DEF TalkInv
  <2> QED
    BY <1>1, <1>3, <1>5, <1>6, <2>1 DEF Talk, Acting, Turning
<1>8. ASSUME Patient PROVE Company(p)'
  <2>1. Company(p)
    BY <1>8 DEF TalkInv
  <2>2. Coming(p, "io") # "none" => todo[p]["io"] # <<>>
    BY DEF Coming, First
  <2>3. expired[p] \in BOOLEAN /\ received[p] \in BOOLEAN
    BY DEF TypeOK
  <2> QED
    BY <1>1, <1>2, <1>3, <1>4, <1>5, <1>6, <2>1, <2>2, <2>3 DEF Company
<1>9. TalkOK(p)'
  BY <1>5, <1>7, <1>8 DEF TalkOK
<1> QED
  BY <1>1, <1>2, <1>5, <1>9, OneAtATime

LEMMA InitTalk == Init => TalkInv
<1> SUFFICES ASSUME Init, NEW p \in Peers PROVE TalkOK(p)
  BY DEF TalkInv, TalkOK
<1>1. /\ \A f \in Frame : todo[p][f] = <<>>
      /\ stack[p] = <<>> /\ received[p] /\ ~connection[p] /\ pc[p] = "prompt"
  BY DEF Init
<1>2. \A f \in Frame : Coming(p, f) = "none"
  BY <1>1 DEF Coming, First
<1>3. <<>> \in Stacks /\ \A h \in Handler : ~Has(<<>>, h)
  BY DEF Stacks, Has
<1>4. Stacked(p)
  BY <1>1, <1>3 DEF Stacked, ListsOf, Frame
<1>5. Talk(p) /\ Company(p)
  BY <1>1, <1>2 DEF Talk, Company, Acting, Turning, Frame, Handler
<1> QED
  BY <1>4, <1>5 DEF TalkOK

LEMMA StepTalk == TypeOK /\ TalkInv /\ [Next]_vars => TalkInv'
<1> SUFFICES ASSUME TypeOK, TalkInv, [Next]_vars PROVE TalkInv'
  OBVIOUS
<1>1. ASSUME NEW p \in Peers, Execute(p) PROVE TalkInv'
  BY <1>1, ExecuteTalk
<1>2. ASSUME NEW p \in Peers, ReadLine(p) PROVE TalkInv'
  BY <1>2, ReadLineTalk
<1>3. ASSUME NEW p \in Peers, TestConnection(p) PROVE TalkInv'
  BY <1>3, TestConnectionTalk
<1>4. ASSUME NEW p \in Peers, TestOpponent(p) PROVE TalkInv'
  BY <1>4, TestOpponentTalk
<1>5. ASSUME NEW p \in Peers, Reprompt(p) PROVE TalkInv'
  BY <1>5, RepromptTalk
<1>6. ASSUME NEW p \in Peers, PacketHandler(p) PROVE TalkInv'
  BY <1>6, PacketHandlerTalk
<1>7. ASSUME NEW p \in Peers, AlarmHandler(p) PROVE TalkInv'
  BY <1>7, AlarmHandlerTalk
<1>8. CASE Lose \/ UNCHANGED vars
  <2>1. UNCHANGED <<connection, received, opp, pc, todo, stack, expired>>
    BY <1>8 DEF Lose, peer, vars
  <2> QED
    BY <2>1, Untouched DEF TalkInv
<1> QED
  BY <1>1, <1>2, <1>3, <1>4, <1>5, <1>6, <1>7, <1>8 DEF Next

LEMMA TalkInductive == Spec => [](TypeOK /\ TalkInv)
<1>1. TypeOK /\ TalkInv /\ [Next]_vars => TalkInv'
  BY StepTalk
<1> QED
  BY <1>1, InitTalk, TypeOKAlways, PTL DEF Spec

\* For any peers and any number of lines: if users wait for the answer to their
\* invitation, a conversation with nobody comes up only by a statement of a
\* packet_handler during whose call the alarm has given up the invitation.
THEOREM WedgeNeedsExpiryAlways == Spec => WedgeNeedsExpiry
<1>1. ASSUME TypeOK, TalkInv, Next, Patient,
             NEW p \in Peers, Wedged(p)', ~Wedged(p)
      PROVE  Running(p) = "io" /\ expired[p]
  <2>1. ASSUME NEW q \in Peers, Execute(q) PROVE Running(p) = "io" /\ expired[p]
    <3>1. \A r \in Peers : Stacked(r)
      BY <1>1 DEF TalkInv
    <3>2. PICK g, t : g = Running(q) /\ t = Coming(q, g)
      OBVIOUS
    <3>3. /\ g \in Frame /\ t = Head(todo[q][g])
          /\ Follows(g, t, Coming(q, g)')
      BY <1>1, <2>1, <3>1, <3>2, ExecuteLists
    <3>4. /\ connection'[q] = ((connection[q] /\ t # "connFalse") \/ t = "connTrue")
          /\ t \in {"oppServer", "oppTheir"} => opp'[q] # "null"
          /\ t \notin {"oppNull", "oppServer", "oppTheir"} => opp'[q] = opp[q]
          /\ p # q => connection'[p] = connection[p] /\ opp'[p] = opp[p]
      BY <1>1, <2>1, <3>2, <3>3, ExecuteShared
    <3>5. p = q /\ t \in {"oppNull", "connTrue"}
      BY <1>1, <3>4 DEF Wedged
    <3>6. Talk(p) /\ Company(p)
      BY <1>1 DEF TalkInv
    <3>7. t # "oppNull"
      BY <1>1, <3>2, <3>3, <3>4, <3>5, <3>6 DEF Talk, Turning, Wedged, Frame, Handler
    <3>8. t = "connTrue" /\ opp[p] = "null"
      BY <1>1, <3>4, <3>5, <3>7 DEF Wedged
    <3> QED
      BY <3>2, <3>3, <3>5, <3>6, <3>8 DEF Company, Follows, Frame, Handler
  <2>2. ASSUME NEW q \in Peers, ~Execute(q),
               \/ ReadLine(q) \/ TestConnection(q) \/ TestOpponent(q) \/ Reprompt(q)
               \/ PacketHandler(q) \/ AlarmHandler(q)
        PROVE  connection' = connection /\ opp' = opp
    BY <2>2 DEF ReadLine, TestConnection, TestOpponent, Reprompt, PacketHandler,
                AlarmHandler, peer
  <2>3. Lose => connection' = connection /\ opp' = opp
    BY DEF Lose, peer
  <2> QED
    BY <1>1, <2>1, <2>2, <2>3 DEF Next, Wedged
<1>2. ASSUME UNCHANGED vars, NEW p \in Peers PROVE Wedged(p)' => Wedged(p)
  BY <1>2 DEF vars, Wedged
<1>3. TypeOK /\ TalkInv /\ [Next]_vars =>
        [Patient => \A p \in Peers :
           Wedged(p)' => Wedged(p) \/ (Running(p) = "io" /\ expired[p])]_vars
  BY <1>1, <1>2
<1> QED
  BY <1>3, TalkInductive, PTL DEF Spec, WedgeNeedsExpiry

\* For any peers and any number of lines: if users wait, no statement of the
\* main loop, of packet_handler or of the alarm handler moves the pointer of a
\* conversation that goes on.
THEOREM ConversationKeepsOpponent == Spec => ConversationKept
<1>1. ASSUME TypeOK, TalkInv, Next, Patient,
             NEW p \in Peers, connection[p], connection'[p]
      PROVE  opp'[p] = opp[p]
  <2>1. ASSUME NEW q \in Peers, Execute(q) PROVE opp'[p] = opp[p]
    <3>1. \A r \in Peers : Stacked(r)
      BY <1>1 DEF TalkInv
    <3>2. PICK g, t : g = Running(q) /\ t = Coming(q, g)
      OBVIOUS
    <3>3. /\ g \in Frame /\ t = Head(todo[q][g])
          /\ Follows(g, t, Coming(q, g)')
      BY <1>1, <2>1, <3>1, <3>2, ExecuteLists
    <3>4. /\ t \notin {"oppNull", "oppServer", "oppTheir"} => opp'[q] = opp[q]
          /\ p # q => opp'[p] = opp[p]
      BY <1>1, <2>1, <3>2, <3>3, ExecuteShared
    <3>5. p = q => t \notin {"oppNull", "oppServer", "oppTheir"}
      <4>1. Talk(p)
        BY <1>1 DEF TalkInv
      <4> QED
        BY <1>1, <3>2, <3>3, <4>1 DEF Talk, Turning, Follows, Frame, Handler
    <3> QED
      BY <3>4, <3>5
  <2>2. ASSUME NEW q \in Peers, ~Execute(q),
               \/ ReadLine(q) \/ TestConnection(q) \/ TestOpponent(q) \/ Reprompt(q)
               \/ PacketHandler(q) \/ AlarmHandler(q)
        PROVE  opp' = opp
    BY <2>2 DEF ReadLine, TestConnection, TestOpponent, Reprompt, PacketHandler,
                AlarmHandler, peer
  <2>3. CASE Lose
    BY <2>3 DEF Lose, peer
  <2> QED
    BY <1>1, <2>1, <2>2, <2>3 DEF Next
<1>2. TypeOK /\ TalkInv /\ [Next]_vars =>
        [Patient => \A p \in Peers : connection[p] /\ connection'[p] => opp'[p] = opp[p]]_vars
  BY <1>1
<1> QED
  BY <1>2, TalkInductive, PTL DEF Spec, ConversationKept
=============================================================================
