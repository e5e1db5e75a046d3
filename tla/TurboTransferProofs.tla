------------------------ MODULE TurboTransferProofs -------------------------
(***************************************************************************)
(* The turbo transfer keeps the promise of FileTransfer, for every file of *)
(* fewer blocks than words a memset clears, every block size, loss pattern *)
(* and number of losses, when the network duplicates nothing; and whatever *)
(* it duplicates, only the first block of a reported file can be wrong.    *)
(***************************************************************************)
EXTENDS TurboProofs

\* A NACK is shorter than the part of its array that the memset clears.
Fewer == NumPackets < Cleared

Blocks == 0 .. NumPackets - 1

BlockMsgs == {DataMsg(s) : s \in Blocks}

Nacks == {NackMsg(w) : w \in Seq(Blocks)}

Requests == {Request(k) : k \in {"request", "badrequest"}}

\* At most one datagram is in flight, once.
Single(net) ==
  \A d \in DOMAIN net : net[d] = 1 /\ \A e \in DOMAIN net : d = e

\* Before the first pass the two sides take turns, so that a request, the size
\* and an ACK are each read where they are expected or nowhere.
Handshake ==
  /\ spc = "request" =>
       /\ cpc \in {"start", "size"} /\ ~from
       /\ DOMAIN toServer \subseteq Requests /\ Single(toServer)
       /\ DOMAIN toClient = {}
       /\ cpc = "start" => DOMAIN toServer = {}
  /\ spc = "refused" => cpc = "size" /\ DOMAIN toServer = {} /\ DOMAIN toClient = {}
  /\ spc = "ack" =>
       /\ ~from
       /\ \/ /\ cpc = "size" /\ DOMAIN toServer = {}
             /\ DOMAIN toClient \subseteq {SizeMsg} /\ Single(toClient)
          \/ /\ cpc \in {"recv", "aborted"} /\ DOMAIN toClient = {}
             /\ DOMAIN toServer \subseteq {AckMsg} /\ Single(toServer)
  /\ spc \in {"pass", "nack", "done", "aborted"} =>
       /\ cpc \in {"recv", "done", "aborted"}
       /\ DOMAIN toServer \subseteq Nacks \cup {FinalMsg}
       /\ DOMAIN toClient \subseteq BlockMsgs

\* Only blocks of the file are asked for, sent and kept.
Content ==
  /\ control \in Seq(Blocks)
  /\ cpc \in {"recv", "done"} => fileSize = FileSize
  /\ cpc # "crashed" /\ garbage = {}
  /\ pktsRcvd \subseteq Blocks

Clean == Handshake /\ Content

-----------------------------------------------------------------------------
\* One datagram in flight.

LEMMA PutInEmpty ==
  ASSUME NEW net, DOMAIN net = {}, NEW d
  PROVE  DOMAIN Put(net, d) = {d} /\ Single(Put(net, d))
BY DEF Put, Single

LEMMA TakeFromSingle ==
  ASSUME NEW net, Single(net), NEW d \in DOMAIN net
  PROVE  DOMAIN Take(net, d) = {}
BY DEF Take, Single

LEMMA TakeDomain ==
  ASSUME NEW net, NEW d \in DOMAIN net
  PROVE  DOMAIN Take(net, d) \subseteq DOMAIN net
BY DEF Take

LEMMA TakeSingle ==
  ASSUME NEW net, Single(net), NEW d \in DOMAIN net
  PROVE  Single(Take(net, d))
BY TakeFromSingle DEF Single

LEMMA PutDomain ==
  ASSUME NEW net, NEW d
  PROVE  DOMAIN Put(net, d) = DOMAIN net \cup {d}
BY DEF Put

\* Once the first pass has begun.
Underway == spc \in {"pass", "nack", "done", "aborted"}

LEMMA SpcPlaces ==
  ASSUME IInv
  PROVE  spc \in {"request", "refused", "ack"} \/ Underway
BY DEF IInv, TypeOK, ServerTypeOK, Underway

LEMMA InitClean == Init => Clean
<1> SUFFICES ASSUME Init PROVE Clean
  OBVIOUS
<1>1. DOMAIN toServer = {} /\ DOMAIN toClient = {} /\ spc = "request" /\ cpc = "start" /\ ~from
  BY DEF Init, NoDatagrams
<1>2. Handshake
  BY <1>1 DEF Handshake, Single
<1>3. control \in Seq(Blocks) /\ garbage = {} /\ pktsRcvd = {}
  BY DEF Init
<1> QED
  BY <1>1, <1>2, <1>3 DEF Clean, Content

-----------------------------------------------------------------------------
\* The server.

\* What leaves Content alone.
LEMMA ContentStays == Content /\ UNCHANGED <<control, client>> => Content'
BY DEF Content, client

LEMMA CleanRecvRequest == IInv /\ Clean /\ ServerRecvRequest => Clean'
<1> SUFFICES ASSUME IInv, Clean, ServerRecvRequest PROVE Clean'
  OBVIOUS
<1>1. PICK d \in DOMAIN toServer : toServer' = Take(toServer, d)
  BY DEF ServerRecvRequest
<1>2. /\ spc = "request" /\ cpc = "size" /\ ~from
      /\ DOMAIN toClient = {} /\ Single(toServer)
  BY <1>1 DEF Clean, Handshake, ServerRecvRequest
<1>3. DOMAIN toServer' = {}
  BY <1>1, <1>2, TakeFromSingle
<1>4. \/ spc' = "refused" /\ toClient' = toClient
      \/ spc' = "ack" /\ (toClient' = toClient \/ toClient' = Put(toClient, SizeMsg))
  BY DEF ServerRecvRequest, DropSend
<1>5. cpc' = "size" /\ ~from'
  BY <1>2 DEF ServerRecvRequest, client
<1>6. DOMAIN toClient' \subseteq {SizeMsg} /\ Single(toClient')
      /\ (spc' = "refused" => DOMAIN toClient' = {})
  <2>1. CASE toClient' = toClient
    BY <1>2, <2>1 DEF Single
  <2>2. CASE spc' = "ack" /\ toClient' = Put(toClient, SizeMsg)
    <3>1. DOMAIN Put(toClient, SizeMsg) = {SizeMsg} /\ Single(Put(toClient, SizeMsg))
      BY <1>2, PutInEmpty
    <3> QED
      BY <2>2, <3>1
  <2> QED
    BY <1>4, <2>1, <2>2
<1>7. Handshake'
  BY <1>3, <1>4, <1>5, <1>6 DEF Handshake
<1> QED
  BY <1>7, ContentStays DEF Clean, ServerRecvRequest

LEMMA CleanRecvAck == IInv /\ Clean /\ ServerRecvAck => Clean'
<1> SUFFICES ASSUME IInv, Clean, ServerRecvAck PROVE Clean'
  OBVIOUS
<1>1. PICK d \in DOMAIN toServer : toServer' = Take(toServer, d)
  BY DEF ServerRecvAck
<1>2. cpc \in {"recv", "aborted"} /\ DOMAIN toClient = {} /\ Single(toServer)
  BY <1>1 DEF Clean, Handshake, ServerRecvAck
<1>3. DOMAIN toServer' = {} /\ DOMAIN toClient' = {}
  BY <1>1, <1>2, TakeFromSingle DEF ServerRecvAck
<1>4. spc' \in {"aborted", "pass"} /\ cpc' \in {"recv", "aborted"}
  BY <1>2 DEF ServerRecvAck, client
<1>5. Handshake'
  BY <1>3, <1>4 DEF Handshake
<1> QED
  BY <1>5, ContentStays DEF Clean, ServerRecvAck

\* A block goes out, or is swallowed.
LEMMA DropSendBlock ==
  ASSUME DOMAIN toClient \subseteq BlockMsgs, NEW s \in Blocks, NEW t, NEW l,
         DropSend(DataMsg(s), t, l)
  PROVE  DOMAIN toClient' \subseteq BlockMsgs
<1>1. toClient' = toClient \/ toClient' = Put(toClient, DataMsg(s))
  BY DEF DropSend
<1>2. DataMsg(s) \in BlockMsgs
  BY DEF BlockMsgs
<1>3. DOMAIN Put(toClient, DataMsg(s)) = DOMAIN toClient \cup {DataMsg(s)}
  BY PutDomain
<1> QED
  BY <1>1, <1>2, <1>3

LEMMA CleanPass == IInv /\ Clean /\ ServerPass => Clean'
<1> SUFFICES ASSUME IInv, Clean, ServerPass PROVE Clean'
  OBVIOUS
<1>1. /\ spc = "pass" /\ FileSize > 0 /\ currSeq \in 0 .. NumPackets + 1
      /\ NumPackets \in Nat /\ NumPackets >= 1
  BY ConstantFacts, PacketCountFacts
     DEF ServerPass, IInv, Phases, TypeOK, ServerTypeOK, NumPackets
<1>2. /\ cpc \in {"recv", "done", "aborted"}
      /\ DOMAIN toServer \subseteq Nacks \cup {FinalMsg}
      /\ DOMAIN toClient \subseteq BlockMsgs
  BY <1>1 DEF Clean, Handshake
<1>3. DOMAIN toClient' \subseteq BlockMsgs
  <2>1. CASE UNCHANGED toClient
    BY <1>2, <2>1
  <2>2. CASE /\ currSeq < PassEnd
             /\ DropSend(DataMsg(IF currSeq < NumPackets THEN currSeq ELSE currSeq - 1),
                         TotalNum, LossNum)
    <3>1. (IF currSeq < NumPackets THEN currSeq ELSE currSeq - 1) \in Blocks
      BY <1>1, <2>2 DEF Blocks, PassEnd
    <3> QED
      BY <1>2, <2>2, <3>1, DropSendBlock
  <2> QED
    BY <2>1, <2>2 DEF ServerPass
<1>4. spc' \in {"pass", "nack"} /\ cpc' = cpc /\ toServer' = toServer
  BY <1>1 DEF ServerPass, client
<1>5. Handshake'
  BY <1>2, <1>3, <1>4 DEF Handshake
<1> QED
  BY <1>5, ContentStays DEF Clean, ServerPass

LEMMA CleanRecvNack == IInv /\ Clean /\ ServerRecvNack => Clean'
<1> SUFFICES ASSUME IInv, Clean, ServerRecvNack PROVE Clean'
  OBVIOUS
<1>1. PICK d \in DOMAIN toServer :
        /\ toServer' = Take(toServer, d)
        /\ \/ IsFinal(d) /\ spc' = "done" /\ UNCHANGED control
           \/ ~IsFinal(d) /\ spc' = spc /\ control' \in ControlAfter(d)
  BY DEF ServerRecvNack
<1>2. /\ spc = "nack" /\ cpc \in {"recv", "done", "aborted"}
      /\ DOMAIN toServer \subseteq Nacks \cup {FinalMsg}
      /\ DOMAIN toClient \subseteq BlockMsgs
  BY DEF Clean, Handshake, ServerRecvNack
<1>3. spc' \in {"nack", "done"} /\ cpc' = cpc /\ toClient' = toClient
  BY <1>1, <1>2 DEF ServerRecvNack, client
<1>4. Handshake'
  BY <1>1, <1>2, <1>3, TakeDomain DEF Handshake
<1>5. control' \in Seq(Blocks)
  <2>1. CASE UNCHANGED control
    BY <2>1 DEF Clean, Content
  <2>2. CASE ~IsFinal(d) /\ control' \in ControlAfter(d)
    <3>1. d # FinalMsg
      BY <2>2 DEF IsFinal, FinalMsg
    <3>2. d \in Nacks
      BY <1>2, <3>1
    <3>3. d.kind = "nack" /\ d.words \in Seq(Blocks)
      BY <3>2 DEF Nacks, NackMsg
    <3> QED
      BY <2>2, <3>3 DEF ControlAfter
  <2> QED
    BY <1>1, <2>1, <2>2
<1>6. Content'
  BY <1>5 DEF Clean, Content, ServerRecvNack, client
<1> QED
  BY <1>4, <1>6 DEF Clean

LEMMA CleanResend == IInv /\ Clean /\ ServerResend => Clean'
<1> SUFFICES ASSUME IInv, Clean, ServerResend PROVE Clean'
  OBVIOUS
<1>1. /\ spc = "nack" /\ cpc \in {"recv", "done", "aborted"}
      /\ DOMAIN toServer \subseteq Nacks \cup {FinalMsg}
      /\ DOMAIN toClient \subseteq BlockMsgs
  BY DEF Clean, Handshake, ServerResend
<1>2. control \in Seq(Blocks) /\ control # <<>>
  BY DEF Clean, Content, ServerResend
<1>3. Head(control) \in Blocks /\ Tail(control) \in Seq(Blocks)
  BY <1>2
<1>4. Head(control) < NumPackets
  BY <1>3, WordFacts DEF Blocks
<1>5. DropSend(DataMsg(Head(control)), TotalNum, LossNum)
  BY <1>4 DEF ServerResend
<1>6. DOMAIN toClient' \subseteq BlockMsgs
  BY <1>1, <1>3, <1>5, DropSendBlock
<1>7. spc' = spc /\ cpc' = cpc /\ toServer' = toServer /\ control' = Tail(control)
  BY DEF ServerResend, client
<1>8. Handshake'
  BY <1>1, <1>6, <1>7 DEF Handshake
<1>9. Content'
  BY <1>3, <1>7 DEF Clean, Content, ServerResend, client
<1> QED
  BY <1>8, <1>9 DEF Clean

-----------------------------------------------------------------------------
\* The client.

LEMMA CleanRequest == IInv /\ Clean /\ ClientRequest => Clean'
<1> SUFFICES ASSUME IInv, Clean, ClientRequest PROVE Clean'
  OBVIOUS
<1>1. spc = "request" /\ ~from /\ DOMAIN toServer = {} /\ DOMAIN toClient = {}
  BY SpcPlaces DEF Underway, Clean, Handshake, ClientRequest
<1>2. PICK k \in {"request", "badrequest"} : toServer' = Put(toServer, Request(k))
  BY DEF ClientRequest
<1>3. DOMAIN Put(toServer, Request(k)) = {Request(k)} /\ Single(Put(toServer, Request(k)))
  BY <1>1, PutInEmpty
<1>4. DOMAIN toServer' \subseteq Requests /\ Single(toServer')
  BY <1>2, <1>3 DEF Requests
<1>5. spc' = "request" /\ cpc' = "size" /\ from' = from /\ toClient' = toClient
  BY <1>1 DEF ClientRequest, server
<1>6. Handshake'
  BY <1>1, <1>4, <1>5 DEF Handshake
<1>7. Content'
  BY <1>5 DEF Clean, Content, ClientRequest, server
<1> QED
  BY <1>6, <1>7 DEF Clean

\* The size is read as the size.
LEMMA CleanRecvSize == IInv /\ Clean /\ ClientRecvSize => Clean'
<1> SUFFICES ASSUME IInv, Clean, ClientRecvSize PROVE Clean'
  OBVIOUS
<1>1. PICK d \in DOMAIN toClient :
        /\ toClient' = Take(toClient, d)
        /\ fileSize' \in IF d.kind = "empty" THEN 0 .. FileSize ELSE {d.seq}
  BY DEF ClientRecvSize
<1>2. /\ spc = "ack" /\ ~from /\ DOMAIN toServer = {}
      /\ d = SizeMsg /\ Single(toClient)
  BY <1>1, SpcPlaces DEF Underway, Clean, Handshake, ClientRecvSize
<1>3. DOMAIN toClient' = {}
  BY <1>1, <1>2, TakeFromSingle
<1>4. fileSize' = FileSize
  BY <1>1, <1>2 DEF SizeMsg
<1>5. DOMAIN Put(toServer, AckMsg) = {AckMsg} /\ Single(Put(toServer, AckMsg))
  BY <1>2, PutInEmpty
<1>6. DOMAIN toServer' = {AckMsg} /\ Single(toServer')
  BY <1>5 DEF ClientRecvSize
<1>7. cpc' \in {"recv", "aborted"} /\ spc' = "ack" /\ ~from'
  BY <1>2 DEF ClientRecvSize, server
<1>8. Handshake'
  BY <1>3, <1>6, <1>7 DEF Handshake
<1>9. Content'
  BY <1>4, <1>7 DEF Clean, Content, ClientRecvSize, server
<1> QED
  BY <1>8, <1>9 DEF Clean

\* What a client that waits for blocks can find.
LEMMA FindsBlock ==
  ASSUME IInv, Clean, cpc = "recv", NEW d \in DOMAIN toClient
  PROVE  /\ Underway
         /\ d \in BlockMsgs /\ d.kind = "data" /\ d.seq \in Blocks
         /\ fileSize = FileSize /\ FileSize > 0 /\ totPkts = NumPackets
         /\ BlockBytes(d.seq) >= 0
<1>1. Underway /\ d \in BlockMsgs
  BY SpcPlaces DEF Underway, Clean, Handshake
<1>2. d.kind = "data" /\ d.seq \in Blocks
  BY <1>1 DEF BlockMsgs, DataMsg
<1>3. fileSize = FileSize /\ FileSize > 0 /\ totPkts = NumPackets
  BY DEF Clean, Content, IInv, Phases, totPkts, NumPackets
<1>4. BlockBytes(d.seq) >= 0
  <2>1. /\ NumPackets \in Nat /\ NumPackets >= 1
        /\ (NumPackets - 1) * BlockSize < FileSize
    BY <1>3, ConstantFacts, PacketCountFacts DEF NumPackets
  <2>2. d.seq \in Nat /\ d.seq <= NumPackets - 1
    BY <1>2, <2>1 DEF Blocks
  <2>3. CASE d.seq < NumPackets - 1
    BY <1>3, <2>3, ConstantFacts DEF BlockBytes
  <2>4. CASE d.seq = NumPackets - 1
    <3>1. BlockBytes(d.seq) = FileSize - (NumPackets - 1) * BlockSize
      BY <1>3, <2>1, <2>4 DEF BlockBytes
    <3>2. (NumPackets - 1) * BlockSize \in Nat
      BY <2>1, ConstantFacts
    <3> QED
      BY <2>1, <3>1, <3>2, ConstantFacts
  <2> QED
    BY <2>1, <2>2, <2>3, <2>4
<1> QED
  BY <1>1, <1>2, <1>3, <1>4

LEMMA CleanIgnore == ASSUME NEW d PROVE IInv /\ Clean /\ ClientIgnore(d) => Clean'
<1> SUFFICES ASSUME IInv, Clean, ClientIgnore(d) PROVE Clean'
  OBVIOUS
<1>1. d \in DOMAIN toClient /\ cpc = "recv" /\ Underway
  BY FindsBlock DEF ClientIgnore
<1>2. DOMAIN toClient' \subseteq DOMAIN toClient
  BY <1>1, TakeDomain DEF ClientIgnore
<1>3. spc' = spc /\ cpc' = cpc /\ toServer' = toServer
  BY DEF ClientIgnore, server
<1>4. Handshake'
  BY <1>1, <1>2, <1>3 DEF Clean, Handshake, Underway
<1>5. Content'
  BY DEF Clean, Content, ClientIgnore, server
<1> QED
  BY <1>4, <1>5 DEF Clean

LEMMA FinalsDomain == DOMAIN Finals(toServer) = DOMAIN toServer \cup {FinalMsg}
<1>1. DOMAIN Put(toServer, FinalMsg) = DOMAIN toServer \cup {FinalMsg}
  BY PutDomain
<1>2. DOMAIN Put(Put(toServer, FinalMsg), FinalMsg) = DOMAIN toServer \cup {FinalMsg}
  BY <1>1, PutDomain
<1>3. DOMAIN Put(Put(Put(toServer, FinalMsg), FinalMsg), FinalMsg)
        = DOMAIN Put(Put(toServer, FinalMsg), FinalMsg) \cup {FinalMsg}
  BY PutDomain
<1> QED
  BY <1>2, <1>3 DEF Finals

LEMMA CleanKeep == ASSUME NEW d PROVE IInv /\ Clean /\ ClientKeep(d) => Clean'
<1> SUFFICES ASSUME IInv, Clean, ClientKeep(d) PROVE Clean'
  OBVIOUS
<1>1. /\ d \in DOMAIN toClient /\ cpc = "recv" /\ Underway
      /\ d.kind = "data" /\ d.seq \in Blocks /\ fileSize = FileSize
  BY FindsBlock DEF ClientKeep
<1>2. DOMAIN toClient' \subseteq DOMAIN toClient
  BY <1>1, TakeDomain DEF ClientKeep
<1>3. DOMAIN toServer' \subseteq DOMAIN toServer \cup {FinalMsg}
  BY FinalsDomain DEF ClientKeep
<1>4. spc' = spc /\ cpc' \in {"recv", "done"} /\ fileSize' = fileSize
  BY <1>1 DEF ClientKeep, server
<1>5. Handshake'
  BY <1>1, <1>2, <1>3, <1>4 DEF Clean, Handshake, Underway
<1>6. Content'
  BY <1>1, <1>4 DEF Clean, Content, ClientKeep, server
<1> QED
  BY <1>5, <1>6 DEF Clean

LEMMA NoCrash == ASSUME NEW d PROVE IInv /\ Clean => ~ClientCrash(d)
<1> SUFFICES ASSUME IInv, Clean, ClientCrash(d) PROVE FALSE
  OBVIOUS
<1>1. cpc = "recv" /\ d \in DOMAIN toClient
  BY DEF ClientCrash
<1>2. BlockBytes(d.seq) >= 0 /\ d.kind = "data" /\ d.seq \in Blocks
      /\ fileSize = FileSize /\ totPkts = NumPackets
  BY <1>1, FindsBlock
<1>3. BlockBytes(d.seq) \in Int
  BY <1>2, ConstantFacts, WordFacts DEF BlockBytes, Blocks
<1> QED
  BY <1>2, <1>3 DEF ClientCrash

\* A list of blocks that the memset ends asks for blocks of the file only.
LEMMA CleanNack == IInv /\ Clean /\ Fewer /\ ClientNack => Clean'
<1> SUFFICES ASSUME IInv, Clean, Fewer, ClientNack PROVE Clean'
  OBVIOUS
<1>1. cpc = "recv" /\ Underway /\ fileSize = FileSize
  BY SpcPlaces DEF Clean, Handshake, Content, Underway, ClientNack
<1>2. totPkts = NumPackets /\ NumPackets \in Nat
  BY <1>1, WordFacts DEF totPkts, NumPackets
<1>3. Missing \subseteq Blocks /\ Missing = Missing \cap 0 .. NumPackets - 1
  BY <1>2 DEF Missing, Blocks
<1>4. Cardinality(Missing) \in Nat /\ Cardinality(Missing) <= NumPackets
  BY <1>2, <1>3, Full
<1>5. PICK w \in NackLists : \E t \in NackTails(w) :
        toServer' = Put(Put(toServer, NackMsg(w \o t)), NackMsg(w \o t))
  BY DEF ClientNack
<1> DEFINE num == IF Cardinality(Missing) < BlockSize THEN Cardinality(Missing) ELSE BlockSize
<1>6. num \in Nat /\ num <= NumPackets
  BY <1>2, <1>4, ConstantFacts
<1>7. w \in [1 .. num -> Missing]
  BY <1>5 DEF NackLists
<1> HIDE DEF num
<1>8. w \in Seq(Blocks) /\ Len(w) = num
  <2>1. w \in [1 .. num -> Blocks]
    BY <1>3, <1>7
  <2> QED
    BY <1>6, <2>1
<1>9. NackTails(w) = {<<>>}
  BY <1>2, <1>6, <1>8, ClearedFacts DEF NackTails, Fewer
<1>10. w \o <<>> = w
  BY <1>8
<1>11. toServer' = Put(Put(toServer, NackMsg(w)), NackMsg(w))
  BY <1>5, <1>9, <1>10
<1>12. DOMAIN toServer' = DOMAIN toServer \cup {NackMsg(w)}
  <2>1. DOMAIN Put(toServer, NackMsg(w)) = DOMAIN toServer \cup {NackMsg(w)}
    BY PutDomain
  <2>2. DOMAIN Put(Put(toServer, NackMsg(w)), NackMsg(w))
          = DOMAIN Put(toServer, NackMsg(w)) \cup {NackMsg(w)}
    BY PutDomain
  <2> QED
    BY <1>11, <2>1, <2>2
<1>13. NackMsg(w) \in Nacks
  BY <1>8 DEF Nacks
<1>14. spc' = spc /\ cpc' = cpc /\ toClient' = toClient /\ UNCHANGED <<control, client>>
  BY DEF ClientNack, server, client
<1>15. Handshake'
  BY <1>1, <1>12, <1>13, <1>14 DEF Clean, Handshake, Underway
<1> QED
  BY <1>14, <1>15, ContentStays DEF Clean

LEMMA CleanNackNowhere == IInv /\ Clean /\ ClientNackNowhere => Clean'
<1> SUFFICES ASSUME IInv, Clean, ClientNackNowhere PROVE Clean'
  OBVIOUS
<1>1. cpc = "recv" /\ cpc' = "aborted" /\ spc' = spc /\ from' = from
      /\ toServer' = toServer /\ toClient' = toClient
  BY DEF ClientNackNowhere, server, network
<1>2. spc = "ack" \/ Underway
  BY <1>1, SpcPlaces DEF Clean, Handshake
<1>3. Handshake'
  BY <1>1, <1>2 DEF Clean, Handshake, Underway, Single
<1>4. Content'
  BY <1>1 DEF Clean, Content, ClientNackNowhere, server
<1> QED
  BY <1>3, <1>4 DEF Clean

-----------------------------------------------------------------------------
\* The network.

LEMMA CleanLose == IInv /\ Clean /\ Lose => Clean'
<1> SUFFICES ASSUME IInv, Clean, Lose PROVE Clean'
  OBVIOUS
<1>1. spc' = spc /\ cpc' = cpc /\ from' = from /\ UNCHANGED <<control, client>>
  BY DEF Lose, server, client
<1>2. /\ DOMAIN toServer' \subseteq DOMAIN toServer
      /\ DOMAIN toClient' \subseteq DOMAIN toClient
      /\ Single(toServer) => Single(toServer')
      /\ Single(toClient) => Single(toClient')
  <2>1. CASE UNCHANGED toClient /\ \E d \in DOMAIN toServer : toServer' = Take(toServer, d)
    BY <2>1, TakeDomain, TakeSingle
  <2>2. CASE UNCHANGED toServer /\ \E d \in DOMAIN toClient : toClient' = Take(toClient, d)
    BY <2>2, TakeDomain, TakeSingle
  <2> QED
    BY <2>1, <2>2 DEF Lose
<1>3. Handshake'
  <2>1. CASE spc \in {"request", "refused"}
    BY <1>1, <1>2, <2>1 DEF Clean, Handshake
  <2>2. CASE spc = "ack"
    BY <1>1, <1>2, <2>2 DEF Clean, Handshake
  <2>3. CASE Underway
    BY <1>1, <1>2, <2>3 DEF Clean, Handshake, Underway
  <2> QED
    BY <2>1, <2>2, <2>3, SpcPlaces
<1> QED
  BY <1>1, <1>3, ContentStays DEF Clean

-----------------------------------------------------------------------------
CleanIfCareful == dups = 0 /\ Fewer => Clean

LEMMA StepClean == IInv /\ CleanIfCareful /\ [Next]_vars => CleanIfCareful'
<1> SUFFICES ASSUME IInv, CleanIfCareful, [Next]_vars, dups' = 0, Fewer PROVE Clean'
  BY DEF CleanIfCareful, Fewer
<1>1. dups \in Nat
  BY ConstantFacts DEF IInv, TypeOK, NetworkTypeOK
<1>2. ~Duplicate
  BY <1>1 DEF Duplicate
<1>3. dups = 0
  BY <1>1, <1>2
     DEF Next, vars, ServerRecvRequest, ServerRecvAck, ServerPass, ServerRecvNack,
         ServerResend, ClientRequest, ClientRecvSize, ClientRecv, ClientIgnore,
         ClientKeep, ClientCrash, ClientNack, ClientNackNowhere, network, Lose
<1>4. Clean
  BY <1>3 DEF CleanIfCareful
<1>5. ASSUME NEW d \in ClientBound, ClientRecv(d) PROVE Clean'
  BY <1>4, <1>5, CleanIgnore, CleanKeep, NoCrash DEF ClientRecv
<1>6. CASE UNCHANGED vars
  BY <1>4, <1>6 DEF vars, Clean, Handshake, Content, Single
<1> QED
  BY <1>2, <1>4, <1>5, <1>6, CleanRecvRequest, CleanRecvAck, CleanPass,
     CleanRecvNack, CleanResend, CleanRequest, CleanRecvSize, CleanNack,
     CleanNackNowhere, CleanLose DEF Next

LEMMA AlwaysClean == Spec => []CleanIfCareful
<1>1. Init => CleanIfCareful
  BY InitClean DEF CleanIfCareful
<1> QED
  BY <1>1, StepClean, Inductive, PTL DEF Spec

\* Without duplicates and with NACKs that the memset ends, the client was told
\* the true size, does not crash, and writes only blocks of the file.
THEOREM IntegrityAlways == Spec => []Integrity
<1>1. CleanIfCareful => Integrity
  BY DEF CleanIfCareful, Fewer, Clean, Content, Integrity
<1> QED
  BY <1>1, AlwaysClean, PTL

-----------------------------------------------------------------------------
\* The refinement.

\* All the blocks are all the bytes.
LEMMA AllBytes ==
  ASSUME NEW size \in Nat, size > 0
  PROVE  BytesOf(0 .. PacketCount(size) - 1, size) = size
<1> DEFINE n == PacketCount(size) - 1
           I == 0 .. n - 1
<1>1. n \in Nat /\ n * BlockSize < size /\ n - 1 = PacketCount(size) - 2
  BY PacketCountFacts
<1>2. (0 .. n) \cap I = I /\ n \in 0 .. n
  BY <1>1
<1>3. Cardinality(I) = n
  BY <1>1, FS_Interval
<1>4. BytesOf(0 .. n, size) = BlockSize * Cardinality((0 .. n) \cap I) + (size - n * BlockSize)
  BY <1>1, <1>2 DEF BytesOf
<1> HIDE DEF I
<1>5. BytesOf(0 .. n, size) = BlockSize * n + (size - n * BlockSize)
  BY <1>2, <1>3, <1>4
<1>6. PacketCount(size) - 1 = n
  OBVIOUS
<1> HIDE DEF n
<1>7. BlockSize * n = n * BlockSize /\ n * BlockSize \in Nat
  BY <1>1, ConstantFacts
<1> QED
  BY <1>5, <1>6, <1>7

\* The client receives one block, and reports exactly with the last.
LEMMA KeepReceives ==
  ASSUME IInv, Clean, NEW d, ClientKeep(d)
  PROVE  Transfer!Next
<1>1. /\ d \in DOMAIN toClient /\ cpc = "recv" /\ d.seq \in Blocks
      /\ fileSize = FileSize /\ FileSize > 0 /\ totPkts = NumPackets
  BY FindsBlock DEF ClientKeep
<1>2. IInv' /\ Clean'
  BY KeepStep, CleanKeep
<1>3. /\ d.seq \notin pktsRcvd /\ pktsRcvd' = pktsRcvd \cup {d.seq}
      /\ fileSize' = fileSize /\ spc' = spc
  BY DEF ClientKeep, IsNew, server
<1>4. cpc' = "done" <=> recvSize' >= fileSize
  BY <1>1 DEF ClientKeep
<1>5. cpc' = "done" => pktsRcvd' = Blocks
  <2>1. pktsRcvd' \subseteq Blocks
    BY <1>2 DEF Clean, Content
  <2>2. cpc' = "done" => Blocks \subseteq pktsRcvd'
    BY <1>1, <1>2, <1>3 DEF IInv, DoneMeansComplete, totPkts, Blocks
  <2> QED
    BY <2>1, <2>2
<1>6. pktsRcvd' = Blocks => cpc' = "done"
  <2>1. cpc' \in {"recv", "done"}
    BY <1>1 DEF ClientKeep
  <2>2. recvSize' = BytesOf(pktsRcvd', FileSize)
    BY <1>1, <1>2, <1>3, <2>1 DEF IInv, RecvSizeExact, MarkedBytes, totPkts, BytesOf
  <2>3. BytesOf(Blocks, FileSize) = FileSize
    BY <1>1, ConstantFacts, AllBytes DEF Blocks, NumPackets
  <2> QED
    BY <1>1, <1>4, <2>2, <2>3, ConstantFacts
<1>7. (cpc' = "done") = (pktsRcvd' = Blocks)
  BY <1>5, <1>6
<1>8. Transfer!Receive(d.seq)
  BY <1>3, <1>7 DEF Transfer!Receive, Blocks
<1> QED
  BY <1>1, <1>8 DEF Transfer!Next, Blocks

\* Nothing else receives or reports.
LEMMA OthersStutter ==
  ASSUME UNCHANGED <<pktsRcvd, cpc>> \/ (UNCHANGED pktsRcvd /\ cpc # "done" /\ cpc' # "done"),
         spc' = "done" <=> spc = "done"
  PROVE  UNCHANGED Transfer!vars
BY DEF Transfer!vars

\* The server leaves a client that has reported.
LEMMA RecvNackLeaves ==
  ASSUME IInv, ServerRecvNack
  PROVE  Transfer!Next \/ UNCHANGED Transfer!vars
<1>1. spc = "nack" /\ UNCHANGED <<pktsRcvd, cpc>> /\ spc' \in {"nack", "done"}
  BY DEF ServerRecvNack, client
<1>2. CASE spc' = "nack"
  BY <1>1, <1>2, OthersStutter
<1>3. CASE spc' = "done"
  <2>1. cpc = "done"
    BY <1>1, <1>3, RecvNackStep DEF IInv, ServerLeavesLast
  <2> QED
    BY <1>1, <1>3, <2>1 DEF Transfer!Next, Transfer!Leave
<1> QED
  BY <1>1, <1>2, <1>3

LEMMA StepTransfer ==
  ASSUME IInv, Clean, [Next]_vars
  PROVE  Transfer!Next \/ UNCHANGED Transfer!vars
<1>1. CASE ServerRecvRequest \/ ServerRecvAck \/ ServerPass \/ ServerResend
  <2>1. UNCHANGED <<pktsRcvd, cpc>> /\ spc # "done" /\ spc' # "done"
    BY <1>1 DEF ServerRecvRequest, ServerRecvAck, ServerPass, ServerResend, client
  <2> QED
    BY <2>1, OthersStutter
<1>2. CASE ServerRecvNack
  BY <1>2, RecvNackLeaves
<1>3. CASE ClientRequest \/ ClientRecvSize \/ ClientNackNowhere
  <2>1. UNCHANGED <<pktsRcvd, spc>> /\ cpc # "done" /\ cpc' # "done"
    BY <1>3 DEF ClientRequest, ClientRecvSize, ClientNackNowhere, server
  <2> QED
    BY <2>1, OthersStutter
<1>4. ASSUME NEW d \in ClientBound, ClientRecv(d)
      PROVE  Transfer!Next \/ UNCHANGED Transfer!vars
  <2>1. CASE ClientKeep(d)
    BY <2>1, KeepReceives
  <2>2. CASE ClientIgnore(d)
    <3>1. UNCHANGED <<pktsRcvd, cpc, spc>>
      BY <2>2 DEF ClientIgnore, server
    <3> QED
      BY <3>1, OthersStutter
  <2> QED
    BY <1>4, <2>1, <2>2, NoCrash DEF ClientRecv
<1>5. CASE ClientNack \/ Lose \/ Duplicate \/ UNCHANGED vars
  <2>1. UNCHANGED <<pktsRcvd, cpc, spc>>
    BY <1>5 DEF ClientNack, Lose, Duplicate, vars, server, client
  <2> QED
    BY <2>1, OthersStutter
<1> QED
  BY <1>1, <1>2, <1>3, <1>4, <1>5 DEF Next

\* Whatever is lost and overtaken, without duplicates by the network the client
\* collects each block of the server's file once and reports exactly with the
\* last, and the server leaves after it.
THEOREM TransferImplemented ==
  ASSUME MaxDup = 0, NumPackets < Cleared
  PROVE  Spec => TransferSpec
<1>1. Init => Transfer!Init
  BY DEF Init, Transfer!Init
<1>2. IInv /\ CleanIfCareful /\ [Next]_vars => [Transfer!Next]_Transfer!vars
  <2> SUFFICES ASSUME IInv, CleanIfCareful, [Next]_vars
               PROVE  Transfer!Next \/ UNCHANGED Transfer!vars
    OBVIOUS
  <2>1. dups = 0
    BY DEF IInv, TypeOK, NetworkTypeOK
  <2>2. Clean
    BY <2>1 DEF CleanIfCareful, Fewer
  <2> QED
    BY <2>2, StepTransfer
<1> QED
  BY <1>1, <1>2, Inductive, AlwaysClean, PTL DEF Spec, TransferSpec, Transfer!Spec

-----------------------------------------------------------------------------
\* Blocks that are none.

\* No block of the file has the number that is read from the size.
LEMMA SizeIsNoBlock == FileSize \notin 0 .. NumPackets - 1
<1> SUFFICES ASSUME FileSize \in 0 .. NumPackets - 1 PROVE FALSE
  OBVIOUS
<1>1. NumPackets \in Nat /\ NumPackets >= 1 /\ FileSize <= NumPackets - 1
  BY WordFacts, ConstantFacts
<1>2. CASE FileSize = 0
  <2>1. NumPackets = (BlockSize - 1) \div BlockSize
    BY <1>2, ConstantFacts DEF NumPackets, PacketCount
  <2>2. NumPackets * BlockSize <= BlockSize - 1
    BY <2>1, ConstantFacts, Division
  <2>3. 1 * BlockSize <= NumPackets * BlockSize /\ NumPackets * BlockSize \in Nat
    BY <1>1, ConstantFacts, TimesMonotonic
  <2> QED
    BY <2>2, <2>3, ConstantFacts
<1>3. CASE FileSize > 0
  <2>1. (NumPackets - 1) * BlockSize < FileSize
    BY <1>3, ConstantFacts, PacketCountFacts DEF NumPackets
  <2>2. (NumPackets - 1) * 1 <= (NumPackets - 1) * BlockSize
    BY <1>1, ConstantFacts
  <2>3. (NumPackets - 1) * BlockSize \in Nat
    BY <1>1, ConstantFacts
  <2> QED
    BY <1>1, <2>1, <2>2, <2>3, ConstantFacts
<1> QED
  BY <1>2, <1>3, ConstantFacts

\* A datagram that carries no block is read as block 0, or as the size.
GarbageNumbers == garbage \subseteq {0, FileSize}

LEMMA StepGarbage == IInv /\ GarbageNumbers /\ [Next]_vars => GarbageNumbers'
<1> SUFFICES ASSUME IInv, GarbageNumbers, [Next]_vars PROVE GarbageNumbers'
  OBVIOUS
<1>1. ASSUME NEW d \in ClientBound, ClientKeep(d) PROVE GarbageNumbers'
  <2>1. d.kind # "data" => d.seq \in {0, FileSize}
    BY DEF ClientBound, SizeMsg, EmptyMsg, DataMsg
  <2> QED
    BY <1>1, <2>1 DEF ClientKeep, GarbageNumbers
<1>2. ASSUME NEW d \in ClientBound, ClientIgnore(d) \/ ClientCrash(d) PROVE GarbageNumbers'
  BY <1>2 DEF ClientIgnore, ClientCrash, GarbageNumbers
<1>3. CASE \/ ServerRecvRequest \/ ServerRecvAck \/ ServerPass \/ ServerRecvNack
           \/ ServerResend \/ ClientRequest \/ ClientRecvSize \/ ClientNack
           \/ ClientNackNowhere \/ Lose \/ Duplicate \/ UNCHANGED vars
  <2>1. UNCHANGED garbage
    BY <1>3 DEF ServerRecvRequest, ServerRecvAck, ServerPass, ServerRecvNack,
         ServerResend, ClientRequest, ClientRecvSize, ClientNack,
         ClientNackNowhere, Lose, Duplicate, vars, client
  <2> QED
    BY <2>1 DEF GarbageNumbers
<1> QED
  BY <1>1, <1>2, <1>3 DEF Next, ClientRecv

\* Whatever is duplicated and whatever stale words the two sides read: of a
\* reported file of the true size only the first block can be wrong.
THEOREM OnlyBlockZeroSuspectAlways == Spec => []OnlyBlockZeroSuspect
<1>1. Init => GarbageNumbers
  BY DEF Init, GarbageNumbers
<1>2. GarbageNumbers => OnlyBlockZeroSuspect
  BY SizeIsNoBlock DEF GarbageNumbers, OnlyBlockZeroSuspect
<1> QED
  BY <1>1, <1>2, StepGarbage, Inductive, PTL DEF Spec
=============================================================================
