-------------------------------- MODULE Turbo -------------------------------
(***************************************************************************)
(* The NACK-based UDP file transfer of src/lab6: turboserver.c (main,      *)
(* nackhandle, dropsendto), turboclient.c (start_turbo_client) and the     *)
(* network between one server process and one client.                      *)
(*                                                                         *)
(* The server answers a request with the file's size, waits for an ACK,    *)
(* sends every block once, then serves lists of missing blocks (NACKs)     *)
(* until one starts with -1.  The client sends a NACK after 100 ms of      *)
(* silence, three -1 messages when it holds recvSize >= fileSize bytes,    *)
(* and ends.  Datagrams may overtake one another, be lost (up to MaxLost)  *)
(* and be duplicated (up to MaxDup); the server's own loss injector drops  *)
(* more.                                                                   *)
(***************************************************************************)
EXTENDS Integers, Sequences, FiniteSets, LossInjector, Datagrams

CONSTANTS
  FileSize,    \* finfo.st_size, in bytes
  BlockSize,   \* BLOCKSIZE of configfile.dat: bytes of a block and words of a NACK
  TotalNum,    \* 1000, the period of the loss injector
  LossNum,     \* LOSS_NUM, the server's fourth argument
  EmptyTotal,  \* 10 \ the pair the injector is called with for
  EmptyLoss,   \*  9 / an empty answer
  MaxStale,    \* bound on the uninitialised words read from a control array
  MaxNacks,    \* bound on the different NACKs in flight
  MaxLost,     \* bound on the datagrams the network loses
  MaxDup       \* bound on the datagrams the network duplicates

ASSUME TurboAssumption ==
  /\ FileSize \in Nat
  /\ BlockSize \in Nat /\ BlockSize >= 4
  /\ TotalNum \in Nat /\ TotalNum > 1
  /\ LossNum \in Nat
  /\ EmptyTotal \in Nat /\ EmptyTotal > 1 /\ EmptyTotal < TotalNum
  /\ EmptyLoss \in Nat
  /\ LossCap > LossNum /\ LossCap > EmptyLoss
  /\ MaxStale \in Nat
  /\ MaxNacks \in Nat
  /\ MaxLost \in Nat
  /\ MaxDup \in Nat

\* The number of blocks a file of the given size takes: numPackets in the
\* server, totPkts in the client.
PacketCount(size) == (size + BlockSize - 1) \div BlockSize

NumPackets == PacketCount(FileSize)

\* bzero(control, BLOCKSIZE) and memset(control, -2, BLOCKSIZE) clear BLOCKSIZE
\* bytes of an array of BLOCKSIZE 4-byte words: this many words.
Cleared == BlockSize \div 4

\* A word of a control array: a block of the file, or Beyond for every number
\* past the last block.
Beyond == NumPackets
Word == 0 .. Beyond

\* What the words nobody wrote may hold, up to the first negative one.
StaleWords(room) ==
  UNION {[1 .. n -> Word] : n \in {k \in 0 .. MaxStale : k <= room}}

\* Server to client.  seq is what atoi finds at the start of the payload: the
\* size, the block's number, or 0 in the zeroed buffer of an empty datagram.
SizeMsg   == [kind |-> "size",  seq |-> FileSize]
DataMsg(s) == [kind |-> "data",  seq |-> s]
\* Mutation of EmptyMsg: the client's buffer keeps the text of an earlier block.
EmptyMsgStaleBuffer == [kind |-> "empty", seq |-> NumPackets - 1]

EmptyMsg == [kind |-> "empty", seq |-> 0]

ClientBound == {SizeMsg, EmptyMsg} \cup {DataMsg(s) : s \in 0 .. NumPackets - 1}

\* Client to server.  words is what nackhandle finds in its array of ints: the
\* text of a request or of "ACK" is a number past every block, one here for all
\* the words that a request fills.  (Its product with BLOCKSIZE wraps at 2^32; of
\* files so large that it wraps into the file nothing is said here.)
Request(kind) == [kind |-> kind,   words |-> <<Beyond>>]
AckMsg        == [kind |-> "ack",   words |-> <<Beyond>>]
NackMsg(w)    == [kind |-> "nack",  words |-> w]
FinalMsg      == [kind |-> "final", words |-> << -1 >>]

VARIABLES
  \* the server process
  spc,        \* where it is: request, ack, pass, nack, done, refused, aborted
  currSeq,    \* the next block of the first pass
  control,    \* the words of the NACK being served, still to be read
  counters,   \* packet_counter and loss_counter
  \* the client process
  cpc,        \* where it is: start, size, recv, done, aborted, crashed
  fileSize,   \* the size it was told
  pktsRcvd,   \* the blocks it has marked as received
  garbage,    \* the blocks it wrote from a datagram that carried no block
  recvSize,   \* the bytes it has counted
  from,       \* recvfrom has filled in the address NACKs go to
  \* the network: for each datagram in flight, its number of copies
  toServer,
  toClient,
  lost,
  dups

server  == <<spc, currSeq, control, counters>>
client  == <<cpc, fileSize, pktsRcvd, garbage, recvSize, from>>
network == <<toServer, toClient, lost, dups>>
vars    == <<spc, currSeq, control, counters, cpc, fileSize, pktsRcvd, garbage,
             recvSize, from, toServer, toClient, lost, dups>>

-----------------------------------------------------------------------------
Init ==
  /\ spc = "request"
  /\ currSeq = 0
  /\ control = <<>>
  /\ counters = FreshCounters
  /\ cpc = "start"
  /\ fileSize = 0
  /\ pktsRcvd = {}
  /\ garbage = {}
  /\ recvSize = 0
  /\ from = FALSE
  /\ toServer = NoDatagrams
  /\ toClient = NoDatagrams
  /\ lost = 0
  /\ dups = 0

-----------------------------------------------------------------------------
\* The server.

\* One call of dropsendto.
DropSend(d, totalnum, lossnum) ==
  /\ counters' = DropSendTo(counters, totalnum, lossnum)
  /\ toClient' = IF Passes(counters, totalnum) THEN Put(toClient, d) ELSE toClient

\* main: the first recvfrom.  A wrong key or an unusable file name ends the
\* process without an answer; otherwise the size goes out, once.
ServerRecvRequest ==
  /\ spc = "request"
  /\ \E d \in DOMAIN toServer :
       /\ toServer' = Take(toServer, d)
       /\ \/ /\ d.kind = "badrequest"
             /\ spc' = "refused"
             /\ UNCHANGED <<counters, toClient>>
          \/ /\ d.kind # "badrequest"
             /\ spc' = "ack"
             /\ DropSend(SizeMsg, TotalNum, LossNum)
  /\ UNCHANGED <<client, currSeq, control, lost, dups>>

\* main: the blocking recv of the handshake takes any datagram for the ACK.
\* mmap of an empty file fails and the process exits.
ServerRecvAck ==
  /\ spc = "ack"
  /\ \E d \in DOMAIN toServer : toServer' = Take(toServer, d)
  /\ spc' = IF FileSize = 0 THEN "aborted" ELSE "pass"
  /\ UNCHANGED <<client, currSeq, control, counters, toClient, lost, dups>>

\* Mutation of PassEnd: one round too many.
PassEndLate == NumPackets + 2

\* The value of currSeq that ends the first pass.
PassEnd == NumPackets + 1

\* main: one round of the first pass.  At currSeq = numPackets the buffer of
\* the last round goes out once more; at numPackets + 1 the pass is over.
ServerPass ==
  /\ spc = "pass"
  /\ \/ /\ currSeq < PassEnd
        /\ DropSend(DataMsg(IF currSeq < NumPackets THEN currSeq ELSE currSeq - 1),
                    TotalNum, LossNum)
        /\ currSeq' = currSeq + 1
        /\ spc' = spc
     \/ /\ currSeq = PassEnd
        /\ spc' = "nack"
        /\ UNCHANGED <<currSeq, counters, toClient>>
  /\ UNCHANGED <<client, control, toServer, lost, dups>>

\* What nackhandle's control array may hold after recvfrom.  A NACK fills all of
\* it; a shorter datagram leaves the cleared words 0 and the rest as it was.
ControlAfter(d) ==
  IF d.kind = "nack" THEN {d.words}
  ELSE {d.words \o [i \in 1 .. Cleared - 1 |-> 0] \o t : t \in StaleWords(BlockSize - Cleared)}

\* Mutation of IsFinal: any first word that is not positive.
IsFinalNotPositive(d) == d.words[1] <= 0

\* control[0] == -1
IsFinal(d) == d.words[1] = -1

\* nackhandle: recvfrom.  A first word of -1 ends the server.
ServerRecvNack ==
  /\ spc = "nack"
  /\ control = <<>>
  /\ \E d \in DOMAIN toServer :
       /\ toServer' = Take(toServer, d)
       /\ \/ /\ IsFinal(d)
             /\ spc' = "done"
             /\ UNCHANGED control
          \/ /\ ~IsFinal(d)
             /\ spc' = spc
             /\ control' \in ControlAfter(d)
  /\ UNCHANGED <<client, currSeq, counters, toClient, lost, dups>>

\* nackhandle: one round of the loop over the words.  A block of the file is
\* sent again, a word past the last block is answered with no bytes at all.
ServerResend ==
  /\ spc = "nack"
  /\ control # <<>>
  /\ IF Head(control) < NumPackets
       THEN DropSend(DataMsg(Head(control)), TotalNum, LossNum)
       ELSE DropSend(EmptyMsg, EmptyTotal, EmptyLoss)
  /\ control' = Tail(control)
  /\ UNCHANGED <<client, spc, currSeq, toServer, lost, dups>>

-----------------------------------------------------------------------------
\* The client.

ClientRequest ==
  /\ cpc = "start"
  /\ cpc' = "size"
  /\ \E k \in {"request", "badrequest"} : toServer' = Put(toServer, Request(k))
  /\ UNCHANGED <<server, fileSize, pktsRcvd, garbage, recvSize, from, toClient, lost, dups>>

\* The read that expects the size: atoi of whatever came, of an uninitialised
\* buffer if nothing was in it.  The ACK goes out before the size is looked at;
\* lseek to -1 fails for a size of 0.  What an uninitialised buffer may say is
\* bounded by the size of the file.
ClientRecvSize ==
  /\ cpc = "size"
  /\ \E d \in DOMAIN toClient :
       /\ toClient' = Take(toClient, d)
       /\ fileSize' \in IF d.kind = "empty" THEN 0 .. FileSize ELSE {d.seq}
  /\ cpc' = IF fileSize' = 0 THEN "aborted" ELSE "recv"
  /\ toServer' = Put(toServer, AckMsg)
  /\ UNCHANGED <<server, pktsRcvd, garbage, recvSize, from, lost, dups>>

totPkts == PacketCount(fileSize)

\* The bytes of block s: what memcpy is asked to copy and recvSize grows by (the
\* wrap of seq*BLOCKSIZE at 2^32 is left out).
BlockBytes(s) == IF s < totPkts - 1 THEN BlockSize ELSE fileSize - s * BlockSize

\* Mutation of IsNew: the check of pktsRcvd is dropped.
IsNewAlways(d) == TRUE

\* pktsRcvd[seq] == 0
IsNew(d) == d.seq \notin pktsRcvd

\* Mutation of Finals: -1 is sent once.
FinalsOnce(net) == Put(net, FinalMsg)

\* -1, three times.  The file is reported before the first; an error of the second
\* or third, the server having left, is not told from their loss.
Finals(net) == Put(Put(Put(net, FinalMsg), FinalMsg), FinalMsg)

\* recvfrom of a block the client has: nothing but the address is kept.
ClientIgnore(d) ==
  /\ cpc = "recv"
  /\ d \in DOMAIN toClient
  /\ d.seq \in pktsRcvd
  /\ from' = TRUE
  /\ toClient' = Take(toClient, d)
  /\ UNCHANGED <<server, cpc, fileSize, pktsRcvd, garbage, recvSize, toServer, lost, dups>>

\* recvfrom of a new block: mark it, copy it, count it; at fileSize bytes send
\* -1 three times, report the file and end.
ClientKeep(d) ==
  /\ cpc = "recv"
  /\ d \in DOMAIN toClient
  /\ IsNew(d)
  /\ BlockBytes(d.seq) >= 0
  /\ from' = TRUE
  /\ toClient' = Take(toClient, d)
  /\ pktsRcvd' = pktsRcvd \cup {d.seq}
  /\ garbage' = IF d.kind = "data" THEN garbage ELSE garbage \cup {d.seq}
  /\ recvSize' = recvSize + BlockBytes(d.seq)
  /\ IF recvSize' >= fileSize
       THEN /\ cpc' = "done"
            /\ toServer' = Finals(toServer)
       ELSE UNCHANGED <<cpc, toServer>>
  /\ UNCHANGED <<server, fileSize, lost, dups>>

\* memcpy with a negative size, or the search for '|' in a datagram without
\* one running off the stack.
ClientCrash(d) ==
  /\ cpc = "recv"
  /\ d \in DOMAIN toClient
  /\ IsNew(d)
  /\ BlockBytes(d.seq) < 0 \/ d.kind # "data"
  /\ cpc' = "crashed"
  /\ toClient' = Take(toClient, d)
  /\ UNCHANGED <<server, fileSize, pktsRcvd, garbage, recvSize, from, toServer, lost, dups>>

\* Mutation of Missing: the loop stops one block short.
MissingButLast == {s \in 0 .. totPkts - 2 : s \notin pktsRcvd}

\* The blocks a NACK can ask for.
Missing == {s \in 0 .. totPkts - 1 : s \notin pktsRcvd}

\* The first BLOCKSIZE missing blocks, in ascending order.
NackLists ==
  LET num == IF Cardinality(Missing) < BlockSize THEN Cardinality(Missing) ELSE BlockSize
  IN {w \in [1 .. num -> Missing] :
        /\ \A i, j \in 1 .. num : i < j => w[i] < w[j]
        /\ \A s \in Missing : s < w[num] => \E i \in 1 .. num : w[i] = s}

\* Mutation of NackTails: without the memset.
NackTailsUncleared(w) == StaleWords(BlockSize - Len(w))

\* The words of the array after the list: negative if the memset reached the
\* first of them, otherwise whatever the stack held.
NackTails(w) ==
  IF Len(w) < Cleared THEN {<<>>} ELSE StaleWords(BlockSize - Len(w))

\* pselect times out: the list of missing blocks goes out twice.
ClientNack ==
  /\ cpc = "recv"
  /\ from
  /\ Missing # {}
  /\ Cardinality({d \in DOMAIN toServer : d.kind = "nack"}) < MaxNacks
  /\ \E w \in NackLists : \E t \in NackTails(w) :
       toServer' = Put(Put(toServer, NackMsg(w \o t)), NackMsg(w \o t))
  /\ UNCHANGED <<server, client, toClient, lost, dups>>

\* pselect times out before any block has come: the NACK goes to an
\* uninitialised address.  sendto refuses it and the client exits, or the
\* datagram reaches nobody and nothing changes.
ClientNackNowhere ==
  /\ cpc = "recv"
  /\ ~from
  /\ cpc' = "aborted"
  /\ UNCHANGED <<server, fileSize, pktsRcvd, garbage, recvSize, from, network>>

-----------------------------------------------------------------------------
\* The network.

Lose ==
  /\ lost < MaxLost
  /\ lost' = lost + 1
  /\ \/ /\ \E d \in DOMAIN toServer : toServer' = Take(toServer, d)
        /\ UNCHANGED toClient
     \/ /\ \E d \in DOMAIN toClient : toClient' = Take(toClient, d)
        /\ UNCHANGED toServer
  /\ UNCHANGED <<server, client, dups>>

Duplicate ==
  /\ dups < MaxDup
  /\ dups' = dups + 1
  /\ \/ /\ \E d \in DOMAIN toServer : toServer' = Put(toServer, d)
        /\ UNCHANGED toClient
     \/ /\ \E d \in DOMAIN toClient : toClient' = Put(toClient, d)
        /\ UNCHANGED toServer
  /\ UNCHANGED <<server, client, lost>>

-----------------------------------------------------------------------------
ServerRecv == ServerRecvRequest \/ ServerRecvAck \/ ServerRecvNack

ClientRecv(d) == ClientIgnore(d) \/ ClientKeep(d) \/ ClientCrash(d)

Next ==
  \/ ServerRecvRequest
  \/ ServerRecvAck
  \/ ServerPass
  \/ ServerRecvNack
  \/ ServerResend
  \/ ClientRequest
  \/ ClientRecvSize
  \/ \E d \in ClientBound : ClientRecv(d)
  \/ ClientNack
  \/ ClientNackNowhere
  \/ Lose
  \/ Duplicate

Spec == Init /\ [][Next]_vars

\* Both processes run, a datagram that is not lost is read in the end (the
\* socket queue is a FIFO), and pselect does time out.  Nothing makes the
\* network lose or duplicate, nor the user start the client.
Fairness ==
  /\ WF_vars(ServerPass)
  /\ WF_vars(ServerResend)
  /\ WF_vars(ServerRecv)
  /\ WF_vars(ClientRecvSize)
  /\ \A d \in ClientBound : WF_vars(ClientRecv(d))
  /\ WF_vars(ClientNack)

FairSpec == Spec /\ Fairness

-----------------------------------------------------------------------------
\* Properties.

ServerBound ==
  {FinalMsg} \cup
    [kind : {"request", "badrequest", "ack", "nack"}, words : Seq(Word) \ {<<>>}]

ServerTypeOK ==
  /\ spc \in {"request", "ack", "pass", "nack", "done", "refused", "aborted"}
  /\ currSeq \in 0 .. NumPackets + 1
  /\ control \in Seq(Word)
  /\ counters \in [packet : Nat, loss : Nat]

ClientTypeOK ==
  /\ cpc \in {"start", "size", "recv", "done", "aborted", "crashed"}
  /\ fileSize \in 0 .. FileSize
  /\ pktsRcvd \subseteq 0 .. FileSize
  /\ garbage \subseteq pktsRcvd
  /\ recvSize \in Nat
  /\ from \in BOOLEAN

NetworkTypeOK ==
  /\ DOMAIN toServer \subseteq ServerBound
  /\ \A d \in DOMAIN toServer : toServer[d] \in 1 .. Copies
  /\ DOMAIN toClient \subseteq ClientBound
  /\ \A d \in DOMAIN toClient : toClient[d] \in 1 .. Copies
  /\ lost \in 0 .. MaxLost
  /\ dups \in 0 .. MaxDup

\* TypeOK: the types of the variables.  Only the -1 messages start with a
\* negative word.
TypeOK == ServerTypeOK /\ ClientTypeOK /\ NetworkTypeOK

\* The bytes of the blocks the client has marked, each counted once.
MarkedBytes ==
  BlockSize * Cardinality(pktsRcvd \cap 0 .. totPkts - 2)
    + (IF totPkts - 1 \in pktsRcvd THEN fileSize - (totPkts - 1) * BlockSize ELSE 0)

\* recvSize, the counter the client's end hangs on, is the size of the blocks it
\* has marked: no duplicate, retransmission or empty answer is counted twice.
RecvSizeExact == cpc \in {"recv", "done"} => recvSize = MarkedBytes

\* When the client reports the file it holds every block of the size it was
\* told: reaching fileSize bytes cannot happen with a block missing.
DoneMeansComplete == cpc = "done" => 0 .. totPkts - 1 \subseteq pktsRcvd

\* The server ends on a -1 only, and only a client that has the whole file sent
\* one: no leftover of a control array is taken for it.
ServerLeavesLast == spc = "done" => cpc = "done"

\* Without duplication by the network, and with fewer blocks than words the
\* memset clears, what the client assembles is the server's file: it was told
\* the true size, no block comes from an empty datagram and nothing crashes it.
Integrity ==
  dups = 0 /\ NumPackets < Cleared =>
    /\ cpc = "recv" \/ cpc = "done" => fileSize = FileSize
    /\ cpc # "crashed"
    /\ garbage = {}

\* Whatever the network duplicates and the stack holds, a client that reports a
\* file of the true size can have got only its first block wrong.
OnlyBlockZeroSuspect ==
  cpc = "done" /\ fileSize = FileSize => garbage \cap 0 .. NumPackets - 1 \subseteq {0}

\* The transfer, seen from outside: without duplication it is a FileTransfer.
Transfer == INSTANCE FileTransfer WITH
  Blocks   <- 0 .. NumPackets - 1,
  received <- pktsRcvd,
  reported <- cpc = "done",
  left     <- spc = "done"
TransferSpec == Transfer!Spec

\* Once one block has come (before that the client has no address to complain
\* to), it gets the whole file however the injector and the network drop blocks
\* and NACKs.
Completes == (cpc = "recv" /\ from) ~> (cpc = "done")

\* With fewer losses than -1 messages, the server ends too.
ServerEnds == (cpc = "done") ~> (spc = "done")

\* The loop for the initial SYN/ACK gets the size to a client that waits for it.
SynAckRetried == (spc = "ack" /\ cpc = "size") ~> (cpc # "size")
=============================================================================
