---------------------------- MODULE TurboProofs -----------------------------
(***************************************************************************)
(* The turbo transfer, for every file size, block size, loss pattern and   *)
(* number of losses and duplicates.                                        *)
(***************************************************************************)
EXTENDS Turbo, FiniteSetTheorems, TLAPS

\* What the places of the two processes say about the rest of the state.
Phases ==
  /\ spc \in {"pass", "nack", "done"} => FileSize > 0
  /\ cpc \in {"start", "size"} => pktsRcvd = {} /\ recvSize = 0
  /\ cpc \in {"recv", "done"} => fileSize > 0
  /\ FinalMsg \in DOMAIN toServer => cpc = "done"

IInv == TypeOK /\ Phases /\ ServerLeavesLast /\ RecvSizeExact /\ DoneMeansComplete

-----------------------------------------------------------------------------
\* Arithmetic.

LEMMA Division ==
  ASSUME NEW a \in Nat, NEW b \in Nat, b > 0
  PROVE  /\ a \div b \in Nat
         /\ (a \div b) * b <= a
         /\ a < (a \div b) * b + b
OBVIOUS

LEMMA TimesMonotonic ==
  ASSUME NEW i \in Nat, NEW j \in Nat, NEW b \in Nat, i <= j
  PROVE  i * b <= j * b
OBVIOUS

LEMMA ConstantFacts ==
  /\ FileSize \in Nat
  /\ BlockSize \in Nat /\ BlockSize >= 4
  /\ Copies \in Nat /\ Copies >= 1
  /\ MaxLost \in Nat /\ MaxDup \in Nat
BY TurboAssumption, CopiesAssumption

\* The number of blocks of a file of the given size: the last one is not empty
\* and the file ends in it.
LEMMA PacketCountFacts ==
  ASSUME NEW size \in Nat, size > 0
  PROVE  /\ PacketCount(size) \in Nat
         /\ PacketCount(size) >= 1
         /\ (PacketCount(size) - 1) * BlockSize < size
         /\ size <= PacketCount(size) * BlockSize
<1> DEFINE n == PacketCount(size)
<1>1. size + BlockSize - 1 \in Nat /\ BlockSize \in Nat /\ BlockSize > 0
  BY ConstantFacts
<1>2. n = (size + BlockSize - 1) \div BlockSize
  BY DEF PacketCount
<1> HIDE DEF n
<1>3. n \in Nat /\ n * BlockSize <= size + BlockSize - 1 /\ size + BlockSize - 1 < n * BlockSize + BlockSize
  BY <1>1, <1>2, Division
<1>4. n >= 1
  <2>1. n = 0 => n * BlockSize = 0
    BY <1>1
  <2> QED
    BY <1>1, <1>3, <2>1
<1>5. (n - 1) * BlockSize = n * BlockSize - BlockSize
  BY <1>1, <1>3
<1>6. (n - 1) * BlockSize < size /\ size <= n * BlockSize
  <2>1. n * BlockSize \in Nat
    BY <1>1, <1>3
  <2> QED
    BY <1>1, <1>3, <1>5, <2>1
<1> QED
  BY <1>3, <1>4, <1>6 DEF n

LEMMA PacketCountNat ==
  ASSUME NEW size \in Nat
  PROVE  PacketCount(size) \in Nat
<1>1. size + BlockSize - 1 \in Nat /\ BlockSize \in Nat /\ BlockSize > 0
  BY ConstantFacts
<1> QED
  BY <1>1, Division DEF PacketCount

\* A file has no more blocks than bytes.
LEMMA SeqBelowFileSize == NumPackets \in Nat /\ 0 .. NumPackets - 1 \subseteq 0 .. FileSize
<1>1. NumPackets \in Nat
  BY ConstantFacts, PacketCountNat DEF NumPackets
<1>2. NumPackets - 1 <= FileSize
  <2>1. CASE FileSize = 0
    <3>1. NumPackets = (BlockSize - 1) \div BlockSize
      BY <2>1, ConstantFacts DEF NumPackets, PacketCount
    <3>2. NumPackets * BlockSize <= BlockSize - 1
      BY <3>1, ConstantFacts, Division
    <3>3. NumPackets >= 1 => 1 * BlockSize <= NumPackets * BlockSize
      BY <1>1, ConstantFacts, TimesMonotonic
    <3>4. NumPackets * BlockSize \in Nat
      BY <1>1, ConstantFacts
    <3> QED
      BY <1>1, <2>1, <3>2, <3>3, <3>4, ConstantFacts
  <2>2. CASE FileSize > 0
    <3>1. NumPackets >= 1 /\ (NumPackets - 1) * BlockSize < FileSize
      BY <2>2, ConstantFacts, PacketCountFacts DEF NumPackets
    <3>2. (NumPackets - 1) * 1 <= (NumPackets - 1) * BlockSize
      BY <1>1, <3>1, ConstantFacts
    <3>3. (NumPackets - 1) * BlockSize \in Nat
      BY <1>1, <3>1, ConstantFacts
    <3> QED
      BY <1>1, <3>1, <3>2, <3>3, ConstantFacts
  <2> QED
    BY <2>1, <2>2, ConstantFacts
<1> QED
  BY <1>1, <1>2, ConstantFacts

-----------------------------------------------------------------------------
\* The network.

\* net carries datagrams of S, each at most Copies times.
Carries(net, S) ==
  /\ DOMAIN net \subseteq S
  /\ \A d \in DOMAIN net : net[d] \in 1 .. Copies

LEMMA PutCarries ==
  ASSUME NEW S, NEW net, Carries(net, S), NEW d \in S
  PROVE  /\ Carries(Put(net, d), S)
         /\ DOMAIN Put(net, d) = DOMAIN net \cup {d}
<1>1. DOMAIN Put(net, d) = DOMAIN net \cup {d}
  BY DEF Put
<1>2. \A e \in DOMAIN Put(net, d) :
        Put(net, d)[e] = IF e # d THEN net[e]
                         ELSE IF d \notin DOMAIN net THEN 1
                         ELSE IF net[d] < Copies THEN net[d] + 1 ELSE net[d]
  BY DEF Put
<1>3. ASSUME NEW e \in DOMAIN Put(net, d) PROVE Put(net, d)[e] \in 1 .. Copies
  BY <1>1, <1>2, ConstantFacts DEF Carries
<1> QED
  BY <1>1, <1>3 DEF Carries

LEMMA TakeCarries ==
  ASSUME NEW S, NEW net, Carries(net, S), NEW d \in DOMAIN net
  PROVE  /\ Carries(Take(net, d), S)
         /\ DOMAIN Take(net, d) \subseteq DOMAIN net
<1>1. DOMAIN Take(net, d) = {f \in DOMAIN net : f # d \/ net[f] > 1}
  BY DEF Take
<1>2. \A e \in DOMAIN Take(net, d) :
        Take(net, d)[e] = IF e = d THEN net[e] - 1 ELSE net[e]
  BY DEF Take
<1>3. ASSUME NEW e \in DOMAIN Take(net, d) PROVE Take(net, d)[e] \in 1 .. Copies
  <2>1. net[e] \in 1 .. Copies /\ (e = d => net[e] > 1)
    BY <1>1 DEF Carries
  <2> QED
    BY <1>2, <2>1, ConstantFacts
<1> QED
  BY <1>1, <1>3 DEF Carries

LEMMA NetworkCarries ==
  NetworkTypeOK <=> /\ Carries(toServer, ServerBound)
                    /\ Carries(toClient, ClientBound)
                    /\ lost \in 0 .. MaxLost
                    /\ dups \in 0 .. MaxDup
BY DEF NetworkTypeOK, Carries

-----------------------------------------------------------------------------
\* The messages.

LEMMA FromServer ==
  /\ SizeMsg \in ClientBound
  /\ EmptyMsg \in ClientBound
  /\ \A s \in 0 .. NumPackets - 1 : DataMsg(s) \in ClientBound
  /\ \A d \in ClientBound : d.seq \in 0 .. FileSize
<1>1. \A d \in ClientBound : d.seq \in 0 .. FileSize
  <2> SUFFICES ASSUME NEW d \in ClientBound PROVE d.seq \in 0 .. FileSize
    OBVIOUS
  <2>1. CASE d = SizeMsg
    BY <2>1, ConstantFacts DEF SizeMsg
  <2>2. CASE d = EmptyMsg
    BY <2>2, ConstantFacts DEF EmptyMsg
  <2>3. CASE \E s \in 0 .. NumPackets - 1 : d = DataMsg(s)
    BY <2>3, SeqBelowFileSize DEF DataMsg
  <2> QED
    BY <2>1, <2>2, <2>3 DEF ClientBound
<1> QED
  BY <1>1 DEF ClientBound

LEMMA WordFacts == NumPackets \in Nat /\ Beyond \in Word /\ 0 \in Word /\ Word \subseteq Nat
BY SeqBelowFileSize DEF Beyond, Word

LEMMA ToServer ==
  /\ AckMsg \in ServerBound
  /\ FinalMsg \in ServerBound
  /\ \A k \in {"request", "badrequest"} : Request(k) \in ServerBound
  /\ \A w \in Seq(Word) \ {<<>>} : NackMsg(w) \in ServerBound
<1>1. <<Beyond>> \in Seq(Word) \ {<<>>}
  BY WordFacts
<1> QED
  BY <1>1 DEF ServerBound, AckMsg, FinalMsg, Request, NackMsg

LEMMA NotFinal ==
  /\ AckMsg # FinalMsg
  /\ \A k \in {"request", "badrequest"} : Request(k) # FinalMsg
  /\ \A w : NackMsg(w) # FinalMsg
<1>1. FinalMsg.kind = "final" /\ AckMsg.kind = "ack"
  BY DEF FinalMsg, AckMsg
<1>2. \A w : NackMsg(w).kind = "nack"
  BY DEF NackMsg
<1>3. \A k \in {"request", "badrequest"} : Request(k).kind = k
  BY DEF Request
<1> QED
  BY <1>1, <1>2, <1>3

\* Only the client's -1 starts with -1.
LEMMA FinalIsFinal ==
  ASSUME NEW d \in ServerBound
  PROVE  /\ IsFinal(d) => d = FinalMsg
         /\ ~IsFinal(d) => d.words \in Seq(Word)
<1>1. CASE d = FinalMsg
  BY <1>1 DEF FinalMsg, IsFinal
<1>2. CASE d # FinalMsg
  <2>1. d.words \in Seq(Word) /\ d.words # <<>>
    BY <1>2 DEF ServerBound
  <2>2. d.words[1] \in Word
    BY <2>1
  <2> QED
    BY <2>1, <2>2, WordFacts DEF IsFinal
<1> QED
  BY <1>1, <1>2

LEMMA StaleType == ASSUME NEW room \in Int PROVE StaleWords(room) \subseteq Seq(Word)
<1> SUFFICES ASSUME NEW n \in 0 .. MaxStale, NEW t \in [1 .. n -> Word]
             PROVE  t \in Seq(Word)
  BY DEF StaleWords
<1>1. n \in Nat
  BY TurboAssumption
<1> QED
  BY <1>1

LEMMA ClearedFacts == Cleared \in Nat /\ Cleared >= 1 /\ Cleared <= BlockSize
<1>1. BlockSize \div 4 \in Nat /\ (BlockSize \div 4) * 4 <= BlockSize
      /\ BlockSize < (BlockSize \div 4) * 4 + 4
  BY ConstantFacts, Division
<1> QED
  BY <1>1, ConstantFacts DEF Cleared

LEMMA ControlType ==
  ASSUME NEW d \in ServerBound, ~IsFinal(d)
  PROVE  ControlAfter(d) \subseteq Seq(Word)
<1>1. d.words \in Seq(Word)
  BY FinalIsFinal
<1>2. CASE d.kind = "nack"
  BY <1>1, <1>2 DEF ControlAfter
<1>3. CASE d.kind # "nack"
  <2> DEFINE zeros == [i \in 1 .. Cleared - 1 |-> 0]
  <2>1. zeros \in Seq(Word)
    <3>1. Cleared - 1 \in Nat
      BY ClearedFacts
    <3>2. zeros \in [1 .. Cleared - 1 -> Word]
      BY WordFacts
    <3> QED
      BY <3>1, <3>2
  <2>2. StaleWords(BlockSize - Cleared) \subseteq Seq(Word)
    BY StaleType, ConstantFacts, ClearedFacts
  <2>3. ControlAfter(d) = {d.words \o zeros \o t : t \in StaleWords(BlockSize - Cleared)}
    BY <1>3 DEF ControlAfter
  <2> HIDE DEF zeros
  <2>4. d.words \o zeros \in Seq(Word)
    BY <1>1, <2>1
  <2>5. \A t \in StaleWords(BlockSize - Cleared) : d.words \o zeros \o t \in Seq(Word)
    BY <2>2, <2>4
  <2> QED
    BY <2>3, <2>5
<1> QED
  BY <1>2, <1>3

\* A NACK of a client that misses a block is a non-empty list of words.
LEMMA NackType ==
  ASSUME ClientTypeOK, Missing # {}, Missing \subseteq Word,
         NEW w \in NackLists, NEW t \in NackTails(w)
  PROVE  w \o t \in Seq(Word) \ {<<>>}
<1>1. IsFiniteSet(Missing) /\ Cardinality(Missing) \in Nat /\ Cardinality(Missing) >= 1
  <2>1. fileSize \in Nat
    BY ConstantFacts DEF ClientTypeOK
  <2>2. totPkts \in Nat
    BY <2>1, PacketCountNat DEF totPkts
  <2>3. IsFiniteSet(0 .. totPkts - 1)
    BY <2>2, FS_Interval
  <2>4. IsFiniteSet(Missing)
    BY <2>3, FS_Subset DEF Missing
  <2>5. Cardinality(Missing) \in Nat /\ Cardinality(Missing) # 0
    BY <2>4, FS_CardinalityType, FS_EmptySet
  <2> QED
    BY <2>4, <2>5
<1> DEFINE num == IF Cardinality(Missing) < BlockSize THEN Cardinality(Missing) ELSE BlockSize
<1>2. num \in Nat /\ num >= 1
  BY <1>1, ConstantFacts
<1>3. w \in [1 .. num -> Missing]
  BY DEF NackLists
<1>4. w \in Seq(Word) /\ Len(w) = num
  <2>1. w \in [1 .. num -> Word]
    BY <1>3
  <2> HIDE DEF num
  <2> QED
    BY <1>2, <2>1
<1>5. t \in Seq(Word)
  <2>1. BlockSize - Len(w) \in Int
    BY <1>2, <1>4, ConstantFacts
  <2>2. StaleWords(BlockSize - Len(w)) \subseteq Seq(Word)
    BY <2>1, StaleType
  <2>3. t = <<>> \/ t \in StaleWords(BlockSize - Len(w))
    BY DEF NackTails
  <2>4. <<>> \in Seq(Word)
    OBVIOUS
  <2> QED
    BY <2>2, <2>3, <2>4
<1>6. Len(w \o t) >= 1 /\ w \o t \in Seq(Word)
  BY <1>2, <1>4, <1>5
<1> QED
  BY <1>6

-----------------------------------------------------------------------------
\* The client's counter of bytes.

LEMMA SizeFacts ==
  ASSUME ClientTypeOK
  PROVE  /\ fileSize \in Nat /\ totPkts \in Nat
         /\ Missing \subseteq Word
<1>1. fileSize \in Nat /\ fileSize <= FileSize
  BY ConstantFacts DEF ClientTypeOK
<1>2. totPkts \in Nat
  BY <1>1, PacketCountNat DEF totPkts
<1>3. totPkts <= NumPackets
  <2>1. /\ fileSize + BlockSize - 1 \in Nat /\ FileSize + BlockSize - 1 \in Nat
        /\ BlockSize \in Nat /\ BlockSize > 0
    BY <1>1, ConstantFacts
  <2>2. totPkts * BlockSize <= fileSize + BlockSize - 1
    BY <2>1, Division DEF totPkts, PacketCount
  <2>3. FileSize + BlockSize - 1 < NumPackets * BlockSize + BlockSize
    BY <2>1, Division DEF NumPackets, PacketCount
  <2>4. NumPackets + 1 <= totPkts => (NumPackets + 1) * BlockSize <= totPkts * BlockSize
    BY <1>2, <2>1, WordFacts, TimesMonotonic
  <2>5. (NumPackets + 1) * BlockSize = NumPackets * BlockSize + BlockSize
    BY <2>1, WordFacts
  <2>6. totPkts * BlockSize \in Nat /\ NumPackets * BlockSize \in Nat
    BY <1>2, <2>1, WordFacts
  <2> DEFINE t == totPkts * BlockSize
             m == NumPackets * BlockSize
  <2>7. t \in Nat /\ m \in Nat /\ t < m + BlockSize
    <3>1. t \in Nat /\ m \in Nat /\ t <= fileSize + BlockSize - 1
          /\ FileSize + BlockSize - 1 < m + BlockSize
      BY <2>2, <2>3, <2>6
    <3> HIDE DEF t, m
    <3> QED
      BY <1>1, <2>1, <3>1, ConstantFacts
  <2>8. NumPackets + 1 <= totPkts => m + BlockSize <= t
    BY <2>4, <2>5
  <2> HIDE DEF t, m
  <2>9. ~(NumPackets + 1 <= totPkts)
    BY <2>1, <2>7, <2>8
  <2> QED
    BY <1>2, <2>9, WordFacts
<1> QED
  BY <1>1, <1>2, <1>3, WordFacts DEF Missing, Word, Beyond

\* The bytes of the blocks of S in a file of the given size.
BytesOf(S, size) ==
  BlockSize * Cardinality(S \cap 0 .. PacketCount(size) - 2)
    + (IF PacketCount(size) - 1 \in S
         THEN size - (PacketCount(size) - 1) * BlockSize ELSE 0)

BytesOfBlock(s, size) ==
  IF s < PacketCount(size) - 1 THEN BlockSize ELSE size - s * BlockSize

LEMMA Full ==
  ASSUME NEW S, NEW n \in Nat
  PROVE  /\ IsFiniteSet(S \cap 0 .. n - 1)
         /\ Cardinality(S \cap 0 .. n - 1) \in Nat
         /\ Cardinality(S \cap 0 .. n - 1) <= n
         /\ Cardinality(S \cap 0 .. n - 1) = n => 0 .. n - 1 \subseteq S
<1> DEFINE I == 0 .. n - 1
           K == S \cap I
<1>1. IsFiniteSet(I) /\ Cardinality(I) = n
  BY FS_Interval
<1>2. K \in SUBSET I
  OBVIOUS
<1> HIDE DEF I, K
<1>3. IsFiniteSet(K) /\ Cardinality(K) <= Cardinality(I)
      /\ (Cardinality(I) = Cardinality(K) => I = K)
  BY <1>1, <1>2, FS_Subset
<1>4. Cardinality(K) \in Nat
  BY <1>3, FS_CardinalityType
<1> QED
  BY <1>1, <1>3, <1>4 DEF I, K

\* A new block adds its bytes: all blocks but the last are full, and a number
\* past the last block can only add nothing.
LEMMA BytesGrow ==
  ASSUME NEW size \in Nat, size > 0, NEW S, NEW s \in Nat, s \notin S,
         BytesOfBlock(s, size) >= 0
  PROVE  BytesOf(S \cup {s}, size) = BytesOf(S, size) + BytesOfBlock(s, size)
<1> DEFINE n == PacketCount(size) - 1
           K == S \cap 0 .. n - 1
           T == S \cup {s}
<1>1. /\ n \in Nat /\ n * BlockSize < size /\ size <= (n + 1) * BlockSize
      /\ n - 1 = PacketCount(size) - 2
  <2>1. PacketCount(size) \in Nat /\ PacketCount(size) >= 1
    BY PacketCountFacts
  <2>2. n \in Nat /\ n + 1 = PacketCount(size) /\ n - 1 = PacketCount(size) - 2
    BY <2>1
  <2> QED
    BY <2>2, PacketCountFacts
<1>2. /\ BytesOf(S, size) = BlockSize * Cardinality(K)
                              + (IF n \in S THEN size - n * BlockSize ELSE 0)
      /\ BytesOf(T, size) = BlockSize * Cardinality(T \cap 0 .. n - 1)
                              + (IF n \in T THEN size - n * BlockSize ELSE 0)
      /\ BytesOfBlock(s, size) = IF s < n THEN BlockSize ELSE size - s * BlockSize
  BY <1>1 DEF BytesOf, BytesOfBlock
<1>3. IsFiniteSet(K) /\ Cardinality(K) \in Nat
  BY <1>1, Full
<1> HIDE DEF n
<1>4. CASE s < n
  <2>1. T \cap 0 .. n - 1 = K \cup {s}
    BY <1>1, <1>4
  <2>2. s \notin K
    OBVIOUS
  <2> HIDE DEF K
  <2>3. Cardinality(K \cup {s}) = Cardinality(K) + 1
    BY <1>3, <2>2, FS_AddElement
  <2>4. BlockSize * (Cardinality(K) + 1) = BlockSize * Cardinality(K) + BlockSize
    BY <1>3, ConstantFacts
  <2>5. n \in T <=> n \in S
    BY <1>1, <1>4
  <2>6. BlockSize * Cardinality(K) \in Int /\ size - n * BlockSize \in Int
    BY <1>1, <1>3, ConstantFacts
  <2> QED
    BY <1>2, <1>4, <2>1, <2>3, <2>4, <2>5, <2>6, ConstantFacts
<1>5. CASE s = n
  <2>1. T \cap 0 .. n - 1 = K
    BY <1>1, <1>5
  <2>2. n \in T /\ n \notin S
    BY <1>5
  <2> HIDE DEF K
  <2>3. BlockSize * Cardinality(K) \in Int /\ size - n * BlockSize \in Int
    BY <1>1, <1>3, ConstantFacts
  <2>4. BytesOf(T, size) = BlockSize * Cardinality(K) + (size - n * BlockSize)
    BY <1>2, <2>1, <2>2
  <2>5. BytesOf(S, size) = BlockSize * Cardinality(K)
    BY <1>2, <2>2, <2>3
  <2>6. BytesOfBlock(s, size) = size - n * BlockSize
    BY <1>1, <1>2, <1>5
  <2> QED
    BY <2>4, <2>5, <2>6
<1>6. CASE s > n
  <2>1. T \cap 0 .. n - 1 = K
    BY <1>1, <1>6
  <2>2. n \in T <=> n \in S
    BY <1>1, <1>6
  <2>3. size - s * BlockSize = 0
    <3>1. (n + 1) * BlockSize <= s * BlockSize
      BY <1>1, <1>6, ConstantFacts, TimesMonotonic
    <3>2. s * BlockSize \in Nat /\ (n + 1) * BlockSize \in Nat
      BY <1>1, ConstantFacts
    <3>3. size - s * BlockSize >= 0
      BY <1>1, <1>2, <1>6
    <3> QED
      BY <1>1, <3>1, <3>2, <3>3
  <2>4. BytesOfBlock(s, size) = 0
    BY <1>1, <1>2, <1>6, <2>3
  <2> HIDE DEF K
  <2>5. BlockSize * Cardinality(K) \in Int /\ size - n * BlockSize \in Int
    BY <1>1, <1>3, ConstantFacts
  <2>6. BytesOf(T, size) = BytesOf(S, size)
    BY <1>2, <2>1, <2>2
  <2>7. BytesOf(S, size) \in Int
    BY <1>2, <2>5
  <2> QED
    BY <2>4, <2>6, <2>7
<1> QED
  BY <1>1, <1>4, <1>5, <1>6

\* size bytes are all the blocks.
LEMMA BytesComplete ==
  ASSUME NEW size \in Nat, size > 0, NEW S, BytesOf(S, size) >= size
  PROVE  0 .. PacketCount(size) - 1 \subseteq S
<1> DEFINE n == PacketCount(size) - 1
           k == Cardinality(S \cap 0 .. n - 1)
<1>1. n \in Nat /\ n * BlockSize < size /\ n - 1 = PacketCount(size) - 2
  BY PacketCountFacts
<1>2. BytesOf(S, size) = BlockSize * k + (IF n \in S THEN size - n * BlockSize ELSE 0)
  BY <1>1 DEF BytesOf
<1>3. k \in Nat /\ k <= n /\ (k = n => 0 .. n - 1 \subseteq S)
  BY <1>1, Full
<1>4. n = PacketCount(size) - 1
  OBVIOUS
<1> HIDE DEF n, k
<1>5. BlockSize * k \in Nat /\ n * BlockSize \in Nat /\ BlockSize * k = k * BlockSize
  BY <1>1, <1>3, ConstantFacts
<1>6. k * BlockSize <= n * BlockSize
  BY <1>1, <1>3, ConstantFacts, TimesMonotonic
<1>7. n \in S
  BY <1>1, <1>2, <1>5, <1>6
<1>8. k = n
  <2>1. n * BlockSize <= k * BlockSize
    BY <1>1, <1>2, <1>5, <1>7
  <2>2. k + 1 <= n => (k + 1) * BlockSize <= n * BlockSize
    BY <1>1, <1>3, ConstantFacts, TimesMonotonic
  <2>3. (k + 1) * BlockSize = k * BlockSize + BlockSize
    BY <1>3, ConstantFacts
  <2> QED
    BY <1>1, <1>3, <1>5, <2>1, <2>2, <2>3, ConstantFacts
<1> QED
  BY <1>1, <1>3, <1>4, <1>7, <1>8

-----------------------------------------------------------------------------
\* Steps of one process leave the other's part of the invariant alone.

LEMMA ServerStays == ServerTypeOK /\ UNCHANGED server => ServerTypeOK'
BY DEF ServerTypeOK, server

LEMMA ClientStays ==
  ASSUME ClientTypeOK, RecvSizeExact, DoneMeansComplete, UNCHANGED client
  PROVE  ClientTypeOK' /\ RecvSizeExact' /\ DoneMeansComplete'
BY DEF ClientTypeOK, RecvSizeExact, DoneMeansComplete, MarkedBytes, totPkts, client

LEMMA CountersType ==
  ASSUME NEW c \in [packet : Nat, loss : Nat], NEW t \in Nat, NEW l \in Nat
  PROVE  DropSendTo(c, t, l) \in [packet : Nat, loss : Nat]
<1>1. c.packet \in Nat /\ c.loss \in Nat /\ CountLoss(c.loss) \in Nat
  BY DEF CountLoss
<1>2. CASE c.packet < t
  BY <1>1, <1>2 DEF DropSendTo
<1>3. CASE c.packet = t /\ c.loss = l
  BY <1>1, <1>3 DEF DropSendTo, FreshCounters
<1>4. CASE c.packet = t /\ c.loss # l
  BY <1>1, <1>4 DEF DropSendTo
<1>5. CASE c.packet > t
  BY <1>1, <1>5 DEF DropSendTo
<1> QED
  BY <1>1, <1>2, <1>3, <1>4, <1>5

LEMMA DropSendType ==
  ASSUME counters \in [packet : Nat, loss : Nat], Carries(toClient, ClientBound),
         NEW d \in ClientBound, NEW t \in Nat, NEW l \in Nat, DropSend(d, t, l)
  PROVE  /\ counters' \in [packet : Nat, loss : Nat]
         /\ Carries(toClient', ClientBound)
<1>1. counters' = DropSendTo(counters, t, l)
      /\ (toClient' = Put(toClient, d) \/ toClient' = toClient)
  BY DEF DropSend
<1>2. counters' \in [packet : Nat, loss : Nat]
  BY <1>1, CountersType
<1>3. Carries(Put(toClient, d), ClientBound)
  BY PutCarries
<1> QED
  BY <1>1, <1>2, <1>3

LEMMA InitIInv == Init => IInv
<1> SUFFICES ASSUME Init PROVE IInv
  OBVIOUS
<1>1. ServerTypeOK
  <2>1. FreshCounters \in [packet : Nat, loss : Nat]
    BY DEF FreshCounters
  <2> QED
    BY <2>1, WordFacts DEF Init, ServerTypeOK
<1>2. ClientTypeOK
  <2>1. from \in BOOLEAN
    BY DEF Init
  <2>2. fileSize \in 0 .. FileSize /\ recvSize \in Nat
    BY ConstantFacts DEF Init
  <2> QED
    BY <2>1, <2>2 DEF Init, ClientTypeOK
<1>3. NetworkTypeOK
  BY ConstantFacts DEF Init, NetworkTypeOK, NoDatagrams
<1>4. Phases
  <2>1. DOMAIN toServer = {}
    BY DEF Init, NoDatagrams
  <2>2. spc = "request" /\ cpc = "start" /\ pktsRcvd = {} /\ recvSize = 0
    BY DEF Init
  <2> QED
    BY <2>1, <2>2 DEF Phases
<1>5. ServerLeavesLast /\ RecvSizeExact /\ DoneMeansComplete
  BY DEF Init, ServerLeavesLast, RecvSizeExact, DoneMeansComplete
<1> QED
  BY <1>1, <1>2, <1>3, <1>4, <1>5 DEF IInv, TypeOK

-----------------------------------------------------------------------------
\* The server's actions.

LEMMA RecvRequestStep == IInv /\ ServerRecvRequest => IInv'
<1> SUFFICES ASSUME IInv, ServerRecvRequest PROVE IInv'
  OBVIOUS
<1> USE DEF IInv, TypeOK
<1>1. ClientTypeOK' /\ RecvSizeExact' /\ DoneMeansComplete'
  BY ClientStays DEF ServerRecvRequest
<1>2. PICK d \in DOMAIN toServer : toServer' = Take(toServer, d)
  BY DEF ServerRecvRequest
<1>3. Carries(toServer', ServerBound) /\ DOMAIN toServer' \subseteq DOMAIN toServer
  BY <1>2, TakeCarries, NetworkCarries
<1>4. spc' \in {"refused", "ack"}
  BY DEF ServerRecvRequest
<1>5. counters' \in [packet : Nat, loss : Nat] /\ Carries(toClient', ClientBound)
  <2>1. CASE UNCHANGED <<counters, toClient>>
    BY <2>1, NetworkCarries DEF ServerTypeOK
  <2>2. CASE DropSend(SizeMsg, TotalNum, LossNum)
    BY <2>2, DropSendType, FromServer, NetworkCarries, TurboAssumption DEF ServerTypeOK
  <2> QED
    BY <2>1, <2>2 DEF ServerRecvRequest
<1>6. ServerTypeOK'
  BY <1>4, <1>5 DEF ServerTypeOK, ServerRecvRequest
<1>7. NetworkTypeOK'
  BY <1>3, <1>5, NetworkCarries DEF ServerRecvRequest, NetworkTypeOK, Carries
<1>8. Phases' /\ ServerLeavesLast'
  BY <1>3, <1>4 DEF Phases, ServerLeavesLast, ServerRecvRequest, client
<1> QED
  BY <1>1, <1>6, <1>7, <1>8

LEMMA RecvAckStep == IInv /\ ServerRecvAck => IInv'
<1> SUFFICES ASSUME IInv, ServerRecvAck PROVE IInv'
  OBVIOUS
<1> USE DEF IInv, TypeOK
<1>1. ClientTypeOK' /\ RecvSizeExact' /\ DoneMeansComplete'
  BY ClientStays DEF ServerRecvAck
<1>2. PICK d \in DOMAIN toServer : toServer' = Take(toServer, d)
  BY DEF ServerRecvAck
<1>3. Carries(toServer', ServerBound) /\ DOMAIN toServer' \subseteq DOMAIN toServer
  BY <1>2, TakeCarries, NetworkCarries
<1>4. spc' \in {"aborted", "pass"} /\ (spc' = "pass" => FileSize > 0)
  BY ConstantFacts DEF ServerRecvAck
<1>5. ServerTypeOK'
  BY <1>4 DEF ServerTypeOK, ServerRecvAck
<1>6. NetworkTypeOK'
  BY <1>3 DEF ServerRecvAck, NetworkTypeOK, Carries
<1>7. Phases' /\ ServerLeavesLast'
  BY <1>3, <1>4 DEF Phases, ServerLeavesLast, ServerRecvAck, client
<1> QED
  BY <1>1, <1>5, <1>6, <1>7

LEMMA PassStep == IInv /\ ServerPass => IInv'
<1> SUFFICES ASSUME IInv, ServerPass PROVE IInv'
  OBVIOUS
<1> USE DEF IInv, TypeOK
<1>1. ClientTypeOK' /\ RecvSizeExact' /\ DoneMeansComplete'
  BY ClientStays DEF ServerPass
<1>2. spc' \in {"pass", "nack"} /\ FileSize > 0
  BY DEF ServerPass, Phases
<1>3. NumPackets >= 1 /\ NumPackets \in Nat
  BY <1>2, ConstantFacts, PacketCountFacts DEF NumPackets
<1>4. /\ counters' \in [packet : Nat, loss : Nat]
      /\ Carries(toClient', ClientBound)
      /\ currSeq' \in 0 .. NumPackets + 1
  <2>1. CASE /\ currSeq < PassEnd
             /\ DropSend(DataMsg(IF currSeq < NumPackets THEN currSeq ELSE currSeq - 1),
                         TotalNum, LossNum)
             /\ currSeq' = currSeq + 1
    <3> DEFINE s == IF currSeq < NumPackets THEN currSeq ELSE currSeq - 1
    <3>1. currSeq \in 0 .. NumPackets
      BY <1>3, <2>1 DEF PassEnd, ServerTypeOK
    <3>2. s \in 0 .. NumPackets - 1
      BY <1>3, <3>1
    <3>3. DataMsg(s) \in ClientBound
      BY <3>2, FromServer
    <3>4. DropSend(DataMsg(s), TotalNum, LossNum)
      BY <2>1
    <3> HIDE DEF s
    <3>5. counters' \in [packet : Nat, loss : Nat] /\ Carries(toClient', ClientBound)
      BY <3>3, <3>4, DropSendType, NetworkCarries, TurboAssumption DEF ServerTypeOK
    <3>6. currSeq' \in 0 .. NumPackets + 1
      BY <1>3, <2>1, <3>1
    <3> QED
      BY <3>5, <3>6
  <2>2. CASE UNCHANGED <<currSeq, counters, toClient>>
    BY <2>2, NetworkCarries DEF ServerTypeOK
  <2> QED
    BY <2>1, <2>2 DEF ServerPass
<1>5. ServerTypeOK'
  BY <1>2, <1>4 DEF ServerTypeOK, ServerPass
<1>6. NetworkTypeOK'
  BY <1>4 DEF ServerPass, NetworkTypeOK, Carries
<1>7. Phases' /\ ServerLeavesLast'
  BY <1>2 DEF Phases, ServerLeavesLast, ServerPass, client
<1> QED
  BY <1>1, <1>5, <1>6, <1>7

LEMMA RecvNackStep == IInv /\ ServerRecvNack => IInv'
<1> SUFFICES ASSUME IInv, ServerRecvNack PROVE IInv'
  OBVIOUS
<1> USE DEF IInv, TypeOK
<1>1. ClientTypeOK' /\ RecvSizeExact' /\ DoneMeansComplete'
  BY ClientStays DEF ServerRecvNack
<1>2. PICK d \in DOMAIN toServer :
        /\ toServer' = Take(toServer, d)
        /\ \/ IsFinal(d) /\ spc' = "done" /\ UNCHANGED control
           \/ ~IsFinal(d) /\ spc' = spc /\ control' \in ControlAfter(d)
  BY DEF ServerRecvNack
<1>3. Carries(toServer', ServerBound) /\ DOMAIN toServer' \subseteq DOMAIN toServer
  BY <1>2, TakeCarries, NetworkCarries
<1>4. d \in ServerBound
  BY DEF NetworkTypeOK
<1>5. spc' \in {"nack", "done"} /\ FileSize > 0 /\ (spc' = "done" => cpc = "done")
  <2>1. FileSize > 0
    BY DEF ServerRecvNack, Phases
  <2>2. CASE IsFinal(d) /\ spc' = "done"
    BY <1>4, <2>1, <2>2, FinalIsFinal DEF Phases
  <2>3. CASE spc' = spc
    BY <2>1, <2>3 DEF ServerRecvNack
  <2> QED
    BY <1>2, <2>2, <2>3
<1>6. control' \in Seq(Word)
  BY <1>2, <1>4, ControlType DEF ServerTypeOK
<1>7. ServerTypeOK'
  BY <1>5, <1>6 DEF ServerTypeOK, ServerRecvNack
<1>8. NetworkTypeOK'
  BY <1>3 DEF ServerRecvNack, NetworkTypeOK, Carries
<1>9. Phases' /\ ServerLeavesLast'
  BY <1>3, <1>5 DEF Phases, ServerLeavesLast, ServerRecvNack, client
<1> QED
  BY <1>1, <1>7, <1>8, <1>9

LEMMA ResendStep == IInv /\ ServerResend => IInv'
<1> SUFFICES ASSUME IInv, ServerResend PROVE IInv'
  OBVIOUS
<1> USE DEF IInv, TypeOK
<1>1. ClientTypeOK' /\ RecvSizeExact' /\ DoneMeansComplete'
  BY ClientStays DEF ServerResend
<1>2. Head(control) \in Word /\ control' \in Seq(Word)
  BY DEF ServerResend, ServerTypeOK
<1>3. counters' \in [packet : Nat, loss : Nat] /\ Carries(toClient', ClientBound)
  <2>1. CASE Head(control) < NumPackets /\ DropSend(DataMsg(Head(control)), TotalNum, LossNum)
    <3>1. Head(control) \in 0 .. NumPackets - 1
      BY <1>2, <2>1, WordFacts DEF Word
    <3>2. DataMsg(Head(control)) \in ClientBound
      BY <3>1, FromServer
    <3> QED
      BY <2>1, <3>2, DropSendType, NetworkCarries, TurboAssumption DEF ServerTypeOK
  <2>2. CASE DropSend(EmptyMsg, EmptyTotal, EmptyLoss)
    BY <2>2, FromServer, DropSendType, NetworkCarries, TurboAssumption DEF ServerTypeOK
  <2> QED
    BY <2>1, <2>2 DEF ServerResend
<1>4. ServerTypeOK'
  BY <1>2, <1>3 DEF ServerTypeOK, ServerResend
<1>5. NetworkTypeOK'
  BY <1>3 DEF ServerResend, NetworkTypeOK, Carries
<1>6. Phases' /\ ServerLeavesLast'
  BY DEF Phases, ServerLeavesLast, ServerResend, client
<1> QED
  BY <1>1, <1>4, <1>5, <1>6

-----------------------------------------------------------------------------
\* The client's actions.

\* A send to the server of anything but -1.
LEMMA SendToServer ==
  ASSUME NetworkTypeOK, NEW d \in ServerBound, d # FinalMsg,
         toServer' = Put(toServer, d)
  PROVE  /\ Carries(toServer', ServerBound)
         /\ FinalMsg \in DOMAIN toServer' => FinalMsg \in DOMAIN toServer
<1>1. Carries(toServer, ServerBound)
  BY NetworkCarries
<1>2. Carries(toServer', ServerBound) /\ DOMAIN toServer' = DOMAIN toServer \cup {d}
  BY <1>1, PutCarries
<1> QED
  BY <1>2

LEMMA RequestStep == IInv /\ ClientRequest => IInv'
<1> SUFFICES ASSUME IInv, ClientRequest PROVE IInv'
  OBVIOUS
<1> USE DEF IInv, TypeOK
<1>1. ServerTypeOK'
  BY ServerStays DEF ClientRequest
<1>2. ClientTypeOK' /\ RecvSizeExact' /\ DoneMeansComplete'
  BY DEF ClientRequest, ClientTypeOK, RecvSizeExact, DoneMeansComplete
<1>3. PICK k \in {"request", "badrequest"} : toServer' = Put(toServer, Request(k))
  BY DEF ClientRequest
<1>4. /\ Carries(toServer', ServerBound)
      /\ FinalMsg \in DOMAIN toServer' => FinalMsg \in DOMAIN toServer
  BY <1>3, SendToServer, ToServer, NotFinal
<1>5. NetworkTypeOK'
  BY <1>4 DEF ClientRequest, NetworkTypeOK, Carries
<1>6. Phases' /\ ServerLeavesLast'
  BY <1>4 DEF Phases, ServerLeavesLast, ClientRequest, server
<1> QED
  BY <1>1, <1>2, <1>5, <1>6

LEMMA RecvSizeStep == IInv /\ ClientRecvSize => IInv'
<1> SUFFICES ASSUME IInv, ClientRecvSize PROVE IInv'
  OBVIOUS
<1> USE DEF IInv, TypeOK
<1>1. ServerTypeOK'
  BY ServerStays DEF ClientRecvSize
<1>2. PICK d \in DOMAIN toClient :
        /\ toClient' = Take(toClient, d)
        /\ fileSize' \in IF d.kind = "empty" THEN 0 .. FileSize ELSE {d.seq}
  BY DEF ClientRecvSize
<1>3. d \in ClientBound /\ fileSize' \in 0 .. FileSize
  BY <1>2, FromServer DEF NetworkTypeOK
<1>4. Carries(toClient', ClientBound)
  BY <1>2, TakeCarries, NetworkCarries
<1>5. /\ Carries(toServer', ServerBound)
      /\ FinalMsg \in DOMAIN toServer' => FinalMsg \in DOMAIN toServer
  BY SendToServer, ToServer, NotFinal DEF ClientRecvSize
<1>6. /\ cpc' \in {"aborted", "recv"}
      /\ cpc' = "recv" => fileSize' > 0
      /\ pktsRcvd' = {} /\ recvSize' = 0
  BY <1>3, ConstantFacts DEF ClientRecvSize, Phases
<1>7. ClientTypeOK'
  BY <1>3, <1>6 DEF ClientTypeOK, ClientRecvSize
<1>8. NetworkTypeOK'
  BY <1>4, <1>5 DEF ClientRecvSize, NetworkTypeOK, Carries
<1>9. Phases' /\ ServerLeavesLast'
  BY <1>5, <1>6 DEF Phases, ServerLeavesLast, ClientRecvSize, server
<1>10. RecvSizeExact' /\ DoneMeansComplete'
  <2>1. fileSize' \in Nat /\ (cpc' = "recv" => totPkts' \in Nat /\ totPkts' >= 1)
    BY <1>3, <1>6, ConstantFacts, PacketCountFacts DEF totPkts
  <2>2. cpc' = "recv" => MarkedBytes' = 0
    <3>1. pktsRcvd' \cap 0 .. totPkts' - 2 = {} /\ totPkts' - 1 \notin pktsRcvd'
      BY <1>6
    <3>2. Cardinality({}) = 0
      BY FS_EmptySet
    <3> QED
      BY <3>1, <3>2, ConstantFacts DEF MarkedBytes
  <2> QED
    BY <1>6, <2>2 DEF RecvSizeExact, DoneMeansComplete
<1> QED
  BY <1>1, <1>7, <1>8, <1>9, <1>10

LEMMA IgnoreStep == ASSUME NEW d PROVE IInv /\ ClientIgnore(d) => IInv'
<1> SUFFICES ASSUME IInv, ClientIgnore(d) PROVE IInv'
  OBVIOUS
<1> USE DEF IInv, TypeOK
<1>1. ServerTypeOK'
  BY ServerStays DEF ClientIgnore
<1>2. ClientTypeOK' /\ RecvSizeExact' /\ DoneMeansComplete'
  BY DEF ClientIgnore, ClientTypeOK, RecvSizeExact, DoneMeansComplete, MarkedBytes, totPkts
<1>3. Carries(toClient', ClientBound)
  BY TakeCarries, NetworkCarries DEF ClientIgnore
<1>4. NetworkTypeOK'
  BY <1>3 DEF ClientIgnore, NetworkTypeOK, Carries
<1>5. Phases' /\ ServerLeavesLast'
  BY DEF Phases, ServerLeavesLast, ClientIgnore, server
<1> QED
  BY <1>1, <1>2, <1>4, <1>5

LEMMA CrashStep == ASSUME NEW d PROVE IInv /\ ClientCrash(d) => IInv'
<1> SUFFICES ASSUME IInv, ClientCrash(d) PROVE IInv'
  OBVIOUS
<1> USE DEF IInv, TypeOK
<1>1. ServerTypeOK'
  BY ServerStays DEF ClientCrash
<1>2. ClientTypeOK' /\ RecvSizeExact' /\ DoneMeansComplete'
  BY DEF ClientCrash, ClientTypeOK, RecvSizeExact, DoneMeansComplete
<1>3. Carries(toClient', ClientBound)
  BY TakeCarries, NetworkCarries DEF ClientCrash
<1>4. NetworkTypeOK'
  BY <1>3 DEF ClientCrash, NetworkTypeOK, Carries
<1>5. Phases' /\ ServerLeavesLast'
  BY DEF Phases, ServerLeavesLast, ClientCrash, server
<1> QED
  BY <1>1, <1>2, <1>4, <1>5

\* What the client counts for a new block is what BytesOf gains by it, so the
\* counter stays exact; and at fileSize bytes nothing is missing.
LEMMA KeepStep == ASSUME NEW d PROVE IInv /\ ClientKeep(d) => IInv'
<1> SUFFICES ASSUME IInv, ClientKeep(d) PROVE IInv'
  OBVIOUS
<1> USE DEF IInv, TypeOK
<1>1. ServerTypeOK'
  BY ServerStays DEF ClientKeep
<1>2. /\ cpc = "recv" /\ fileSize \in Nat /\ fileSize > 0 /\ recvSize \in Nat
      /\ recvSize = BytesOf(pktsRcvd, fileSize)
  BY SizeFacts DEF ClientKeep, Phases, RecvSizeExact, MarkedBytes, totPkts, BytesOf, ClientTypeOK
<1>3. d.seq \in 0 .. FileSize /\ d.seq \in Nat /\ d.seq \notin pktsRcvd
  BY FromServer, ConstantFacts DEF ClientKeep, NetworkTypeOK, IsNew
<1>4. BlockBytes(d.seq) = BytesOfBlock(d.seq, fileSize) /\ BlockBytes(d.seq) >= 0
      /\ BlockBytes(d.seq) \in Int
  BY <1>2, <1>3, ConstantFacts DEF ClientKeep, BlockBytes, BytesOfBlock, totPkts
<1>5. recvSize' = BytesOf(pktsRcvd', fileSize) /\ recvSize' \in Nat
  <2>1. BytesOf(pktsRcvd \cup {d.seq}, fileSize)
          = BytesOf(pktsRcvd, fileSize) + BytesOfBlock(d.seq, fileSize)
    BY <1>2, <1>3, <1>4, BytesGrow
  <2>2. recvSize' = recvSize + BlockBytes(d.seq) /\ pktsRcvd' = pktsRcvd \cup {d.seq}
    BY DEF ClientKeep
  <2> QED
    BY <1>2, <1>4, <2>1, <2>2
<1>6. cpc' \in {"recv", "done"} /\ fileSize' = fileSize
      /\ (cpc' = "done" => recvSize' >= fileSize)
  BY <1>2 DEF ClientKeep
<1>7. ClientTypeOK'
  <2>1. from' \in BOOLEAN
    BY DEF ClientKeep
  <2>2. pktsRcvd' \subseteq 0 .. FileSize /\ garbage' \subseteq pktsRcvd'
    BY <1>3 DEF ClientKeep, ClientTypeOK
  <2> QED
    BY <1>5, <1>6, <2>1, <2>2 DEF ClientTypeOK
<1>8. Carries(toClient', ClientBound)
  BY TakeCarries, NetworkCarries DEF ClientKeep
<1>9. /\ Carries(toServer', ServerBound)
      /\ FinalMsg \in DOMAIN toServer' => cpc' = "done"
  <2>1. CASE cpc' = "done" /\ toServer' = Finals(toServer)
    <3>1. Carries(Put(toServer, FinalMsg), ServerBound)
      BY NetworkCarries, PutCarries, ToServer
    <3>2. Carries(Put(Put(toServer, FinalMsg), FinalMsg), ServerBound)
      BY <3>1, PutCarries, ToServer
    <3>3. Carries(Put(Put(Put(toServer, FinalMsg), FinalMsg), FinalMsg), ServerBound)
      BY <3>2, PutCarries, ToServer
    <3> QED
      BY <2>1, <3>3 DEF Finals
  <2>2. CASE UNCHANGED <<cpc, toServer>>
    BY <2>2, NetworkCarries DEF Phases
  <2> QED
    BY <2>1, <2>2 DEF ClientKeep
<1>10. NetworkTypeOK'
  BY <1>8, <1>9 DEF ClientKeep, NetworkTypeOK, Carries
<1>11. Phases'
  BY <1>2, <1>6, <1>9 DEF Phases, ClientKeep, server
<1>12. ServerLeavesLast'
  BY <1>2 DEF ServerLeavesLast, ClientKeep, server
<1>13. RecvSizeExact'
  BY <1>5, <1>6 DEF RecvSizeExact, MarkedBytes, totPkts, BytesOf
<1>14. DoneMeansComplete'
  <2>1. cpc' = "done" => 0 .. PacketCount(fileSize) - 1 \subseteq pktsRcvd'
    BY <1>2, <1>5, <1>6, BytesComplete
  <2> QED
    BY <1>6, <2>1 DEF DoneMeansComplete, totPkts
<1> QED
  BY <1>1, <1>7, <1>10, <1>11, <1>12, <1>13, <1>14

LEMMA NackStep == IInv /\ ClientNack => IInv'
<1> SUFFICES ASSUME IInv, ClientNack PROVE IInv'
  OBVIOUS
<1> USE DEF IInv, TypeOK
<1>1. ServerTypeOK'
  BY ServerStays DEF ClientNack
<1>2. ClientTypeOK' /\ RecvSizeExact' /\ DoneMeansComplete'
  BY ClientStays DEF ClientNack
<1>3a. PICK w \in NackLists : \E t \in NackTails(w) :
         toServer' = Put(Put(toServer, NackMsg(w \o t)), NackMsg(w \o t))
  BY DEF ClientNack
<1>3. PICK t \in NackTails(w) :
        toServer' = Put(Put(toServer, NackMsg(w \o t)), NackMsg(w \o t))
  BY <1>3a
<1>4. Missing # {} /\ Missing \subseteq Word
  BY SizeFacts DEF ClientNack
<1>5. NackMsg(w \o t) \in ServerBound /\ NackMsg(w \o t) # FinalMsg
  BY <1>4, NackType, ToServer, NotFinal
<1> DEFINE m == NackMsg(w \o t)
<1> HIDE DEF m
<1>6. Carries(Put(toServer, m), ServerBound) /\ DOMAIN Put(toServer, m) = DOMAIN toServer \cup {m}
  BY <1>5, PutCarries, NetworkCarries DEF m
<1>7. /\ Carries(Put(Put(toServer, m), m), ServerBound)
      /\ DOMAIN Put(Put(toServer, m), m) = DOMAIN toServer \cup {m}
  <2>1. m \in ServerBound
    BY <1>5 DEF m
  <2>2. Carries(Put(Put(toServer, m), m), ServerBound)
    BY <1>6, <2>1, PutCarries
  <2>3. DOMAIN Put(Put(toServer, m), m) = DOMAIN Put(toServer, m) \cup {m}
    BY <1>6, <2>1, PutCarries
  <2> QED
    BY <1>6, <2>2, <2>3
<1>8. /\ Carries(toServer', ServerBound)
      /\ FinalMsg \in DOMAIN toServer' => FinalMsg \in DOMAIN toServer
  BY <1>3, <1>5, <1>7 DEF m
<1>9. NetworkTypeOK'
  BY <1>8 DEF ClientNack, NetworkTypeOK, Carries
<1>10. Phases' /\ ServerLeavesLast'
  BY <1>8 DEF Phases, ServerLeavesLast, ClientNack, server, client
<1> QED
  BY <1>1, <1>2, <1>9, <1>10

LEMMA NackNowhereStep == IInv /\ ClientNackNowhere => IInv'
<1> SUFFICES ASSUME IInv, ClientNackNowhere PROVE IInv'
  OBVIOUS
<1> USE DEF IInv, TypeOK
<1>1. ServerTypeOK'
  BY ServerStays DEF ClientNackNowhere
<1>2. ClientTypeOK' /\ RecvSizeExact' /\ DoneMeansComplete'
  BY DEF ClientNackNowhere, ClientTypeOK, RecvSizeExact, DoneMeansComplete
<1>3. NetworkTypeOK'
  BY DEF ClientNackNowhere, network, NetworkTypeOK
<1>4. Phases' /\ ServerLeavesLast'
  BY DEF Phases, ServerLeavesLast, ClientNackNowhere, network, server
<1> QED
  BY <1>1, <1>2, <1>3, <1>4

-----------------------------------------------------------------------------
\* The network.

LEMMA LoseStep == IInv /\ Lose => IInv'
<1> SUFFICES ASSUME IInv, Lose PROVE IInv'
  OBVIOUS
<1> USE DEF IInv, TypeOK
<1>1. ServerTypeOK'
  BY ServerStays DEF Lose
<1>2. ClientTypeOK' /\ RecvSizeExact' /\ DoneMeansComplete'
  BY ClientStays DEF Lose
<1>3. /\ Carries(toServer', ServerBound) /\ DOMAIN toServer' \subseteq DOMAIN toServer
      /\ Carries(toClient', ClientBound)
  <2>1. CASE UNCHANGED toClient /\ \E d \in DOMAIN toServer : toServer' = Take(toServer, d)
    BY <2>1, TakeCarries, NetworkCarries
  <2>2. CASE UNCHANGED toServer /\ \E d \in DOMAIN toClient : toClient' = Take(toClient, d)
    BY <2>2, TakeCarries, NetworkCarries
  <2> QED
    BY <2>1, <2>2 DEF Lose
<1>4. lost' \in 0 .. MaxLost
  BY ConstantFacts DEF Lose, NetworkTypeOK
<1>5. NetworkTypeOK'
  BY <1>3, <1>4 DEF Lose, NetworkTypeOK, Carries
<1>6. Phases' /\ ServerLeavesLast'
  BY <1>3 DEF Phases, ServerLeavesLast, Lose, server, client
<1> QED
  BY <1>1, <1>2, <1>5, <1>6

LEMMA DuplicateStep == IInv /\ Duplicate => IInv'
<1> SUFFICES ASSUME IInv, Duplicate PROVE IInv'
  OBVIOUS
<1> USE DEF IInv, TypeOK
<1>1. ServerTypeOK'
  BY ServerStays DEF Duplicate
<1>2. ClientTypeOK' /\ RecvSizeExact' /\ DoneMeansComplete'
  BY ClientStays DEF Duplicate
<1>3. /\ Carries(toServer', ServerBound) /\ DOMAIN toServer' = DOMAIN toServer
      /\ Carries(toClient', ClientBound)
  <2>0. Carries(toServer, ServerBound) /\ Carries(toClient, ClientBound)
    BY NetworkCarries
  <2>1. CASE UNCHANGED toClient /\ \E d \in DOMAIN toServer : toServer' = Put(toServer, d)
    <3>1. PICK d \in DOMAIN toServer : toServer' = Put(toServer, d)
      BY <2>1
    <3>2. d \in ServerBound
      BY DEF NetworkTypeOK
    <3>3. Carries(Put(toServer, d), ServerBound) /\ DOMAIN Put(toServer, d) = DOMAIN toServer \cup {d}
      BY <2>0, <3>2, PutCarries
    <3> QED
      BY <2>0, <2>1, <3>1, <3>3
  <2>2. CASE UNCHANGED toServer /\ \E d \in DOMAIN toClient : toClient' = Put(toClient, d)
    <3>1. PICK d \in DOMAIN toClient : toClient' = Put(toClient, d)
      BY <2>2
    <3>2. d \in ClientBound
      BY DEF NetworkTypeOK
    <3> QED
      BY <2>0, <2>2, <3>1, <3>2, PutCarries
  <2> QED
    BY <2>1, <2>2 DEF Duplicate
<1>4. dups' \in 0 .. MaxDup
  BY ConstantFacts DEF Duplicate, NetworkTypeOK
<1>5. NetworkTypeOK'
  BY <1>3, <1>4 DEF Duplicate, NetworkTypeOK, Carries
<1>6. Phases' /\ ServerLeavesLast'
  BY <1>3 DEF Phases, ServerLeavesLast, Duplicate, server, client
<1> QED
  BY <1>1, <1>2, <1>5, <1>6

-----------------------------------------------------------------------------
LEMMA StepIInv == IInv /\ [Next]_vars => IInv'
<1> SUFFICES ASSUME IInv, [Next]_vars PROVE IInv'
  OBVIOUS
<1>1. CASE ServerRecvRequest
  BY <1>1, RecvRequestStep
<1>2. CASE ServerRecvAck
  BY <1>2, RecvAckStep
<1>3. CASE ServerPass
  BY <1>3, PassStep
<1>4. CASE ServerRecvNack
  BY <1>4, RecvNackStep
<1>5. CASE ServerResend
  BY <1>5, ResendStep
<1>6. CASE ClientRequest
  BY <1>6, RequestStep
<1>7. CASE ClientRecvSize
  BY <1>7, RecvSizeStep
<1>8. ASSUME NEW d \in ClientBound, ClientRecv(d) PROVE IInv'
  BY <1>8, IgnoreStep, KeepStep, CrashStep DEF ClientRecv
<1>9. CASE ClientNack
  BY <1>9, NackStep
<1>10. CASE ClientNackNowhere
  BY <1>10, NackNowhereStep
<1>11. CASE Lose
  BY <1>11, LoseStep
<1>12. CASE Duplicate
  BY <1>12, DuplicateStep
<1>13. CASE UNCHANGED vars
  <2>1. UNCHANGED <<server, client, network>>
    BY <1>13 DEF vars, server, client, network
  <2>2. ServerTypeOK' /\ ClientTypeOK' /\ RecvSizeExact' /\ DoneMeansComplete'
    BY <2>1, ServerStays, ClientStays DEF IInv, TypeOK
  <2>3. NetworkTypeOK'
    BY <2>1 DEF IInv, TypeOK, NetworkTypeOK, network
  <2>4. Phases' /\ ServerLeavesLast'
    BY <2>1 DEF IInv, Phases, ServerLeavesLast, server, client, network
  <2> QED
    BY <2>2, <2>3, <2>4 DEF IInv, TypeOK
<1> QED
  BY <1>1, <1>2, <1>3, <1>4, <1>5, <1>6, <1>7, <1>8, <1>9, <1>10, <1>11, <1>12, <1>13 DEF Next

LEMMA Inductive == Spec => []IInv
BY InitIInv, StepIInv, PTL DEF Spec

\* The variables have their types, whatever the network loses, duplicates and
\* reorders and whatever uninitialised words the server reads; in particular no
\* message but the client's -1 starts with a negative word.
THEOREM TypeOKAlways == Spec => []TypeOK
<1>1. IInv => TypeOK
  BY DEF IInv
<1> QED
  BY <1>1, Inductive, PTL

\* recvSize is the bytes of the marked blocks: no duplicate, retransmission,
\* empty answer or number past the last block is counted.
THEOREM RecvSizeExactAlways == Spec => []RecvSizeExact
<1>1. IInv => RecvSizeExact
  BY DEF IInv
<1> QED
  BY <1>1, Inductive, PTL

\* The client's test recvSize >= fileSize holds only when no block of the size
\* it was told is missing.
THEOREM DoneMeansCompleteAlways == Spec => []DoneMeansComplete
<1>1. IInv => DoneMeansComplete
  BY DEF IInv
<1> QED
  BY <1>1, Inductive, PTL

\* The server reports "File Sent" only after the client has reported the file:
\* nackhandle takes nothing but a client's -1 for the end.
THEOREM ServerLeavesLastAlways == Spec => []ServerLeavesLast
<1>1. IInv => ServerLeavesLast
  BY DEF IInv
<1> QED
  BY <1>1, Inductive, PTL
=============================================================================
