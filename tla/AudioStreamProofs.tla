-------------------------- MODULE AudioStreamProofs --------------------------
(***************************************************************************)
(* Proofs about AudioStream, for every file, every payload and every size  *)
(* of the buffer: the types, that the semaphore covers what is buffered,   *)
(* that a signal always finds a datagram, and that bytes are played in     *)
(* order unless the handler came in a critical section.                    *)
(***************************************************************************)
EXTENDS AudioStream, SequenceTheorems, TLAPS

-----------------------------------------------------------------------------
(* The network. *)

LEMMA ConstantFacts ==
  /\ Packets \in Nat /\ pyld_sz \in Nat /\ pyld_sz > 0 /\ max_buf_sz \in Nat
  /\ Sizes \subseteq Nat
  /\ MaxLost \in Nat /\ MaxDup \in Nat
  /\ Copies \in Nat /\ Copies > 0
BY ConstantsAssumption, CopiesAssumption

\* net carries only datagrams of S, and not too many of each.
Carries(n, S) == DOMAIN n \subseteq S /\ n \in [DOMAIN n -> 1..Copies]

LEMMA PutCarries ==
  ASSUME NEW S, NEW n, Carries(n, S), NEW d \in S
  PROVE  Carries(Put(n, d), S)
<1>1. DOMAIN Put(n, d) = DOMAIN n \cup {d}
  BY DEF Put
<1>2. \A e \in DOMAIN Put(n, d) :
        Put(n, d)[e] = IF e # d THEN n[e]
                       ELSE IF d \notin DOMAIN n THEN 1
                       ELSE IF n[d] < Copies THEN n[d] + 1 ELSE n[d]
  BY DEF Put
<1>3. ASSUME NEW e \in DOMAIN Put(n, d) PROVE Put(n, d)[e] \in 1..Copies
  BY <1>1, <1>2, ConstantFacts DEF Carries
<1>4. Put(n, d) \in [DOMAIN Put(n, d) -> 1..Copies]
  <2>1. Put(n, d) = [e \in DOMAIN Put(n, d) |-> Put(n, d)[e]]
    BY DEF Put
  <2> QED
    BY <1>3, <2>1
<1> QED
  BY <1>1, <1>4 DEF Carries

LEMMA TakeCarries ==
  ASSUME NEW S, NEW n, Carries(n, S), NEW d \in DOMAIN n
  PROVE  Carries(Take(n, d), S)
<1>1. DOMAIN Take(n, d) = {f \in DOMAIN n : f # d \/ n[f] > 1}
  BY DEF Take
<1>2. \A e \in DOMAIN Take(n, d) : Take(n, d)[e] = IF e = d THEN n[e] - 1 ELSE n[e]
  BY DEF Take
<1>3. ASSUME NEW e \in DOMAIN Take(n, d) PROVE Take(n, d)[e] \in 1..Copies
  <2>1. n[e] \in 1..Copies /\ (e = d => n[e] > 1)
    BY <1>1 DEF Carries
  <2> QED
    BY <1>2, <2>1, ConstantFacts
<1>4. Take(n, d) \in [DOMAIN Take(n, d) -> 1..Copies]
  <2>1. Take(n, d) = [e \in DOMAIN Take(n, d) |-> Take(n, d)[e]]
    BY DEF Take
  <2> QED
    BY <1>3, <2>1
<1> QED
  BY <1>1, <1>4 DEF Carries

-----------------------------------------------------------------------------
(* Stretches of the buffer. *)

\* What bytes i.. of a buffer b hold, n of them.
Stretch(b, i, n) == [k \in 1..n |-> b[i + k - 1]]

Buffers == [0..max_buf_sz -> 0..Packets]

LEMMA StretchType ==
  ASSUME NEW b \in Buffers, NEW i \in Nat, NEW n \in Nat, i + n <= max_buf_sz + 1
  PROVE  /\ Stretch(b, i, n) \in Seq(0..Packets)
         /\ Len(Stretch(b, i, n)) = n
         /\ \A k \in 1..n : Stretch(b, i, n)[k] = b[i + k - 1]
<1>1. \A k \in 1..n : i + k - 1 \in 0..max_buf_sz
  BY ConstantFacts
<1>2. Stretch(b, i, n) \in [1..n -> 0..Packets]
  BY <1>1 DEF Stretch, Buffers
<1>3. Stretch(b, i, n) \in Seq(0..Packets)
  BY <1>2, SeqDef
<1>4. Len(Stretch(b, i, n)) = n
  BY <1>2, <1>3, LenProperties
<1> QED
  BY <1>3, <1>4 DEF Stretch

\* Two stretches that meet make one.
LEMMA StretchJoin ==
  ASSUME NEW b \in Buffers, NEW i \in Nat, NEW m \in Nat, NEW n \in Nat,
         i + m + n <= max_buf_sz + 1
  PROVE  Stretch(b, i, m) \o Stretch(b, i + m, n) = Stretch(b, i, m + n)
<1> DEFINE s == Stretch(b, i, m)
           t == Stretch(b, i + m, n)
           u == Stretch(b, i, m + n)
<1>1. /\ s \in Seq(0..Packets) /\ Len(s) = m
      /\ \A k \in 1..m : s[k] = b[i + k - 1]
  <2>1. i + m <= max_buf_sz + 1
    BY ConstantFacts
  <2> QED
    BY <2>1, StretchType
<1>2. /\ t \in Seq(0..Packets) /\ Len(t) = n
      /\ \A k \in 1..n : t[k] = b[i + m + k - 1]
  <2>1. i + m \in Nat /\ (i + m) + n <= max_buf_sz + 1
    BY ConstantFacts
  <2> QED
    BY <2>1, StretchType
<1>3. /\ u \in Seq(0..Packets) /\ Len(u) = m + n
      /\ \A k \in 1..m + n : u[k] = b[i + k - 1]
  BY StretchType, ConstantFacts
<1> HIDE DEF s, t, u
<1>4. /\ s \o t \in Seq(0..Packets) /\ Len(s \o t) = m + n
      /\ \A k \in 1..m + n : (s \o t)[k] = IF k <= m THEN s[k] ELSE t[k - m]
  <2>1. s \in Seq(0..Packets) /\ t \in Seq(0..Packets) /\ Len(s) = m /\ Len(t) = n
    BY <1>1, <1>2
  <2> QED
    BY <2>1, ConcatProperties
<1>5. ASSUME NEW k \in 1..m + n PROVE (s \o t)[k] = u[k]
  <2>1. (s \o t)[k] = (IF k <= m THEN s[k] ELSE t[k - m]) /\ u[k] = b[i + k - 1]
    BY <1>3, <1>4
  <2>2. CASE k <= m
    <3>1. k \in 1..m
      BY <2>2
    <3> QED
      BY <1>1, <2>1, <2>2, <3>1
  <2>3. CASE ~(k <= m)
    <3>1. k - m \in 1..n /\ i + m + (k - m) - 1 = i + k - 1
      BY <2>3
    <3>2. t[k - m] = b[i + k - 1]
      BY <1>2, <3>1
    <3> QED
      BY <2>1, <2>3, <3>2
  <2> QED
    BY <2>2, <2>3
<1>6. s \o t = u
  BY <1>3, <1>4, <1>5, SeqEqual
<1> QED
  BY <1>6 DEF s, t, u

-----------------------------------------------------------------------------
(* The inductive invariant. *)

\* What the client's main program knows where it stands.
Standing ==
  /\ pc = "start" => level = 0 /\ ~transmitting
  /\ pc = "zero" /\ ~raced => level = 0
  /\ pc \in {"big", "move", "load"} => level >= pyld_sz
  /\ pc = "store" => tmp >= pyld_sz /\ tmp <= level /\ (~raced => tmp = level)
  /\ pc \in {"move", "load", "store"} =>
       level + Len(played) <= Len(heard) + pyld_sz

Inv == TypeOK /\ SemCovers /\ LevelIsBacklog /\ NeverEmptyHanded /\ Standing

\* The parts of the types that only the network, the handler and the
\* player change.
NetType == Carries(net, Messages) /\ lost \in 0..MaxLost /\ copied \in 0..MaxDup
SocketType == queue \in Seq(Messages) /\ pending \in BOOLEAN
BufferType ==
  /\ pc \in {"start", "zero", "sleep", "try", "play", "small", "clear", "big",
             "move", "load", "store", "loop", "done", "smashed", "error"}
  /\ transmitting \in BOOLEAN
  /\ level \in 0..max_buf_sz + 1 /\ tmp \in 0..max_buf_sz + 1
  /\ buffer \in Buffers
  /\ full \in Nat
  /\ reported \in 0..max_buf_sz + 1
  /\ heard \in Seq(1..Packets) /\ played \in Seq(0..Packets)
  /\ raced \in BOOLEAN

LEMMA TypesApart ==
  TypeOK <=> /\ sent \in 0..Packets /\ state \in {"BUSY", "READY"}
             /\ NetType /\ SocketType /\ BufferType
BY DEF TypeOK, NetType, SocketType, BufferType, Carries, Buffers

LEMMA InitInv == Init => Inv
<1> SUFFICES ASSUME Init PROVE Inv
  OBVIOUS
<1>1. NetType
  BY ConstantFacts DEF Init, NetType, Carries, NoDatagrams
<1>2. SocketType
  BY EmptySeq DEF Init, SocketType
<1>3. BufferType
  <2>1. <<>> \in Seq(1..Packets) /\ <<>> \in Seq(0..Packets)
    BY EmptySeq
  <2>2. [i \in 0..max_buf_sz |-> 0] \in Buffers
    BY ConstantFacts DEF Buffers
  <2> QED
    BY <2>1, <2>2, ConstantFacts DEF Init, BufferType
<1>4. TypeOK
  BY <1>1, <1>2, <1>3, TypesApart, ConstantFacts DEF Init
<1>5. Len(heard) = 0 /\ Len(played) = 0
  BY DEF Init
<1> QED
  BY <1>4, <1>5, ConstantFacts
     DEF Init, Inv, SemCovers, Plays, Playing, LevelIsBacklog, NeverEmptyHanded, Standing

LEMMA MainFacts ==
  ASSUME Inv
  PROVE  /\ level \in Nat /\ level <= max_buf_sz + 1 /\ tmp \in Nat /\ full \in Nat
         /\ tmp <= max_buf_sz + 1
         /\ buffer \in Buffers /\ transmitting \in BOOLEAN
         /\ heard \in Seq(1..Packets) /\ played \in Seq(0..Packets)
         /\ Len(heard) \in Nat /\ Len(played) \in Nat
<1>1. heard \in Seq(1..Packets) /\ played \in Seq(0..Packets)
  BY DEF Inv, TypeOK
<1>2. Len(heard) \in Nat /\ Len(played) \in Nat
  BY <1>1, LenProperties
<1>3. buffer \in Buffers /\ transmitting \in BOOLEAN
  BY DEF Inv, TypeOK, Buffers
<1> QED
  BY <1>1, <1>2, <1>3, ConstantFacts DEF Inv, TypeOK

\* The server and the network leave the client alone, but for its socket.
LEMMA OutsideInv ==
  ASSUME TypeOK', SemCovers, LevelIsBacklog, NeverEmptyHanded, Standing,
         UNCHANGED clientVars,
         pending' => queue' # <<>>
  PROVE  Inv'
BY DEF Inv, clientVars, SemCovers, Plays, Playing, LevelIsBacklog, NeverEmptyHanded, Standing

LEMMA ServerInv == Inv /\ Server => Inv'
<1> SUFFICES ASSUME Inv, Server PROVE Inv'
  OBVIOUS
<1>0. /\ NetType /\ SocketType /\ BufferType
      /\ sent \in 0..Packets /\ state \in {"BUSY", "READY"}
  BY TypesApart DEF Inv
<1>1. UNCHANGED <<clientVars, queue, pending, lost, copied>>
  BY DEF Server, SendPacket, SendEnd, clientVars
<1>2. Carries(net', Messages)
  <2>1. CASE SendPacket
    <3>1. PICK n \in Sizes : net' = Put(net, [packet |-> sent + 1, size |-> n])
      BY <2>1 DEF SendPacket
    <3>2. [packet |-> sent + 1, size |-> n] \in Messages
      BY <1>0, <2>1, ConstantFacts DEF SendPacket, Messages
    <3> QED
      BY <1>0, <3>1, <3>2, PutCarries DEF NetType
  <2>2. CASE SendEnd
    <3>1. God \in Messages
      BY DEF Messages
    <3>2. Carries(Put(net, God), Messages)
      BY <1>0, <3>1, PutCarries DEF NetType
    <3>3. Carries(Put(Put(net, God), God), Messages)
      BY <3>1, <3>2, PutCarries
    <3>4. Carries(Put(Put(Put(net, God), God), God), Messages)
      BY <3>1, <3>3, PutCarries
    <3> QED
      BY <2>2, <3>4 DEF SendEnd, Goodbyes
  <2> QED
    BY <2>1, <2>2 DEF Server
<1>3. sent' \in 0..Packets /\ state' \in {"BUSY", "READY"}
  BY <1>0, ConstantFacts DEF Server, SendPacket, SendEnd
<1>4. NetType' /\ SocketType' /\ BufferType'
  BY <1>0, <1>1, <1>2 DEF NetType, SocketType, BufferType, clientVars
<1>5. TypeOK'
  BY <1>3, <1>4 DEF TypeOK, NetType, SocketType, BufferType, Carries, Buffers
<1> QED
  BY <1>1, <1>5, OutsideInv DEF Inv, NeverEmptyHanded

LEMMA NetworkInv ==
  ASSUME Inv, NEW d \in DOMAIN net, Arrive(d) \/ Lose(d) PROVE Inv'
<1>0. /\ NetType /\ SocketType /\ BufferType
      /\ sent \in 0..Packets /\ state \in {"BUSY", "READY"}
  BY TypesApart DEF Inv
<1>1. UNCHANGED <<clientVars, sent, state>>
  BY DEF Arrive, Lose
<1>2. Carries(Take(net, d), Messages) /\ d \in Messages
  BY <1>0, TakeCarries DEF NetType, Carries
<1>3. NetType'
  BY <1>0, <1>2, ConstantFacts DEF NetType, Arrive, Lose
<1>4. SocketType' /\ (pending' => queue' # <<>>)
  <2>1. CASE Arrive(d)
    <3>1. Append(queue, d) \in Seq(Messages) /\ Append(queue, d) # <<>>
      BY <1>0, <1>2 DEF SocketType
    <3> QED
      BY <2>1, <3>1 DEF Arrive, SocketType
  <2>2. CASE Lose(d)
    BY <1>0, <2>2 DEF Lose, SocketType, Inv, NeverEmptyHanded
  <2> QED
    BY <2>1, <2>2
<1>5. BufferType'
  BY <1>0, <1>1 DEF BufferType, clientVars
<1>6. TypeOK'
  BY <1>0, <1>1, <1>3, <1>4, <1>5
     DEF TypeOK, NetType, SocketType, BufferType, Carries, Buffers
<1> QED
  BY <1>1, <1>4, <1>6, OutsideInv DEF Inv

-----------------------------------------------------------------------------
(* The handler. *)

LEMMA HandlerLeavesTypes ==
  ASSUME TypeOK, UNCHANGED <<serverVars, netVars>>, SocketType', BufferType'
  PROVE  TypeOK'
BY DEF TypeOK, serverVars, netVars, NetType, SocketType, BufferType, Carries, Buffers

LEMMA ConsumeType ==
  ASSUME TypeOK, Consume, queue # <<>>
  PROVE  SocketType' /\ ~pending'
<1>1. Tail(queue) \in Seq(Messages)
  BY HeadTailProperties DEF TypeOK
<1> QED
  BY <1>1 DEF Consume, SocketType

LEMMA HandleLateInv == Inv /\ HandleLate => Inv'
<1> SUFFICES ASSUME Inv, HandleLate PROVE Inv'
  OBVIOUS
<1>1. SocketType' /\ BufferType'
  BY TypesApart DEF Inv, HandleLate, SocketType, BufferType, clientVars
<1>2. TypeOK'
  BY <1>1, HandlerLeavesTypes DEF Inv, HandleLate
<1> QED
  BY <1>2, OutsideInv DEF Inv, HandleLate

\* The handler that finds no packet finds an end marker.
LEMMA EndIsThere ==
  Inv /\ HandleEnd => Consume /\ transmitting' = FALSE /\ UNCHANGED pc
BY DEF Inv, NeverEmptyHanded, HandleEnd

LEMMA HandleEndInv == Inv /\ HandleEnd => Inv'
<1> SUFFICES ASSUME Inv, HandleEnd PROVE Inv'
  OBVIOUS
<1>1. SocketType' /\ ~pending'
  BY EndIsThere, ConsumeType DEF Inv, HandleEnd
<1>2. BufferType'
  BY EndIsThere, TypesApart DEF Inv, HandleEnd, BufferType
<1>3. TypeOK'
  BY <1>1, <1>2, EndIsThere, HandlerLeavesTypes DEF Inv, HandleEnd
<1> QED
  BY <1>1, <1>3, EndIsThere
     DEF HandleEnd, Inv, SemCovers, Plays, Playing, LevelIsBacklog, NeverEmptyHanded, Standing

\* The bytes of a packet.
Payload(d) == [i \in 1..d.size |-> d.packet]

LEMMA PacketFacts ==
  ASSUME TypeOK, queue # <<>>, Head(queue) # God
  PROVE  /\ Head(queue).packet \in 1..Packets
         /\ Head(queue).size \in Nat /\ Head(queue).size <= pyld_sz
         /\ Payload(Head(queue)) \in Seq(1..Packets)
         /\ Len(Payload(Head(queue))) = Head(queue).size
<1> DEFINE d == Head(queue)
<1>1. d \in [packet : 1..Packets, size : Sizes]
  BY HeadTailProperties DEF TypeOK, Messages
<1>2. d.packet \in 1..Packets /\ d.size \in Nat /\ d.size <= pyld_sz
  <2>1. d.packet \in 1..Packets /\ d.size \in Sizes
    BY <1>1
  <2>2. d.size \in 0..pyld_sz /\ pyld_sz \in Nat
    BY <2>1, ConstantsAssumption
  <2> QED
    BY <2>1, <2>2
<1>3. Payload(d) \in [1..d.size -> 1..Packets]
  BY <1>2 DEF Payload
<1>4. Payload(d) \in Seq(1..Packets)
  BY <1>2, <1>3, SeqDef
<1>5. Len(Payload(d)) = d.size
  BY <1>2, <1>3, <1>4, LenProperties
<1> QED
  BY <1>2, <1>4, <1>5

LEMMA HandlePacketInv == Inv /\ HandlePacket => Inv'
<1> SUFFICES ASSUME Inv, HandlePacket PROVE Inv'
  OBVIOUS
<1> DEFINE d == Head(queue)
           n == d.size
<1>1. SocketType' /\ ~pending'
  BY ConsumeType DEF Inv, HandlePacket
<1>2. /\ d.packet \in 1..Packets /\ n \in Nat /\ n <= pyld_sz
      /\ Payload(d) \in Seq(1..Packets) /\ Len(Payload(d)) = n
  BY PacketFacts DEF Inv, HandlePacket
<1>3. heard \in Seq(1..Packets) /\ played \in Seq(0..Packets)
  BY DEF Inv, TypeOK
<1>4. /\ heard' = heard \o Payload(d)
      /\ heard' \in Seq(1..Packets)
      /\ Len(heard') = Len(heard) + n
      /\ Len(heard) \in Nat /\ Len(played) \in Nat
  <2>1. heard' = heard \o Payload(d)
    BY DEF HandlePacket, Payload
  <2> QED
    BY <1>2, <1>3, <2>1, ConcatProperties, LenProperties
<1>5. /\ UNCHANGED <<serverVars, netVars, transmitting, tmp, played>>
      /\ reported' = level
      /\ Running /\ transmitting
  BY DEF HandlePacket
<1>a. \/ /\ level + n > max_buf_sz + 1
         /\ pc' = "smashed" /\ UNCHANGED <<buffer, level, full, raced>>
      \/ /\ ~(level + n > max_buf_sz + 1)
         /\ buffer' = Appended(d)
         /\ level' = level + n
         /\ full' = full + 1
         /\ raced' = (raced \/ (n > 0 /\ pc \in Critical))
         /\ pc' = pc
  BY DEF HandlePacket, Posted
<1>b. buffer' = Appended(d) => buffer' \in Buffers
  <2>1. buffer \in [0..max_buf_sz -> 0..Packets] /\ d.packet \in 0..Packets
    <3>1. d.packet \in 0..Packets
      BY <1>2, ConstantFacts
    <3> QED
      BY <3>1 DEF Inv, TypeOK
  <2> QED
    BY <2>1 DEF Appended, Buffers
<1> HIDE DEF d, n
<1>6. CASE level + n > max_buf_sz + 1
  <2>1. pc' = "smashed" /\ UNCHANGED <<buffer, level, full, raced>>
    BY <1>6, <1>a
  <2>2. BufferType'
    BY <1>4, <1>5, <2>1, TypesApart DEF Inv, BufferType
  <2>3. TypeOK'
    BY <1>1, <1>5, <2>2, HandlerLeavesTypes DEF Inv
  <2>4. SemCovers'
    BY <2>1 DEF SemCovers
  <2>5. LevelIsBacklog'
    BY <1>2, <1>4, <1>5, <2>1 DEF Inv, LevelIsBacklog
  <2>6. NeverEmptyHanded' /\ Standing'
    BY <1>1, <2>1 DEF NeverEmptyHanded, Standing
  <2> QED
    BY <2>3, <2>4, <2>5, <2>6 DEF Inv
<1>7. CASE ~(level + n > max_buf_sz + 1)
  <2>1. /\ buffer' = Appended(d)
        /\ level' = level + n
        /\ full' = full + 1
        /\ raced' = (raced \/ (n > 0 /\ pc \in Critical))
        /\ pc' = pc
    BY <1>7, <1>a
  <2>2. level \in Nat /\ full \in Nat /\ level' <= max_buf_sz + 1 /\ tmp \in Nat
    <3>1. level \in Nat /\ full \in Nat /\ tmp \in Nat
      BY MainFacts
    <3> QED
      BY <1>2, <1>7, <2>1, <3>1, ConstantFacts
  <2>3. buffer' \in Buffers
    BY <2>1, <1>b
  <2>4. level' \in 0..max_buf_sz + 1 /\ full' \in Nat /\ raced' \in BOOLEAN
    <3>1. raced' \in BOOLEAN
      BY <2>1
    <3> QED
      BY <1>2, <2>1, <2>2, <3>1, ConstantFacts
  <2>5. BufferType'
    BY <1>4, <1>5, <2>1, <2>3, <2>4, TypesApart DEF Inv, BufferType
  <2>6. TypeOK'
    BY <1>1, <1>5, <2>5, HandlerLeavesTypes DEF Inv
  <2>7. SemCovers'
    <3>1. pc # "smashed" /\ Plays \in Nat /\ Plays' = Plays + 1
      BY <1>5, <2>1, <2>2 DEF Running, Plays, Playing
    <3>2. level <= pyld_sz * Plays
      BY <3>1 DEF Inv, SemCovers
    <3>3. pyld_sz * (Plays + 1) = pyld_sz * Plays + pyld_sz /\ pyld_sz * Plays \in Nat
      BY <3>1, ConstantFacts
    <3>4. level + n <= pyld_sz * (Plays + 1)
      BY <1>2, <2>2, <3>2, <3>3, ConstantFacts
    <3>5. level' <= pyld_sz * Plays'
      BY <2>1, <3>1, <3>4
    <3> QED
      BY <3>5 DEF SemCovers
  <2>8. LevelIsBacklog'
    BY <1>2, <1>4, <1>5, <2>1, <2>2 DEF Inv, LevelIsBacklog
  <2>9. NeverEmptyHanded'
    BY <1>1, <2>1 DEF Inv, NeverEmptyHanded
  <2>10. Standing'
    <3>1. pc # "start"
      BY <1>5 DEF Inv, Standing
    <3>2. ~raced' => ~raced /\ (pc \in Critical => ~(n > 0))
      BY <2>1
    <3>3. pc \in {"zero", "store"} /\ ~raced' => ~raced /\ n = 0
      BY <1>2, <3>2 DEF Critical, Starting, Updating
    <3> QED
      BY <1>2, <1>4, <1>5, <2>1, <2>2, <3>1, <3>3, ConstantFacts
         DEF Inv, Standing
  <2> QED
    BY <2>6, <2>7, <2>8, <2>9, <2>10 DEF Inv
<1> QED
  BY <1>6, <1>7

-----------------------------------------------------------------------------
(* The main program. *)

LEMMA MainLeavesTypes ==
  ASSUME TypeOK, UNCHANGED mainOnly,
         pc' \in {"start", "zero", "sleep", "try", "play", "small", "clear",
                 "big", "move", "load", "store", "loop", "done"},
         transmitting' \in BOOLEAN,
         level' \in 0..max_buf_sz + 1, tmp' \in 0..max_buf_sz + 1,
         buffer' \in Buffers, full' \in Nat, played' \in Seq(0..Packets)
  PROVE  TypeOK'
BY DEF TypeOK, mainOnly, Buffers

LEMMA MoreCountsCoverMore ==
  ASSUME NEW a \in Nat, NEW b \in Nat, b >= a
  PROVE  /\ pyld_sz * a \in Nat /\ pyld_sz * b \in Nat
         /\ pyld_sz * b >= pyld_sz * a
<1>1. \A k \in Nat : pyld_sz * k \in Nat
  BY ConstantFacts
<1>2. b - a \in Nat /\ b = a + (b - a)
  OBVIOUS
<1>3. pyld_sz * (a + (b - a)) = pyld_sz * a + pyld_sz * (b - a)
  BY <1>2, ConstantFacts
<1> QED
  BY <1>1, <1>2, <1>3

\* The steps that only look, and those of the semaphore.
LEMMA LookInv ==
  ASSUME Inv, Begin \/ Zero \/ Wake \/ TryWait \/ Compare \/ Clear \/ Load \/ Loop
  PROVE  Inv'
<1>1. /\ level \in Nat /\ level <= max_buf_sz + 1 /\ tmp \in Nat /\ full \in Nat
      /\ tmp <= max_buf_sz + 1
      /\ buffer \in Buffers /\ transmitting \in BOOLEAN
      /\ played \in Seq(0..Packets)
      /\ Len(heard) \in Nat /\ Len(played) \in Nat
  BY MainFacts
<1>2. UNCHANGED mainOnly /\ UNCHANGED <<buffer, played>>
  BY DEF Begin, Zero, Wake, TryWait, Compare, Clear, Load, Loop
<1>3. TypeOK'
  <2>1. transmitting' \in BOOLEAN
    BY <1>1 DEF Begin, Zero, Wake, TryWait, Compare, Clear, Load, Loop
  <2>2. /\ level' \in 0..max_buf_sz + 1 /\ tmp' \in 0..max_buf_sz + 1 /\ full' \in Nat
    BY <1>1, ConstantFacts DEF Begin, Zero, Wake, TryWait, Compare, Clear, Load, Loop
  <2>3. pc' \in {"start", "zero", "sleep", "try", "play", "small", "clear",
                 "big", "move", "load", "store", "loop", "done"}
    BY DEF Begin, Zero, Wake, TryWait, Compare, Clear, Load, Loop
  <2> QED
    BY <1>1, <1>2, <2>1, <2>2, <2>3, MainLeavesTypes DEF Inv
<1>4. NeverEmptyHanded'
  BY <1>2, <1>3 DEF Inv, NeverEmptyHanded, mainOnly, Begin, Zero, Wake, TryWait,
     Compare, Clear, Load, Loop
<1>5. SemCovers'
  <2>1. pc # "smashed"
    BY DEF Begin, Zero, Wake, TryWait, Compare, Clear, Load, Loop
  <2>2. full' \in Nat
    BY <1>3 DEF TypeOK
  <2>3. Plays \in Nat /\ Plays' \in Nat
    <3>1. full \in Nat /\ full + 1 \in Nat
      BY <1>1
    <3>2. full' + 1 \in Nat
      <4>1. \A k \in Nat : k + 1 \in Nat
        OBVIOUS
      <4> QED
        BY <2>2, <4>1
    <3> QED
      BY <2>2, <3>1, <3>2 DEF Plays
  <2>4. level <= pyld_sz * Plays
    BY <2>1 DEF Inv, SemCovers
  <2>5. \/ level' = level /\ Plays' >= Plays
        \/ level' = 0
    <3>1. CASE Zero \/ Clear
      BY <3>1 DEF Zero, Clear
    <3>2. CASE Begin \/ Wake \/ TryWait \/ Compare \/ Load \/ Loop
      BY <1>1, <3>2 DEF Begin, Wake, TryWait, Compare, Load, Loop, Plays, Playing
    <3> QED
      BY <3>1, <3>2
  <2>6. level' <= pyld_sz * Plays'
    <3>1. CASE level' = 0
      BY <2>3, <3>1, MoreCountsCoverMore
    <3>2. CASE level' = level /\ Plays' >= Plays
      <4>1. /\ pyld_sz * Plays \in Nat /\ pyld_sz * Plays' \in Nat
            /\ pyld_sz * Plays' >= pyld_sz * Plays
        BY <2>3, <3>2, MoreCountsCoverMore
      <4> QED
        BY <1>1, <2>4, <3>2, <4>1
    <3> QED
      BY <2>5, <3>1, <3>2
  <2> QED
    BY <2>6 DEF SemCovers
<1>6. LevelIsBacklog'
  BY <1>1, <1>2, ConstantFacts
     DEF Inv, LevelIsBacklog, Standing, mainOnly, Begin, Zero, Wake, TryWait,
     Compare, Clear, Load, Loop
<1>7. Standing'
  BY <1>1, <1>2, ConstantFacts
     DEF Inv, LevelIsBacklog, Standing, mainOnly, Begin, Zero, Wake, TryWait,
     Compare, LessThanPayload, Clear, Load, Loop
<1> QED
  BY <1>3, <1>4, <1>5, <1>6, <1>7 DEF Inv

\* The bytes that are written come from the buffer.
LEMMA PlayedMore ==
  ASSUME Inv, NEW n \in Nat, n <= level, played' = played \o Bytes(0, n)
  PROVE  /\ played' \in Seq(0..Packets)
         /\ Len(played') = Len(played) + n
<1>1. Stretch(buffer, 0, n) = Bytes(0, n)
  BY DEF Stretch, Bytes
<1>2. 0 + n <= max_buf_sz + 1 /\ buffer \in Buffers /\ played \in Seq(0..Packets)
  BY MainFacts, ConstantFacts
<1>3. Bytes(0, n) \in Seq(0..Packets) /\ Len(Bytes(0, n)) = n
  BY <1>1, <1>2, StretchType
<1>4. /\ played \o Bytes(0, n) \in Seq(0..Packets)
      /\ Len(played \o Bytes(0, n)) = Len(played) + Len(Bytes(0, n))
  BY <1>2, <1>3, ConcatProperties
<1> QED
  BY <1>3, <1>4

LEMMA PlayInv ==
  ASSUME Inv, PlaySmall \/ PlayBig
  PROVE  Inv'
<1>1. /\ level \in Nat /\ level <= max_buf_sz + 1 /\ tmp \in Nat /\ full \in Nat
      /\ tmp <= max_buf_sz + 1
      /\ buffer \in Buffers /\ transmitting \in BOOLEAN
      /\ Len(heard) \in Nat /\ Len(played) \in Nat
  BY MainFacts
<1>2. /\ UNCHANGED mainOnly
      /\ UNCHANGED <<transmitting, level, buffer, full, tmp>>
  BY DEF PlaySmall, PlayBig
<1>3. PICK n \in Nat : /\ n <= level
                       /\ played' = played \o Bytes(0, n)
                       /\ \/ pc = "small" /\ pc' = "clear" /\ n = level
                          \/ pc = "big" /\ pc' = "move" /\ n = pyld_sz
  <2>1. CASE PlaySmall
    BY <1>1, <2>1 DEF PlaySmall
  <2>2. CASE PlayBig
    <3>1. level >= pyld_sz
      BY <2>2 DEF PlayBig, Inv, Standing
    <3> QED
      BY <1>1, <2>2, <3>1, ConstantFacts DEF PlayBig
  <2> QED
    BY <2>1, <2>2
<1>4. played' \in Seq(0..Packets) /\ Len(played') = Len(played) + n
  BY <1>3, PlayedMore
<1>5. TypeOK'
  <2>1. /\ level' \in 0..max_buf_sz + 1 /\ tmp' \in 0..max_buf_sz + 1
    BY <1>1, <1>2, ConstantFacts
  <2> QED
    BY <1>1, <1>2, <1>3, <1>4, <2>1, MainLeavesTypes DEF Inv
<1>6. SemCovers'
  BY <1>2, <1>3 DEF Inv, SemCovers, Plays, Playing
<1>7. LevelIsBacklog' /\ Standing'
  BY <1>1, <1>2, <1>3, <1>4, ConstantFacts
     DEF Inv, LevelIsBacklog, Standing, mainOnly
<1>8. NeverEmptyHanded'
  BY <1>2, <1>3 DEF Inv, NeverEmptyHanded, mainOnly
<1> QED
  BY <1>5, <1>6, <1>7, <1>8 DEF Inv

LEMMA MoveInv == Inv /\ Move => Inv'
<1> SUFFICES ASSUME Inv, Move PROVE Inv'
  OBVIOUS
<1>1. /\ level \in Nat /\ level <= max_buf_sz + 1 /\ tmp \in Nat /\ full \in Nat
      /\ tmp <= max_buf_sz + 1
      /\ buffer \in Buffers /\ transmitting \in BOOLEAN
      /\ played \in Seq(0..Packets)
      /\ Len(heard) \in Nat /\ Len(played) \in Nat
  BY MainFacts
<1>2. level >= pyld_sz
  BY DEF Move, Inv, Standing
<1>3. buffer' \in Buffers
  <2>1. \A i \in 0..max_buf_sz : i < level - pyld_sz => i + pyld_sz \in 0..max_buf_sz
    BY <1>1, <1>2, ConstantFacts
  <2> QED
    BY <1>1, <2>1 DEF Move, Moved, Buffers
<1>4. TypeOK'
  <2>1. level \in 0..max_buf_sz + 1 /\ tmp \in 0..max_buf_sz + 1
    BY <1>1, ConstantFacts
  <2> QED
    BY <1>1, <1>3, <2>1, MainLeavesTypes DEF Inv, Move
<1> QED
  BY <1>1, <1>2, <1>4
     DEF Inv, Move, mainOnly, SemCovers, Plays, Playing, LevelIsBacklog,
     NeverEmptyHanded, Standing

LEMMA StoreInv == Inv /\ Store => Inv'
<1> SUFFICES ASSUME Inv, Store PROVE Inv'
  OBVIOUS
<1>1. /\ level \in Nat /\ level <= max_buf_sz + 1 /\ tmp \in Nat /\ full \in Nat
      /\ tmp <= max_buf_sz + 1
      /\ buffer \in Buffers /\ transmitting \in BOOLEAN
      /\ played \in Seq(0..Packets)
      /\ Len(heard) \in Nat /\ Len(played) \in Nat
  BY MainFacts
<1>2. /\ UNCHANGED mainOnly
      /\ UNCHANGED <<transmitting, buffer, full, tmp, played>>
      /\ pc = "store" /\ pc' = "loop" /\ level' = tmp - pyld_sz
  BY DEF Store, Lowered
<1>3. tmp >= pyld_sz /\ tmp <= level
  BY <1>2 DEF Inv, Standing
<1>4. TypeOK'
  <2>1. level' \in 0..max_buf_sz + 1 /\ tmp' \in 0..max_buf_sz + 1
    BY <1>1, <1>2, <1>3, ConstantFacts
  <2> QED
    BY <1>1, <1>2, <2>1, MainLeavesTypes DEF Inv
<1>5. SemCovers'
  <2>1. level <= pyld_sz * (full + 1)
    BY <1>2 DEF Inv, SemCovers, Plays, Playing
  <2>2. pyld_sz * (full + 1) = pyld_sz * full + pyld_sz /\ pyld_sz * full \in Nat
    BY <1>1, ConstantFacts
  <2>3. level' <= pyld_sz * full
    BY <1>1, <1>2, <1>3, <2>1, <2>2, ConstantFacts
  <2>4. Plays' = full
    BY <1>2 DEF Plays, Playing
  <2> QED
    BY <2>3, <2>4 DEF SemCovers
<1>6. LevelIsBacklog' /\ Standing'
  BY <1>1, <1>2, <1>3, ConstantFacts DEF Inv, LevelIsBacklog, Standing, mainOnly
<1>7. NeverEmptyHanded'
  BY <1>2 DEF Inv, NeverEmptyHanded, mainOnly
<1> QED
  BY <1>4, <1>5, <1>6, <1>7 DEF Inv

-----------------------------------------------------------------------------
(* The invariants. *)

LEMMA NextInv == Inv /\ [Next]_vars => Inv'
<1> SUFFICES ASSUME Inv, [Next]_vars PROVE Inv'
  OBVIOUS
<1>1. CASE Server
  BY <1>1, ServerInv
<1>2. CASE \E d \in DOMAIN net : Arrive(d) \/ Lose(d)
  BY <1>2, NetworkInv
<1>3. CASE Handler
  BY <1>3, HandleLateInv, HandleEndInv, HandlePacketInv DEF Handler
<1>4. CASE Main
  BY <1>4, LookInv, PlayInv, MoveInv, StoreInv DEF Main
<1>5. CASE UNCHANGED vars
  BY <1>5 DEF vars, Inv, TypeOK, SemCovers, Plays, Playing, LevelIsBacklog,
     NeverEmptyHanded, Standing
<1> QED
  BY <1>1, <1>2, <1>3, <1>4, <1>5 DEF Next

LEMMA Invariance == Spec => []Inv
BY InitInv, NextInv, PTL DEF Spec

\* The variables keep their types: the level stays inside shared_buffer as
\* long as the handler has not run past its end.
THEOREM Typing == Spec => []TypeOK
<1>1. Inv => TypeOK
  BY DEF Inv
<1> QED
  BY <1>1, Invariance, PTL

\* The semaphore announces a play for every byte in the buffer, wherever the
\* handler interrupts play_it_back (SemCovers).
THEOREM SemaphoreCovers == Spec => []SemCovers
<1>1. Inv => SemCovers
  BY DEF Inv
<1> QED
  BY <1>1, Invariance, PTL

\* The level never claims more than what was heard and not played
\* (LevelIsBacklog).
THEOREM LevelBounded == Spec => []LevelIsBacklog
<1>1. Inv => LevelIsBacklog
  BY DEF Inv
<1> QED
  BY <1>1, Invariance, PTL

\* One read for each signal and at least one datagram for each signal: the
\* handler never reads from an empty socket (NeverEmptyHanded).
THEOREM SignalFindsDatagram == Spec => []NeverEmptyHanded
<1>1. Inv => NeverEmptyHanded
  BY DEF Inv
<1> QED
  BY <1>1, Invariance, PTL

-----------------------------------------------------------------------------
(* The order of the bytes. *)

\* What will be played, as a stretch of the buffer.
LEMMA RestIs ==
  Rest = CASE pc = "clear" -> <<>>
           [] pc = "move"  -> Stretch(buffer, pyld_sz, level - pyld_sz)
           [] pc \in {"load", "store"} -> Stretch(buffer, 0, level - pyld_sz)
           [] OTHER -> Stretch(buffer, 0, level)
BY DEF Rest, Bytes, Stretch

\* Bytes that are appended at the level continue every stretch that ends there.
LEMMA AppendedContinues ==
  ASSUME Inv, NEW d, d.packet \in 1..Packets, d.size \in Nat,
         level + d.size <= max_buf_sz + 1, buffer' = Appended(d),
         NEW i \in Nat, i <= level
  PROVE  Stretch(buffer', i, level + d.size - i)
           = Stretch(buffer, i, level - i) \o Payload(d)
<1> DEFINE n == d.size
           w == d.packet
           u == Stretch(buffer', i, level + n - i)
           s == Stretch(buffer, i, level - i)
           t == Payload(d)
<1>1. /\ level \in Nat /\ buffer \in Buffers /\ n \in Nat /\ w \in 0..Packets
      /\ max_buf_sz \in Nat /\ level + n <= max_buf_sz + 1
  BY MainFacts, ConstantFacts
<1>2. \A k \in 0..max_buf_sz :
        buffer'[k] = IF k \in level..level + n - 1 THEN w ELSE buffer[k]
  BY <1>1 DEF Appended, Buffers
<1>3. buffer' \in Buffers
  BY <1>1 DEF Appended, Buffers
<1>4. t \in [1..n -> 0..Packets] /\ \A k \in 1..n : t[k] = w
  BY <1>1 DEF Payload
<1>5. t \in Seq(0..Packets) /\ Len(t) = n
  <2>1. t \in Seq(0..Packets)
    BY <1>1, <1>4, SeqDef
  <2> QED
    BY <1>1, <1>4, <2>1, LenProperties
<1> HIDE DEF n, w, t
<1>6. /\ level - i \in Nat /\ i + (level - i) <= max_buf_sz + 1
      /\ level + n - i \in Nat /\ i + (level + n - i) <= max_buf_sz + 1
  BY <1>1
<1>7. /\ s \in Seq(0..Packets) /\ Len(s) = level - i
      /\ \A k \in 1..level - i : s[k] = buffer[i + k - 1]
  BY <1>1, <1>6, StretchType
<1>8. /\ u \in Seq(0..Packets) /\ Len(u) = level + n - i
      /\ \A k \in 1..level + n - i : u[k] = buffer'[i + k - 1]
  BY <1>3, <1>6, StretchType
<1> HIDE DEF u, s
<1>9. /\ s \o t \in Seq(0..Packets) /\ Len(s \o t) = level + n - i
      /\ \A k \in 1..level + n - i :
           (s \o t)[k] = IF k <= level - i THEN s[k] ELSE t[k - (level - i)]
  <2>1. Len(s) + Len(t) = level + n - i
    BY <1>1, <1>5, <1>7
  <2> QED
    BY <1>5, <1>7, <2>1, ConcatProperties
<1>10. ASSUME NEW k \in 1..level + n - i PROVE u[k] = (s \o t)[k]
  <2>1. i + k - 1 \in 0..max_buf_sz
    BY <1>1, <1>6
  <2>2. CASE k <= level - i
    <3>1. k \in 1..level - i /\ i + k - 1 \notin level..level + n - 1
      BY <1>1, <2>2
    <3> QED
      BY <1>2, <1>7, <1>8, <1>9, <2>1, <2>2, <3>1
  <2>3. CASE ~(k <= level - i)
    <3>1. k - (level - i) \in 1..n /\ i + k - 1 \in level..level + n - 1
      BY <1>1, <2>3
    <3>2. u[k] = w
      BY <1>2, <1>8, <2>1, <3>1
    <3>3. t[k - (level - i)] = w
      BY <1>4, <3>1 DEF t, n, w
    <3> QED
      BY <1>9, <2>3, <3>2, <3>3
  <2> QED
    BY <2>2, <2>3
<1>11. u = s \o t
  BY <1>8, <1>9, <1>10, SeqEqual
<1> QED
  BY <1>11 DEF u, s, t, n

LEMMA NoStretch == ASSUME NEW b, NEW i PROVE Stretch(b, i, 0) = <<>>
BY DEF Stretch

LEMMA RestType ==
  ASSUME Inv
  PROVE  Rest \in Seq(0..Packets)
<1>1. /\ level \in Nat /\ level <= max_buf_sz + 1 /\ buffer \in Buffers
      /\ pyld_sz \in Nat
  BY MainFacts, ConstantFacts
<1>2. CASE pc = "clear"
  BY <1>2, RestIs, EmptySeq
<1>3. CASE pc \in {"move", "load", "store"}
  <2>1. level >= pyld_sz
    BY <1>1, <1>3, MainFacts, ConstantFacts DEF Inv, Standing
  <2>2. /\ level - pyld_sz \in Nat /\ pyld_sz + (level - pyld_sz) <= max_buf_sz + 1
        /\ 0 + (level - pyld_sz) <= max_buf_sz + 1
    BY <1>1, <2>1, ConstantFacts
  <2>3. /\ Stretch(buffer, pyld_sz, level - pyld_sz) \in Seq(0..Packets)
        /\ Stretch(buffer, 0, level - pyld_sz) \in Seq(0..Packets)
    BY <1>1, <2>2, StretchType
  <2> QED
    BY <1>3, <2>3, RestIs
<1>4. CASE pc \notin {"clear", "move", "load", "store"}
  <2>1. Stretch(buffer, 0, level) \in Seq(0..Packets)
    BY <1>1, StretchType
  <2> QED
    BY <1>4, <2>1, RestIs
<1> QED
  BY <1>2, <1>3, <1>4

\* The handler adds the packet to what was heard and to the rest alike.
LEMMA HandlerInOrder == Inv /\ InOrder /\ HandlePacket => InOrder'
<1> SUFFICES ASSUME Inv, InOrder, HandlePacket, ~raced', pc' # "smashed"
             PROVE  heard' = played' \o (IF pc' = "done" THEN <<>> ELSE Rest')
  BY DEF InOrder
<1> DEFINE d == Head(queue)
<1>1. /\ buffer' = Appended(d) /\ level' = level + d.size
      /\ raced' = (raced \/ (d.size > 0 /\ pc \in Critical))
      /\ pc' = pc /\ played' = played /\ heard' = heard \o Payload(d)
      /\ level + d.size <= max_buf_sz + 1
      /\ pc \notin {"done", "smashed"}
  <2>1. ~(level + d.size > max_buf_sz + 1)
    BY DEF HandlePacket
  <2>2. d.size \in Nat /\ level \in Nat
    BY PacketFacts, MainFacts DEF Inv, HandlePacket
  <2>3. level + d.size <= max_buf_sz + 1
    BY <2>1, <2>2, ConstantFacts
  <2> QED
    BY <2>1, <2>3 DEF HandlePacket, Running, Payload
<1>2. /\ d.packet \in 1..Packets /\ d.size \in Nat
      /\ Payload(d) \in Seq(1..Packets) /\ Len(Payload(d)) = d.size
  BY PacketFacts DEF Inv, HandlePacket
<1>3. Payload(d) \in Seq(0..Packets)
  BY <1>2, SeqMonotonic, ConstantFacts, 1..Packets \subseteq 0..Packets
<1> HIDE DEF d
<1>4. ~raced /\ (pc \in Critical => ~(d.size > 0))
  BY <1>1
<1>5. heard = played \o Rest
  BY <1>1, <1>4 DEF InOrder
<1>6. /\ level \in Nat /\ buffer \in Buffers /\ pyld_sz \in Nat
      /\ played \in Seq(0..Packets)
  BY MainFacts, ConstantFacts
<1>7. CASE pc \in Critical
  <2>1. d.size = 0
    BY <1>2, <1>4, <1>7
  <2>2. level' = level
    BY <1>1, <1>6, <2>1
  <2>3. buffer' = buffer
    <3>1. level..level + 0 - 1 = {}
      BY <1>6
    <3> QED
      BY <1>1, <1>6, <2>1, <3>1 DEF Appended, Buffers
  <2>4. Payload(d) = <<>>
    BY <1>2, <2>1, EmptySeq
  <2>5. heard' = heard
    BY <1>1, <2>4, ConcatEmptySeq DEF Inv, TypeOK
  <2>6. Rest' = Rest
    BY <1>1, <2>2, <2>3 DEF Rest, Bytes
  <2> QED
    BY <1>1, <1>5, <2>5, <2>6
<1>8. CASE pc \notin Critical
  <2>1. Rest' = Rest \o Payload(d)
    <3>1. CASE pc = "move"
      <4>1. pyld_sz <= level
        BY <1>6, <3>1 DEF Inv, Standing
      <4>2. Rest = Stretch(buffer, pyld_sz, level - pyld_sz)
        BY <3>1, RestIs
      <4>3. Rest' = Stretch(buffer', pyld_sz, level + d.size - pyld_sz)
        <5>1. Rest' = Stretch(buffer', pyld_sz, level' - pyld_sz)
          BY <1>1, <3>1 DEF Rest, Bytes, Stretch
        <5>2. level' - pyld_sz = level + d.size - pyld_sz
          BY <1>1, <1>2, <1>6
        <5> QED
          BY <5>1, <5>2
      <4> QED
        BY <1>1, <1>2, <1>6, <4>1, <4>2, <4>3, AppendedContinues
    <3>2. CASE pc # "move"
      <4>1. Rest = Stretch(buffer, 0, level)
        BY <1>8, <3>2, RestIs DEF Critical, Starting, Updating
      <4>2. Rest' = Stretch(buffer', 0, level + d.size)
        BY <1>1, <1>8, <3>2 DEF Rest, Bytes, Stretch, Critical, Starting, Updating
      <4>3. /\ level - 0 = level /\ level + d.size - 0 = level + d.size
            /\ 0 <= level
        BY <1>2, <1>6
      <4>4. Stretch(buffer', 0, level + d.size - 0)
              = Stretch(buffer, 0, level - 0) \o Payload(d)
        BY <1>1, <1>2, <4>3, AppendedContinues
      <4> QED
        BY <4>1, <4>2, <4>3, <4>4
    <3> QED
      BY <3>1, <3>2
  <2>2. Rest \in Seq(0..Packets)
    BY RestType
  <2>3. (played \o Rest) \o Payload(d) = played \o (Rest \o Payload(d))
    BY <1>3, <1>6, <2>2, ConcatAssociative
  <2> QED
    BY <1>1, <1>5, <2>1, <2>3
<1> QED
  BY <1>7, <1>8

\* Playing takes bytes from the front of the rest.
LEMMA PlayInOrder == Inv /\ InOrder /\ (PlaySmall \/ PlayBig) => InOrder'
<1> SUFFICES ASSUME Inv, InOrder, PlaySmall \/ PlayBig PROVE InOrder'
  OBVIOUS
<1>0. UNCHANGED <<raced, heard>>
  BY DEF PlaySmall, PlayBig, mainOnly
<1> SUFFICES ASSUME ~raced
             PROVE  heard = played' \o (IF pc' = "done" THEN <<>> ELSE Rest')
  BY <1>0 DEF InOrder
<1>1. /\ level \in Nat /\ buffer \in Buffers /\ played \in Seq(0..Packets)
      /\ pyld_sz \in Nat /\ level <= max_buf_sz + 1
  BY MainFacts, ConstantFacts
<1>2. heard = played \o Stretch(buffer, 0, level)
  BY RestIs DEF InOrder, PlaySmall, PlayBig
<1>3. CASE PlaySmall
  <2>1. played' = played \o Stretch(buffer, 0, level) /\ Rest' = <<>> /\ pc' = "clear"
    <3>1. played' = played \o Stretch(buffer, 0, level) /\ pc' = "clear"
      BY <1>3 DEF PlaySmall, Bytes, Stretch
    <3> QED
      BY <3>1 DEF Rest
  <2>2. played' \o <<>> = played'
    <3>1. Stretch(buffer, 0, level) \in Seq(0..Packets)
      BY <1>1, StretchType
    <3>2. played' \in Seq(0..Packets)
      BY <1>1, <2>1, <3>1, ConcatProperties
    <3> QED
      BY <3>2, ConcatEmptySeq
  <2> QED
    BY <1>2, <2>1, <2>2
<1>4. CASE PlayBig
  <2>1. level >= pyld_sz
    BY <1>4 DEF PlayBig, Inv, Standing
  <2> DEFINE s == Stretch(buffer, 0, pyld_sz)
             t == Stretch(buffer, pyld_sz, level - pyld_sz)
  <2>2. played' = played \o s /\ Rest' = t /\ pc' = "move"
    BY <1>4 DEF PlayBig, Bytes, Stretch, Rest
  <2>3. /\ level - pyld_sz \in Nat /\ 0 + pyld_sz = pyld_sz
        /\ pyld_sz + (level - pyld_sz) = level
        /\ 0 + pyld_sz + (level - pyld_sz) <= max_buf_sz + 1
        /\ 0 + pyld_sz <= max_buf_sz + 1
    BY <1>1, <2>1, ConstantFacts
  <2>4. s \in Seq(0..Packets) /\ t \in Seq(0..Packets)
    BY <1>1, <2>3, StretchType
  <2>5. s \o t = Stretch(buffer, 0, level)
    BY <1>1, <2>3, StretchJoin
  <2> HIDE DEF s, t
  <2>6. (played \o s) \o t = played \o (s \o t)
    BY <1>1, <2>4, ConcatAssociative
  <2> QED
    BY <1>2, <2>2, <2>5, <2>6
<1> QED
  BY <1>3, <1>4

\* Moving the bytes, lowering the level and leaving the loop keep the rest.
LEMMA RestKept ==
  ASSUME Inv, InOrder, Main, ~PlaySmall, ~PlayBig PROVE InOrder'
<1>0. UNCHANGED <<raced, heard, played>> /\ pc # "smashed"
  BY DEF Main, mainOnly, Begin, Zero, Wake, TryWait, Compare, Clear, Move, Load,
     Store, Loop
<1> SUFFICES ASSUME ~raced, pc # "smashed"
             PROVE  heard = played \o (IF pc' = "done" THEN <<>> ELSE Rest')
  BY <1>0 DEF InOrder
<1>1. /\ level \in Nat /\ buffer \in Buffers /\ played \in Seq(0..Packets)
      /\ pyld_sz \in Nat /\ max_buf_sz \in Nat /\ level <= max_buf_sz + 1
  BY MainFacts, ConstantFacts
<1>2. pc # "done" => heard = played \o Rest
  BY DEF InOrder
<1>3. CASE Begin \/ Wake \/ TryWait \/ Compare
  BY <1>2, <1>3 DEF Begin, Wake, TryWait, Compare, Rest, Bytes
<1>4. CASE Zero
  <2>1. level = 0
    BY <1>4 DEF Zero, Inv, Standing
  <2> QED
    BY <1>2, <1>4, <2>1 DEF Zero, Rest, Bytes
<1>5. CASE Clear
  <2>1. Rest = <<>> /\ pc' = "loop"
    BY <1>5 DEF Clear, Rest
  <2>2. Rest' = Stretch(buffer, 0, 0)
    BY <1>5 DEF Clear, Rest, Bytes, Stretch
  <2> QED
    BY <1>2, <1>5, <2>1, <2>2, NoStretch DEF Clear
<1>6. CASE Move
  <2> DEFINE s == Stretch(buffer, pyld_sz, level - pyld_sz)
             t == Stretch(buffer', 0, level - pyld_sz)
  <2>1. /\ Rest = s /\ Rest' = t /\ pc = "move" /\ pc' = "load"
        /\ buffer' = Moved
    BY <1>6 DEF Move, Rest, Bytes, Stretch
  <2>2. level >= pyld_sz /\ level - pyld_sz \in Nat
    BY <1>1, <1>6 DEF Move, Inv, Standing
  <2>3. \A k \in 1..level - pyld_sz : buffer'[0 + k - 1] = buffer[pyld_sz + k - 1]
    <3> SUFFICES ASSUME NEW k \in 1..level - pyld_sz
                 PROVE  buffer'[0 + k - 1] = buffer[pyld_sz + k - 1]
      OBVIOUS
    <3>1. /\ 0 + k - 1 \in 0..max_buf_sz /\ 0 + k - 1 < level - pyld_sz
          /\ (0 + k - 1) + pyld_sz = pyld_sz + k - 1
      BY <1>1, <2>2
    <3> QED
      BY <1>1, <2>1, <3>1 DEF Moved, Buffers
  <2>4. s = t
    BY <2>3 DEF Stretch
  <2> QED
    BY <1>2, <2>1, <2>4
<1>7. CASE Load
  BY <1>2, <1>7 DEF Load, Rest, Bytes
<1>8. CASE Store
  <2>1. tmp = level
    BY <1>8 DEF Store, Inv, Standing
  <2> QED
    BY <1>2, <1>8, <2>1 DEF Store, Lowered, Rest, Bytes
<1>9. CASE Loop
  <2>1. CASE pc' = "sleep"
    BY <1>2, <1>9, <2>1 DEF Loop, Rest, Bytes
  <2>2. CASE pc' = "done"
    <3>1. level = 0 /\ pc = "loop"
      BY <1>1, <1>9, <2>2 DEF Loop
    <3>2. Rest = <<>>
      BY <3>1, RestIs, NoStretch
    <3> QED
      BY <1>2, <2>2, <3>1, <3>2
  <2> QED
    BY <1>9, <2>1, <2>2 DEF Loop
<1> QED
  BY <1>3, <1>4, <1>5, <1>6, <1>7, <1>8, <1>9 DEF Main

LEMMA NextInOrder == Inv /\ InOrder /\ [Next]_vars => InOrder'
<1> SUFFICES ASSUME Inv, InOrder, [Next]_vars PROVE InOrder'
  OBVIOUS
<1>1. CASE UNCHANGED <<pc, level, buffer, heard, played, raced>>
  BY <1>1 DEF InOrder, Rest, Bytes
<1>2. CASE Server \/ (\E d \in DOMAIN net : Arrive(d) \/ Lose(d)) \/ UNCHANGED vars
  BY <1>1, <1>2 DEF Server, SendPacket, SendEnd, Arrive, Lose, clientVars, vars
<1>3. CASE Handler
  BY <1>1, <1>3, EndIsThere, HandlerInOrder
     DEF Handler, HandleLate, HandleEnd, clientVars
<1>4. CASE Main
  BY <1>4, PlayInOrder, RestKept
<1> QED
  BY <1>2, <1>3, <1>4 DEF Next

\* Unless the handler interrupts play_it_back or main in a critical section,
\* every byte that was heard is played once and in its turn (InOrder).
THEOREM PlayedInOrder == Spec => []InOrder
<1>1. Init => InOrder
  <2> SUFFICES ASSUME Init PROVE InOrder
    OBVIOUS
  <2>1. Rest = <<>>
    BY RestIs, NoStretch DEF Init
  <2>2. <<>> \o <<>> = <<>>
    BY ConcatEmptySeq, EmptySeq
  <2> QED
    BY <2>1, <2>2 DEF Init, InOrder
<1> QED
  BY <1>1, NextInOrder, Invariance, PTL DEF Spec
=============================================================================
