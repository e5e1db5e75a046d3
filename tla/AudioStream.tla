---------------------------- MODULE AudioStream ------------------------------
(***************************************************************************)
(* One audio stream: the server's child that sends a file packet by packet *)
(* (packet_transfer of lab5/audiostreamd.c) and the client that buffers    *)
(* and plays it (lab5/audiolisten.c).                                      *)
(*                                                                         *)
(* The client is one thread.  Its main program sleeps and plays; the       *)
(* SIGIO handler packet_handler may run between any two accesses of the    *)
(* main program to shared_buffer and current_buffer_level, so the main     *)
(* program does one such access per step, as a build without optimisation  *)
(* does, and the handler is one step.  SIGIO is a standard signal:         *)
(* arrivals before it is delivered leave a single signal pending.          *)
(*                                                                         *)
(* A byte is named by the number of its packet.  The reports that the      *)
(* handler sends are the input of AudioServer.                             *)
(***************************************************************************)
EXTENDS Datagrams, Sequences, FiniteSets

CONSTANTS
  Packets,   \* packets in the file
  pyld_sz,   \* bytes that are played at once, and at most in a packet
  max_buf_sz,\* bytes of shared_buffer, which has one more
  Sizes,     \* sizes a packet may have
  MaxLost,   \* bound on datagrams lost
  MaxDup     \* bound on datagrams delivered twice

ASSUME ConstantsAssumption ==
  /\ Packets \in Nat /\ pyld_sz \in Nat \ {0} /\ max_buf_sz \in Nat
  /\ Sizes \subseteq 0..pyld_sz
  /\ MaxLost \in Nat /\ MaxDup \in Nat

VARIABLES
  sent,          \* packets the server has read from the file
  state,         \* the server's child: "BUSY" until it has sent the end
  net,           \* datagrams on their way to the client
  lost, copied,  \* datagrams the network has lost, and delivered twice
  queue,         \* datagrams in the client's socket
  pending,       \* a SIGIO waits to be delivered
  pc,            \* what the client's main program does next
  transmitting,
  level,         \* current_buffer_level
  buffer,        \* shared_buffer
  full,          \* the semaphore
  tmp,           \* current_buffer_level as play_it_back read it last
  reported,      \* the level in the last report to the server
  heard, played, \* bytes appended to the buffer, and written to audio_fd
  raced          \* the handler came where play_it_back or main would lose
                 \* what it appended

netVars == <<net, lost, copied>>
serverVars == <<sent, state>>
socketVars == <<queue, pending>>
vars == <<sent, state, net, lost, copied, queue, pending, pc, transmitting,
          level, buffer, full, tmp, reported, heard, played, raced>>

\* An end marker is packet number 0.
God == [packet |-> 0, size |-> 3]

Messages == [packet : 1..Packets, size : Sizes] \cup {God}

GoodbyesOnce == Put(net, God)

\* The network after the end markers were sent.
Goodbyes == Put(Put(Put(net, God), God), God)

TypeOK ==
  /\ sent \in 0..Packets /\ state \in {"BUSY", "READY"}
  /\ DOMAIN net \subseteq Messages /\ net \in [DOMAIN net -> 1..Copies] /\ lost \in 0..MaxLost /\ copied \in 0..MaxDup
  /\ queue \in Seq(Messages) /\ pending \in BOOLEAN
  /\ pc \in {"start", "zero", "sleep", "try", "play", "small", "clear", "big",
             "move", "load", "store", "loop", "done", "smashed", "error"}
  /\ transmitting \in BOOLEAN
  /\ level \in 0..max_buf_sz + 1 /\ tmp \in 0..max_buf_sz + 1
  /\ buffer \in [0..max_buf_sz -> 0..Packets]
  /\ full \in Nat
  /\ reported \in 0..max_buf_sz + 1
  /\ heard \in Seq(1..Packets) /\ played \in Seq(0..Packets)
  /\ raced \in BOOLEAN

Init ==
  /\ sent = 0 /\ state = "BUSY"
  /\ net = NoDatagrams /\ lost = 0 /\ copied = 0
  /\ queue = <<>> /\ pending = FALSE
  /\ pc = "start" /\ transmitting = FALSE
  /\ level = 0 /\ buffer = [i \in 0..max_buf_sz |-> 0]
  /\ full = 0 /\ tmp = 0 /\ reported = 0
  /\ heard = <<>> /\ played = <<>> /\ raced = FALSE

-----------------------------------------------------------------------------
(* The server's child. *)

\* packet_transfer with something left in the file: one datagram, as long as
\* the text in the packet.
SendPacket ==
  /\ state = "BUSY" /\ sent < Packets
  /\ sent' = sent + 1
  /\ \E n \in Sizes : net' = Put(net, [packet |-> sent + 1, size |-> n])
  /\ UNCHANGED <<state, lost, copied, queue, pending, pc, transmitting, level,
                 buffer, full, tmp, reported, heard, played, raced>>

\* packet_transfer at the end of the file.
SendEnd ==
  /\ state = "BUSY" /\ sent = Packets
  /\ net' = Goodbyes
  /\ state' = "READY"
  /\ UNCHANGED <<sent, lost, copied, queue, pending, pc, transmitting, level,
                 buffer, full, tmp, reported, heard, played, raced>>

-----------------------------------------------------------------------------
(* The network and the client's socket. *)

clientVars == <<pc, transmitting, level, buffer, full, tmp, reported, heard,
                played, raced>>

Running == pc \notin {"done", "smashed", "error"}

\* A datagram reaches the socket and raises SIGIO.
Arrive(d) ==
  /\ d \in DOMAIN net /\ Running
  /\ queue' = Append(queue, d)
  /\ pending' = TRUE
  /\ \/ net' = Take(net, d) /\ UNCHANGED copied
     \/ copied < MaxDup /\ copied' = copied + 1 /\ UNCHANGED net
  /\ UNCHANGED <<sent, state, lost, clientVars>>

Lose(d) ==
  /\ d \in DOMAIN net /\ lost < MaxLost
  /\ net' = Take(net, d)
  /\ lost' = lost + 1
  /\ UNCHANGED <<sent, state, copied, queue, pending, clientVars>>

-----------------------------------------------------------------------------
(* The client's SIGIO handler. *)

\* Where main, between lines 403 and 404, takes an empty buffer for granted.
Starting == {"zero"}

\* Where play_it_back is about to overwrite a level that it read, or to write
\* back one, as if no handler had come since (lines 154 and 161 to 162).
Updating == {"clear", "load", "store"}

Critical == Starting \cup Updating

\* Before the end marker of an earlier step, and before main is ready, the
\* datagram stays where it is.
HandleLate ==
  /\ Running /\ pending /\ ~transmitting
  /\ pending' = FALSE
  /\ UNCHANGED <<serverVars, netVars, queue, clientVars>>

\* A second datagram of the queue may have come after the handler began.
ConsumeAll ==
  /\ queue' = <<>>
  /\ pending' \in {FALSE, Len(queue) > 1}

\* The handler reads one datagram; its signal is used up.
Consume ==
  /\ queue' = Tail(queue)
  /\ pending' = FALSE

\* An end marker; or nothing in the non-blocking socket, where error() ends the
\* program.
HandleEnd ==
  /\ Running /\ pending /\ transmitting
  /\ IF queue = <<>>
       THEN /\ pending' = FALSE
            /\ pc' = "error"
            /\ UNCHANGED <<queue, transmitting>>
       ELSE /\ Head(queue) = God
            /\ Consume
            /\ transmitting' = FALSE
            /\ UNCHANGED pc
  /\ UNCHANGED <<serverVars, netVars, level, buffer, full, tmp, reported, heard,
                 played, raced>>

PostedIfWhole(n) == IF n = pyld_sz THEN full + 1 ELSE full

\* The semaphore after n bytes were appended.
Posted(n) == full + 1

AppendedAtEnd(d) ==
  [i \in DOMAIN buffer |->
     IF i \in level + 1..level + d.size THEN d.packet ELSE buffer[i]]

\* shared_buffer with d's bytes put at the level.
Appended(d) ==
  [i \in DOMAIN buffer |->
     IF i \in level..level + d.size - 1 THEN d.packet ELSE buffer[i]]

\* A packet: the level is reported, the bytes are appended with no look at
\* max_buf_sz, the semaphore is raised.  Past the end of the buffer anything
\* may happen.
HandlePacket ==
  /\ Running /\ pending /\ transmitting /\ queue # <<>>
  /\ Head(queue) # God
  /\ Consume
  /\ reported' = level
  /\ LET d == Head(queue)
     IN  /\ heard' = heard \o [i \in 1..d.size |-> d.packet]
         /\ IF level + d.size > max_buf_sz + 1
              THEN /\ pc' = "smashed"
                   /\ UNCHANGED <<buffer, level, full, raced>>
              ELSE /\ buffer' = Appended(d)
                   /\ level' = level + d.size
                   /\ full' = Posted(d.size)
                   /\ raced' = (raced \/ (d.size > 0 /\ pc \in Critical))
                   /\ UNCHANGED pc
  /\ UNCHANGED <<serverVars, netVars, transmitting, tmp, played>>

-----------------------------------------------------------------------------
(* The client's main program, from the moment it has the server's OK. *)

mainOnly == <<sent, state, net, lost, copied, queue, pending, reported, heard,
              raced>>

Begin ==   \* line 403
  /\ pc = "start"
  /\ transmitting' = TRUE
  /\ pc' = "zero"
  /\ UNCHANGED <<mainOnly, level, buffer, full, tmp, played>>

Zero ==    \* line 404
  /\ pc = "zero"
  /\ level' = 0
  /\ pc' = "sleep"
  /\ UNCHANGED <<mainOnly, transmitting, buffer, full, tmp, played>>

\* The sleep is over: playback_handler looks at transmitting.
Wake ==
  /\ pc = "sleep"
  /\ pc' = IF transmitting THEN "try" ELSE IF level > 0 THEN "play" ELSE "loop"
  /\ UNCHANGED <<mainOnly, transmitting, level, buffer, full, tmp, played>>

\* sem_trywait
TryWait ==
  /\ pc = "try"
  /\ IF full = 0 THEN pc' = "loop" /\ UNCHANGED full
                 ELSE pc' = "play" /\ full' = full - 1
  /\ UNCHANGED <<mainOnly, transmitting, level, buffer, tmp, played>>

NothingBuffered == level = 0

LessThanPayload == level < pyld_sz

\* play_it_back compares the level with the payload ...
Compare ==
  /\ pc = "play"
  /\ pc' = IF LessThanPayload THEN "small" ELSE "big"
  /\ UNCHANGED <<mainOnly, transmitting, level, buffer, full, tmp, played>>

\* The first n bytes of the buffer from the i-th on.
Bytes(i, n) == [k \in 1..n |-> buffer[i + k - 1]]

\* ... plays less than a payload, as much as there is now, and forgets it; a
\* handler between the reading of the level and the write is one at "clear" ...
PlaySmall ==
  /\ pc = "small"
  /\ played' = played \o Bytes(0, level)
  /\ pc' = "clear"
  /\ UNCHANGED <<mainOnly, transmitting, level, buffer, full, tmp>>

Clear ==
  /\ pc = "clear"
  /\ level' = 0
  /\ pc' = "loop"
  /\ UNCHANGED <<mainOnly, transmitting, buffer, full, tmp, played>>

\* ... or plays one payload, moves the rest and lowers the level.
PlayBig ==
  /\ pc = "big"
  /\ played' = played \o Bytes(0, pyld_sz)
  /\ pc' = "move"
  /\ UNCHANGED <<mainOnly, transmitting, level, buffer, full, tmp>>

\* shared_buffer with all but the first payload moved to its front.
Moved ==
  [i \in DOMAIN buffer |-> IF i < level - pyld_sz THEN buffer[i + pyld_sz]
                                                  ELSE buffer[i]]

\* A handler that comes while the arguments are ready and the bytes are being
\* moved writes behind them, as one that comes at "load" does.
Move ==
  /\ pc = "move"
  /\ buffer' = Moved
  /\ pc' = "load"
  /\ UNCHANGED <<mainOnly, transmitting, level, full, tmp, played>>

Load ==
  /\ pc = "load"
  /\ tmp' = level
  /\ pc' = "store"
  /\ UNCHANGED <<mainOnly, transmitting, level, buffer, full, played>>

LoweredNot == tmp

\* The level once a payload is gone.
Lowered == tmp - pyld_sz

Store ==
  /\ pc = "store"
  /\ level' = Lowered
  /\ pc' = "loop"
  /\ UNCHANGED <<mainOnly, transmitting, buffer, full, tmp, played>>

\* The two loops of main: while there is a stream, and then while there is
\* something to play.
Loop ==
  /\ pc = "loop"
  /\ pc' = IF transmitting \/ level > 0 THEN "sleep" ELSE "done"
  /\ UNCHANGED <<mainOnly, transmitting, level, buffer, full, tmp, played>>

-----------------------------------------------------------------------------
Server == SendPacket \/ SendEnd

Handler == HandleLate \/ HandleEnd \/ HandlePacket

Main ==
  \/ Begin \/ Zero \/ Wake \/ TryWait \/ Compare
  \/ PlaySmall \/ Clear \/ PlayBig \/ Move \/ Load \/ Store \/ Loop

Next ==
  \/ Server
  \/ \E d \in DOMAIN net : Arrive(d) \/ Lose(d)
  \/ Handler
  \/ Main

Spec == Init /\ [][Next]_vars

\* Sleeps end, a pending signal is delivered, a datagram that is not lost
\* arrives.
Fairness ==
  /\ WF_vars(Server) /\ WF_vars(Handler) /\ WF_vars(Main)
  /\ WF_vars(\E d \in DOMAIN net : Arrive(d))

FairSpec == Spec /\ Fairness

-----------------------------------------------------------------------------
(* What is right about the stream. *)

\* Between sem_trywait and the end of play_it_back.
Playing == pc \in {"play", "small", "clear", "big", "move", "load", "store"}

\* The plays that are announced, the one in progress included.
Plays == IF Playing THEN full + 1 ELSE full

\* Each count of the semaphore stands for one play_it_back: whatever the
\* handler does in between, there are never more bytes in the buffer than the
\* plays that are still to come can write, so that no byte waits for a play
\* that nothing announces.
SemCovers == pc # "smashed" => level <= pyld_sz * Plays

\* The level never claims more than what was heard and not yet played, so
\* that only a real backlog can overrun shared_buffer; and the device never
\* gets more bytes than came.
LevelIsBacklog ==
  /\ Len(played) <= Len(heard)
  /\ pc \notin {"clear", "move", "load", "store", "smashed"} =>
       level + Len(played) <= Len(heard)

\* A signal that is pending finds a datagram: the handler never meets the
\* empty socket that would end the program.
NeverEmptyHanded == pc # "error" /\ (pending => queue # <<>>)

\* What is in the buffer and will be played.
Rest ==
  CASE pc = "clear" -> <<>>
    [] pc = "move"  -> Bytes(pyld_sz, level - pyld_sz)
    [] pc \in {"load", "store"} -> Bytes(0, level - pyld_sz)
    [] OTHER -> Bytes(0, level)

\* Unless the handler came in a critical place (between lines 403 and 404 of
\* main, or in play_it_back), every byte is played once and in the order in
\* which it was heard, and at the end all of them are.
InOrder ==
  ~raced /\ pc # "smashed" =>
    heard = played \o (IF pc = "done" THEN <<>> ELSE Rest)

\* The client ends, unless losses and the end markers that wait in the socket,
\* behind datagrams whose signals were used up, account for all three of them.
Ends ==
  <>[](\/ pc \in {"done", "smashed"}
       \/ lost + Cardinality({i \in DOMAIN queue : queue[i] = God}) >= 3)
=============================================================================
