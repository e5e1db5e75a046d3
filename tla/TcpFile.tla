------------------------------ MODULE TcpFile --------------------------------
(***************************************************************************)
(* The TCP file transfer: lab3/fileserver.c (lab5 has the same file) or    *)
(* lab5/java_server_optional/FileServer.java, and clients lab3/fileclient.c *)
(* or lab5/FileClient.java that run in one directory and download one file *)
(* of the server under its name.                                           *)
(*                                                                         *)
(* A server handles each connection in a process or thread of its own, the *)
(* worker: it reads the request "$key$name", sends the file in blocks and  *)
(* the checksum as a trailer, and closes the connection.  A client reads   *)
(* what comes in pieces of any size up to its block size, stores it, and   *)
(* compares sum and trailer in the end.  Requests carry the right key and  *)
(* a legal name.                                                           *)
(***************************************************************************)
EXTENDS Checksum, FiniteSets

CONSTANTS
  Clients,
  Contents,  \* what the file at the server may be
  Others,    \* what the file may be whose name is a first part of its name
  BLOCKSIZE, \* of the server's and the clients' configfile.dat
  MaxFaults  \* bound on faults

NoFile == <<-1>>

ASSUME TransferAssumption ==
  /\ IsFiniteSet(Clients) /\ BLOCKSIZE \in Nat \ {0} /\ MaxFaults \in Nat
  /\ Contents \subseteq Seq(Byte) \cup {NoFile}
  /\ Others \subseteq Seq(Byte) \cup {NoFile}

VARIABLES
  server,   \* the program that serves: "C" or "Java"
  program,  \* the program of each client
  content, other,
  dir,      \* the bytes of the file in the clients' directory: it is created with
            \* its first ones, so that there is no file while there are none
  pc,       \* of each client
  got,      \* bytes each client has stored
  worker,   \* what the worker of each client does
  source,   \* the file each worker sends
  off,      \* bytes it has read of it
  wire,     \* bytes on their way to each client
  fault,    \* what went wrong for each client: "cut", its connection ended
            \* early; "misled", it was sent something else
  emptied   \* history: a Java client has emptied a file that another had begun

constant == <<server, program, content, other>>
clientVars == <<dir, pc, got, emptied>>
workerVars == <<worker, source, off>>
vars == <<server, program, content, other, dir, pc, got, worker, source, off,
          wire, fault, emptied>>

Files == Seq(Byte) \cup {NoFile}

Waiting == {"first", "rest"}
Ended == {"exists", "nofile", "failed", "mismatch", "reported"}

TypeOK ==
  /\ server \in {"C", "Java"} /\ program \in [Clients -> {"C", "Java"}]
  /\ content \in Contents /\ other \in Others
  /\ dir \in Seq(Byte)
  /\ pc \in [Clients -> {"start", "connect", "check"} \cup Waiting \cup Ended]
  /\ got \in [Clients -> Nat]
  /\ worker \in [Clients -> {"none", "request", "send", "seal", "eof", "reset"}]
  /\ source \in [Clients -> Files] /\ off \in [Clients -> Nat]
  /\ \A c \in Clients : source[c] # NoFile => off[c] <= Len(source[c])
  /\ wire \in [Clients -> Seq(Byte)]
  /\ fault \in [Clients -> {"none", "cut", "misled"}] /\ emptied \in BOOLEAN

Init ==
  /\ server \in {"C", "Java"} /\ program \in [Clients -> {"C", "Java"}]
  /\ content \in Contents /\ other \in Others
  /\ dir = <<>>
  /\ pc = [c \in Clients |-> "start"] /\ got = [c \in Clients |-> 0]
  /\ worker = [c \in Clients |-> "none"]
  /\ source = [c \in Clients |-> NoFile] /\ off = [c \in Clients |-> 0]
  /\ wire = [c \in Clients |-> <<>>]
  /\ fault = [c \in Clients |-> "none"] /\ emptied = FALSE

-----------------------------------------------------------------------------
(* Faults. *)

MayFail == Cardinality({c \in Clients : fault[c] # "none"}) < MaxFaults

Fails(c, kind) == MayFail /\ fault[c] = "none" /\ fault' = [fault EXCEPT ![c] = kind]

\* A worker or its host ends in the middle, and what it has sent arrives, or
\* the connection is reset and some of it is lost.
Cut(c) ==
  /\ worker[c] \in {"request", "send", "seal"}
  /\ Fails(c, "cut")
  /\ \/ worker' = [worker EXCEPT ![c] = "eof"] /\ UNCHANGED wire
     \/ worker' = [worker EXCEPT ![c] = "reset"] /\ wire' = [wire EXCEPT ![c] = <<>>]
  /\ UNCHANGED <<constant, clientVars, source, off>>

-----------------------------------------------------------------------------
(* The worker. *)

\* It opens file f, or closes the connection when there is none.
Opens(c, f) ==
  /\ worker' = [worker EXCEPT ![c] = IF f = NoFile THEN "eof" ELSE "send"]
  /\ source' = [source EXCEPT ![c] = f]

\* The request comes in one piece.
Request(c) ==
  /\ worker[c] = "request"
  /\ Opens(c, content)
  /\ UNCHANGED <<constant, clientVars, off, wire, fault>>

\* The C server reads once: a request of which only a part has come is refused
\* when the part ends in the key, and is one for another file when it ends in
\* the name.  The Java server reads up to the end.
RequestInPieces(c) ==
  /\ worker[c] = "request" /\ server = "C"
  /\ \/ Fails(c, "cut") /\ Opens(c, NoFile)
     \/ Fails(c, "misled") /\ Opens(c, other)
  /\ UNCHANGED <<constant, clientVars, off, wire>>

Sends(c, bytes) == wire' = [wire EXCEPT ![c] = @ \o bytes]

\* A block is read and sent, byte by byte by the Java server.
SendBlock(c) ==
  /\ worker[c] = "send" /\ off[c] < Len(source[c])
  /\ LET n == Min({BLOCKSIZE, Len(source[c]) - off[c]})
     IN  /\ Sends(c, SubSeq(source[c], off[c] + 1, off[c] + n))
         /\ off' = [off EXCEPT ![c] = @ + n]
  /\ UNCHANGED <<constant, clientVars, worker, source, fault>>

SendEnds(c) ==
  /\ worker[c] = "send" /\ off[c] = Len(source[c])
  /\ worker' = [worker EXCEPT ![c] = "seal"]
  /\ UNCHANGED <<constant, clientVars, source, off, wire, fault>>

\* read() of the file fails.  The C server looks for that inside the loop that
\* the failure ends (line 281), and seals what it has sent; the Java server
\* closes the connection.
ReadFails(c) ==
  /\ worker[c] = "send"
  /\ IF server = "C"
       THEN Fails(c, "misled") /\ worker' = [worker EXCEPT ![c] = "seal"]
       ELSE Fails(c, "cut") /\ worker' = [worker EXCEPT ![c] = "eof"]
  /\ UNCHANGED <<constant, clientVars, source, off, wire>>

\* A mutant does not close the connection.
LeavesOpen == "none"

AfterSeal == "eof"

\* The trailer, and the end of the connection.
Seal(c) ==
  /\ worker[c] = "seal"
  /\ Sends(c, BigEndian(Sum(SubSeq(source[c], 1, off[c]))))
  /\ worker' = [worker EXCEPT ![c] = AfterSeal]
  /\ UNCHANGED <<constant, clientVars, source, off, fault>>

-----------------------------------------------------------------------------
(* The client. *)

Goto(c, label) == pc' = [pc EXCEPT ![c] = label]

\* validateFileName: a file that exists is not downloaded again.
Validate(c) ==
  /\ pc[c] = "start"
  /\ Goto(c, IF dir = <<>> THEN "connect" ELSE "exists")
  /\ UNCHANGED <<constant, dir, got, emptied, workerVars, wire, fault>>

\* The client connects and writes its request.
Connect(c) ==
  /\ pc[c] = "connect"
  /\ Goto(c, "first")
  /\ worker' = [worker EXCEPT ![c] = "request"]
  /\ UNCHANGED <<constant, dir, got, emptied, source, off, wire, fault>>

\* A mutant opens with O_APPEND.
WrittenAtEnd(file, position, piece) == file \o piece

\* A file once piece is written at a position, after a hole of zeros where the
\* file has become shorter.
Written(file, position, piece) ==
  [i \in 1..Max({Len(file), position + Len(piece)}) |->
     IF i \in position + 1..position + Len(piece) THEN piece[i - position]
     ELSE IF i <= Len(file) THEN file[i] ELSE 0]

\* What a client's open() leaves of the file that another client has made since
\* it looked: the C program does not truncate it.
Opened(c) == IF program[c] = "Java" THEN <<>> ELSE dir

\* A read() returns some of the bytes that have come.
Pieces(c) == {n \in 1..BLOCKSIZE : n <= Len(wire[c])}

Read(c, n) == wire' = [wire EXCEPT ![c] = SubSeq(@, n + 1, Len(@))]

\* The first read: only when something comes is the file created.  (Creating it and
\* the first write() are one step: who looks for it in between finds it either way,
\* and writes to other positions than the first are not disturbed.)
First(c) ==
  /\ pc[c] = "first"
  /\ \E n \in Pieces(c) :
       /\ Read(c, n)
       /\ dir' = Written(Opened(c), 0, SubSeq(wire[c], 1, n))
       /\ got' = [got EXCEPT ![c] = n]
  /\ emptied' = (emptied \/ Opened(c) # dir)
  /\ Goto(c, "rest")
  /\ UNCHANGED <<constant, workerVars, fault>>

FirstEmpty(c) ==
  /\ pc[c] = "first" /\ wire[c] = <<>> /\ worker[c] \in {"eof", "reset"}
  /\ Goto(c, "nofile")
  /\ UNCHANGED <<constant, dir, got, emptied, workerVars, wire, fault>>

Rest(c) ==
  /\ pc[c] = "rest"
  /\ \E n \in Pieces(c) :
       /\ Read(c, n)
       /\ dir' = Written(dir, got[c], SubSeq(wire[c], 1, n))
       /\ got' = [got EXCEPT ![c] = @ + n]
  /\ UNCHANGED <<constant, pc, emptied, workerVars, fault>>

\* The end, or an error, which for the Java client is an end as well.
RestEnds(c) ==
  /\ pc[c] = "rest" /\ wire[c] = <<>> /\ worker[c] \in {"eof", "reset"}
  /\ Goto(c, IF worker[c] = "reset" /\ program[c] = "C" THEN "failed" ELSE "check")
  /\ UNCHANGED <<constant, dir, got, emptied, workerVars, wire, fault>>

\* validateCheckSum: the Java program refuses a file without room for a
\* trailer, the C program takes whatever bytes are on its stack.
Check(c) ==
  /\ pc[c] = "check"
  /\ \E match \in (IF program[c] = "Java" /\ Len(dir) < Width THEN {FALSE}
                                                              ELSE Verdicts(dir)) :
       Goto(c, IF match THEN "reported" ELSE "mismatch")
  /\ UNCHANGED <<constant, dir, got, emptied, workerVars, wire, fault>>

-----------------------------------------------------------------------------
Client(c) ==
  Validate(c) \/ Connect(c) \/ First(c) \/ FirstEmpty(c) \/ Rest(c) \/ RestEnds(c) \/ Check(c)

Worker(c) ==
  Request(c) \/ RequestInPieces(c) \/ SendBlock(c) \/ SendEnds(c) \/ ReadFails(c) \/ Seal(c)

Next == \E c \in Clients : Client(c) \/ Worker(c) \/ Cut(c)

Spec == Init /\ [][Next]_vars

\* Every program runs, and TCP delivers what it has accepted.
FairSpec == Spec /\ \A c \in Clients : WF_vars(Client(c)) /\ WF_vars(Worker(c))

-----------------------------------------------------------------------------
(* What is right about the transfer. *)

Misled == \E c \in Clients : fault[c] = "misled"

\* A client fails only when something has failed: whatever the pieces in which
\* the file comes, and although another client writes the same file at the same
\* time, the sum of a whole transfer matches its trailer.
FailNeedsFault ==
  \A c \in Clients :
    /\ pc[c] = "nofile" => fault[c] # "none" \/ content = NoFile
    /\ pc[c] \in {"mismatch", "failed"} => fault[c] # "none" \/ Misled \/ emptied

\* A first part of the transfer whose last bytes happen to be its checksum.
LooksWhole(s) == TRUE \in Verdicts(s)

\* A file that a client has reported is the file of the server and its
\* trailer, and stays so while other clients, which looked for it before it was
\* there, still write it; unless someone was sent something else, a Java client
\* has emptied it after another had begun it, or the connection was cut where the sum happens to match.
ReportMeansFile ==
  \A c \in Clients : pc[c] = "reported" =>
    \/ dir = Sealed(content)
    \/ Misled \/ emptied
    \/ /\ fault[c] = "cut" /\ IsPrefix(dir, Sealed(content))
       /\ \E n \in got[c]..Len(dir) : LooksWhole(SubSeq(dir, 1, n))

\* A client that has sent its request comes to an end.
ClientEnds == \A c \in Clients : pc[c] = "first" ~> pc[c] \in Ended
=============================================================================
