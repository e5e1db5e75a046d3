---------------------------- MODULE AudioServer ------------------------------
(***************************************************************************)
(* The processes of the audio server (lab5/audiostreamd.c) and the clients *)
(* around them.                                                            *)
(*                                                                         *)
(* The server accepts a client, answers OK or KO, and forks a child that   *)
(* streams the file from the one UDP port of the command line; the child   *)
(* does not exit but returns into the accept loop (line 444) and competes  *)
(* for the next client.  Descriptors are numbers, the lowest free one      *)
(* first, because the child gives its UDP port back by closing the         *)
(* descriptor number of the connection, which its socket has reused (lines *)
(* 443 and 453).  The reports of the clients come as SIGIO and change the  *)
(* packet spacing of whichever process holds the port.                     *)
(***************************************************************************)
EXTENDS Integers, Sequences, FiniteSets, FiniteSetsExt

CONSTANTS
  Clients,     \* numbered in the order in which they connect
  Procs,       \* process numbers, 1 is the server
  Slots,       \* descriptors a process may have, beside the standard ones
  Packets,     \* packets of a file
  mode,        \* the method of congestion control, 0 to 3
  Spacing,     \* the packet spacing of the command line
  q_star,      \* the target level in every report
  tau,         \* gamma in every report
  Levels,      \* the levels that clients report
  MaxReports,  \* bound on the reports of one client
  MaxForkFails \* bound on the clients for which fork() fails

ASSUME ServerAssumption ==
  /\ Clients \subseteq Nat \ {0} /\ IsFiniteSet(Clients)
  /\ 1 \in Procs /\ Procs \subseteq Nat \ {0} /\ IsFiniteSet(Procs)
  /\ Slots \in Nat /\ Slots >= 3
  /\ Packets \in Nat /\ mode \in 0..3 /\ Spacing \in Nat
  /\ q_star \in Nat /\ tau \in Nat /\ Levels \subseteq Nat
  /\ MaxReports \in Nat /\ MaxForkFails \in Nat

VARIABLES
  phase,     \* of each client: "idle", "asked", "OK", "KO", "ended" or "lost"
  kind,      \* what it asks for: a file that is "good", "locked" (it exists but
             \* cannot be opened) or "missing"; or its request is "broken";
             \* "good" until it asks
  proc,      \* the processes
  taker,     \* history: the process that accepted each client, 0 until then
  data,      \* packets on their way to each client
  gods,      \* clients to which the end of their stream is on its way
  reports,   \* reports on their way, each with a number
  counted,   \* reports each client has sent
  forkFails, \* the clients for which fork() has failed
  alone      \* clients whose stream nothing else has touched: when they were
             \* accepted every other stream was over and its reports gone,
             \* and nobody was accepted since

vars == <<phase, kind, proc, data, gods, reports, counted, taker, forkFails, alone>>
outside == <<phase, kind, data, gods, reports, counted, taker, forkFails, alone>>

Fds == 3..Slots + 2

\* Of the server: the listening socket, the log file and the plot file.
logFile == 4
plotFile == 5
FirstFds == {3, logFile, plotFile}

Report == [client : Clients, level : Levels, number : 1..MaxReports]

NoClient == 0

Unborn ==
  [role |-> "unborn", client |-> NoClient, fds |-> {}, childfd |-> 0, file |-> 0,
   sock |-> 0, bound |-> FALSE, left |-> 0, logs |-> FALSE, spacing |-> 0,
   inbox |-> <<>>, pending |-> FALSE]

\* The server before its first client.
Server ==
  [Unborn EXCEPT !.role = "accept", !.fds = FirstFds, !.logs = TRUE,
                 !.spacing = Spacing]

\* The spacings a process may have, 0 before it is born and after its end.
Spacings == 1..999 \cup {0, Spacing}

Process ==
  [role : {"unborn", "accept", "child", "stream", "leave", "dead"},
   client : Clients \cup {NoClient}, fds : SUBSET Fds,
   childfd : Fds \cup {0}, file : Fds \cup {0}, sock : Fds \cup {0},
   bound : BOOLEAN, left : 0..Packets, logs : BOOLEAN,
   spacing : Spacings, inbox : Seq(Report), pending : BOOLEAN]

TypeOK ==
  /\ phase \in [Clients -> {"idle", "asked", "OK", "KO", "ended", "lost"}]
  /\ kind \in [Clients -> {"good", "locked", "missing", "broken"}]
  /\ taker \in [Clients -> Procs \cup {0}]
  /\ proc \in [Procs -> Process]
  /\ data \in [Clients -> Nat] /\ gods \subseteq Clients
  /\ reports \subseteq Report /\ counted \in [Clients -> 0..MaxReports]
  /\ forkFails \subseteq Clients /\ Cardinality(forkFails) <= MaxForkFails /\ alone \subseteq Clients

Init ==
  /\ phase = [c \in Clients |-> "idle"]
  /\ kind = [c \in Clients |-> "good"]
  /\ proc = [p \in Procs |-> IF p = 1 THEN Server ELSE Unborn]
  /\ data = [c \in Clients |-> 0] /\ gods = {}
  /\ reports = {} /\ counted = [c \in Clients |-> 0]
  /\ taker = [c \in Clients |-> 0] /\ forkFails = {} /\ alone = {}

-----------------------------------------------------------------------------
(* Descriptors. *)

Free(p) == Fds \ proc[p].fds

\* What open(), accept() and socket() take.
Lowest(S) == Min(S)

Is(p, role) == proc[p].role = role

HoldsPort(p) == proc[p].bound

\* A process that has ended has none of them; the rest is history.
Dead(p) ==
  [Unborn EXCEPT !.role = "dead", !.client = proc[p].client, !.logs = proc[p].logs]

-----------------------------------------------------------------------------
(* The accept loop, in the server and in every child that has returned. *)

\* A client connects and writes its request.  It is broken when what the first
\* read() returns has less than two words (a client that closes without
\* writing, one that writes in pieces), or when the connection fails under
\* read() or under the write() of the answer.
Ask(c) ==
  /\ phase[c] = "idle" /\ \A d \in Clients : d < c => phase[d] # "idle"
  /\ phase' = [phase EXCEPT ![c] = "asked"]
  /\ \E k \in {"good", "locked", "missing", "broken"} : kind' = [kind EXCEPT ![c] = k]
  /\ UNCHANGED <<proc, data, gods, reports, counted, taker, forkFails, alone>>

\* A process is at accept() when no signal interrupts it.
Accepting(p) == Is(p, "accept") /\ ~proc[p].pending

\* Connections are accepted in the order in which they were made.
First(c) == phase[c] = "asked" /\ \A d \in Clients : d < c => phase[d] # "asked"

\* No descriptor is left: accept() fails before it waits and ends the process.
AcceptFails(p) ==
  /\ Accepting(p) /\ Free(p) = {}
  /\ proc' = [proc EXCEPT ![p] = Dead(p)]
  /\ UNCHANGED outside

\* The request is broken: strtok() returns NULL and trimwhitespace() reads
\* through it, or error() is called.  Either ends the process that accepted.
AcceptBroken(p, c) ==
  /\ Accepting(p) /\ Free(p) # {}
  /\ First(c) /\ kind[c] = "broken"
  /\ phase' = [phase EXCEPT ![c] = "lost"]
  /\ taker' = [taker EXCEPT ![c] = p]
  /\ proc' = [proc EXCEPT ![p] = Dead(p)]
  /\ UNCHANGED <<kind, data, gods, reports, counted, forkFails, alone>>

\* The file does not exist: KO, and the connection stays open (line 437).
AcceptKO(p, c) ==
  /\ Accepting(p) /\ Free(p) # {}
  /\ First(c) /\ kind[c] = "missing"
  /\ phase' = [phase EXCEPT ![c] = "KO"]
  /\ taker' = [taker EXCEPT ![c] = p]
  /\ proc' = [proc EXCEPT ![p].fds = @ \cup {Lowest(Free(p))}]
  /\ UNCHANGED <<kind, data, gods, reports, counted, forkFails, alone>>

\* The connection is accepted, OK answered, and the file opened if there is a
\* descriptor left for it.
Conn(p) == Lowest(Free(p))

File(p, c) ==
  LET rest == Free(p) \ {Conn(p)}
  IN  IF kind[c] = "good" /\ rest # {} THEN Lowest(rest) ELSE 0

\* A mutant of the parent leaves the connection to its child.
KeptOpen(p, c) ==
  [proc[p] EXCEPT !.fds = (@ \cup {Conn(p), File(p, c)}) \ {0}]

\* The parent closes the connection (line 453) and keeps the file; it does not
\* use its copies of childfd, file and client_to_transact_with again.
Kept(p, c) == [proc[p] EXCEPT !.fds = (@ \cup {File(p, c)}) \ {0}]

\* The child is a copy that closes the connection and has no signals.
Forked(p, c) ==
  [proc[p] EXCEPT !.role = "child", !.client = c, !.childfd = Conn(p),
                  !.file = File(p, c), !.fds = (@ \cup {File(p, c)}) \ {0},
                  !.left = Packets]

\* Processes are numbered in the order of their birth.
NextProc == Min({q \in Procs : Is(q, "unborn")})

\* A process that has a stream, or has one to give back.
Busy(p) == proc[p].role \in {"child", "stream", "leave"}

\* The clients that have to do with no report still on its way.
Quiet(c) ==
  /\ \A r \in reports : r.client = c
  /\ \A p \in Procs : ~Busy(p)
  /\ \A d \in Clients \ {c} : data[d] = 0

AcceptOK(p, c) ==
  /\ Accepting(p) /\ Free(p) # {}
  /\ First(c) /\ kind[c] \in {"good", "locked"}
  /\ \E q \in Procs : Is(q, "unborn")
  /\ phase' = [phase EXCEPT ![c] = "OK"]
  /\ proc' = [proc EXCEPT ![p] = Kept(p, c), ![NextProc] = Forked(p, c)]
  /\ taker' = [taker EXCEPT ![c] = p]
  /\ alone' = IF Quiet(c) THEN {c} ELSE {}
  /\ UNCHANGED <<kind, data, gods, reports, counted, forkFails>>

\* fork() fails after the OK: the process leaves registration_proc and ends.
ForkFails(p, c) ==
  /\ Accepting(p) /\ Free(p) # {}
  /\ First(c) /\ kind[c] \in {"good", "locked"}
  /\ Cardinality(forkFails) < MaxForkFails
  /\ forkFails' = forkFails \cup {c}
  /\ taker' = [taker EXCEPT ![c] = p]
  /\ phase' = [phase EXCEPT ![c] = "OK"]
  /\ proc' = [proc EXCEPT ![p] = Dead(p)]
  /\ UNCHANGED <<kind, data, gods, reports, counted, alone>>

-----------------------------------------------------------------------------
(* The child. *)

\* create_socket_to_listen_on: the lowest descriptor; whether bind() found the
\* port free is not looked at.
OpenSocket(p) ==
  /\ Is(p, "child")
  /\ LET s == Lowest(Free(p))
     IN  proc' = [proc EXCEPT ![p].role = "stream", ![p].sock = s,
                              ![p].fds = @ \cup {s},
                              ![p].bound = ~\E q \in Procs : HoldsPort(q)]
  /\ UNCHANGED outside

\* Writing to a log that fclose() has released may end the process.
MayCrash(p) == ~proc[p].logs

\* packet_transfer, which does nothing for ever when the file is not open.
Transfer(p) ==
  /\ Is(p, "stream") /\ proc[p].file # 0 /\ proc[p].left > 0
  /\ data' = [data EXCEPT ![proc[p].client] = @ + 1]
  /\ \/ proc' = [proc EXCEPT ![p].left = @ - 1]
     \/ MayCrash(p) /\ proc' = [proc EXCEPT ![p] = Dead(p)]
  /\ UNCHANGED <<phase, kind, gods, reports, counted, taker, forkFails, alone>>

\* A mutant forgets the goodbyes.
SaidNothing(p) == gods

\* GOD, GOD, GOD.
Goodbyes(p) == gods \cup {proc[p].client}

\* The end of the file: the goodbyes, and the file is closed.
TransferEnd(p) ==
  /\ Is(p, "stream") /\ proc[p].file # 0 /\ proc[p].left = 0
  /\ gods' = Goodbyes(p)
  /\ proc' = [proc EXCEPT ![p].role = "leave", ![p].fds = @ \ {proc[p].file},
                          ![p].file = 0]
  /\ UNCHANGED <<phase, kind, data, reports, counted, taker, forkFails, alone>>

\* A mutant closes the connection once only, in the child.
ClosedNothing(p) ==
  [proc[p] EXCEPT !.role = "accept", !.client = NoClient, !.childfd = 0,
                  !.logs = FALSE, !.fds = @ \ {logFile, plotFile}]

\* handle_child_request closes the logs, and registration_proc the number that
\* the connection had.
Returned(p) ==
  LET s == IF proc[p].sock = proc[p].childfd THEN 0 ELSE proc[p].sock
  IN  [proc[p] EXCEPT
         !.role = "accept", !.client = NoClient, !.childfd = 0, !.logs = FALSE,
         !.fds = @ \ ((IF proc[p].logs THEN {logFile, plotFile} ELSE {})
                        \cup {proc[p].childfd}),
         !.sock = s, !.bound = @ /\ s # 0,
         !.inbox = IF s = 0 THEN <<>> ELSE @]

Return(p) ==
  /\ Is(p, "leave")
  /\ \/ proc' = [proc EXCEPT ![p] = Returned(p)]
     \/ MayCrash(p) /\ proc' = [proc EXCEPT ![p] = Dead(p)]
  /\ UNCHANGED outside

-----------------------------------------------------------------------------
(* Congestion control: handle_sigpoll, lines 155 to 201. *)

\* A mutant has the sign of the correction wrong.
CorrectedAway(s, level) ==
  100000 * s + 15 * (q_star - level) + (IF mode = 3 THEN 500 * tau ELSE 0)

\* A hundred thousand times what pktSpcing is corrected to in modes 2 and 3.
Corrected(s, level) ==
  100000 * s - 15 * (q_star - level) + (IF mode = 3 THEN 500 * tau ELSE 0)

\* The conversion from double to int: toward zero.
ToInt(n) == IF n >= 0 THEN n \div 100000 ELSE -((-n) \div 100000)

\* What the conversion may give: a double that should be an integer may be a
\* little more or less.
Truncated(n) ==
  IF n % 100000 = 0 THEN {ToInt(n - 1), ToInt(n), ToInt(n + 1)} ELSE {ToInt(n)}

\* pktSpcing is unsigned: whatever is negative becomes huge (line 200).
Unsigned(n) == IF n < 0 THEN 1000 ELSE n

Adjusted(s, level) ==
  IF mode >= 2      THEN {Unsigned(n) : n \in Truncated(Corrected(s, level))}
  ELSE IF level = q_star THEN {s}
  ELSE IF level > q_star THEN {s + 1}
  ELSE IF mode = 0  THEN {Unsigned(s - 1)}
  ELSE {(3 * s) \div 4}

\* A mutant looks at the lower limit only.
ClampedBelow(s) == IF s <= 0 THEN 5 ELSE s

Clamped(s) == IF s <= 0 THEN 5 ELSE IF s >= 1000 THEN 999 ELSE s

Paced(s, level) == {Clamped(n) : n \in Adjusted(s, level)}

\* A mutant reads all there is, and the signal of what came last stays.
HandledAll(p, spacing) ==
  [proc[p] EXCEPT !.pending = Len(proc[p].inbox) > 1, !.inbox = <<>>, !.spacing = spacing]

\* The handler reads one report; others wait for the next signal.
Handled(p, spacing) ==
  [proc[p] EXCEPT !.pending = FALSE, !.inbox = Tail(@), !.spacing = spacing]

Handle(p) ==
  /\ proc[p].pending /\ proc[p].sock # 0 /\ proc[p].inbox # <<>>
  /\ \E spacing \in Paced(proc[p].spacing, Head(proc[p].inbox).level) :
       proc' = [proc EXCEPT ![p] = Handled(p, spacing)]
  /\ UNCHANGED outside

\* The socket is closed, or empty: recvfrom() fails and ends the process.
HandleNothing(p) ==
  /\ proc[p].pending /\ (proc[p].sock = 0 \/ proc[p].inbox = <<>>)
  /\ proc' = [proc EXCEPT ![p] = Dead(p)]
  /\ UNCHANGED outside

-----------------------------------------------------------------------------
(* The clients and the network. *)

\* A packet arrives; the client answers with its level.
Hear(c) ==
  /\ phase[c] = "OK" /\ data[c] > 0
  /\ data' = [data EXCEPT ![c] = @ - 1]
  /\ \/ /\ counted[c] < MaxReports
        /\ counted' = [counted EXCEPT ![c] = @ + 1]
        /\ \E l \in Levels :
             reports' = reports \cup {[client |-> c, level |-> l, number |-> counted'[c]]}
     \/ UNCHANGED <<counted, reports>>   \* the report, or the packet, is lost
  /\ UNCHANGED <<phase, kind, proc, gods, taker, forkFails, alone>>

\* The end of the stream may overtake packets.
HearEnd(c) ==
  /\ phase[c] = "OK" /\ c \in gods
  /\ phase' = [phase EXCEPT ![c] = "ended"]
  /\ gods' = gods \ {c}
  /\ data' = [data EXCEPT ![c] = 0]
  /\ UNCHANGED <<kind, proc, reports, counted, taker, forkFails, alone>>

\* A report reaches whoever holds the port, or nobody.
Arrive(r) ==
  /\ r \in reports
  /\ reports' = reports \ {r}
  /\ proc' = [p \in Procs |->
       IF HoldsPort(p)
         THEN [proc[p] EXCEPT !.inbox = Append(@, r), !.pending = TRUE]
         ELSE proc[p]]
  /\ UNCHANGED <<phase, kind, data, gods, counted, taker, forkFails, alone>>

-----------------------------------------------------------------------------
Accept(p, c) ==
  AcceptBroken(p, c) \/ AcceptKO(p, c) \/ AcceptOK(p, c) \/ ForkFails(p, c)

Step(p) ==
  \/ AcceptFails(p) \/ OpenSocket(p) \/ Transfer(p) \/ TransferEnd(p)
  \/ Return(p) \/ Handle(p) \/ HandleNothing(p)

Next ==
  \/ \E c \in Clients : Ask(c) \/ Hear(c) \/ HearEnd(c)
  \/ \E p \in Procs : Step(p) \/ \E c \in Clients : Accept(p, c)
  \/ \E r \in reports : Arrive(r)

Spec == Init /\ [][Next]_vars

\* Every process is scheduled, and packets that are not lost arrive.
Fairness ==
  /\ \A p \in Procs : WF_vars(Step(p) \/ \E c \in Clients : Accept(p, c))
  /\ \A c \in Clients : WF_vars(HearEnd(c))

FairSpec == Spec /\ Fairness

-----------------------------------------------------------------------------
(* What is right about the server. *)

\* While one stream is alone, its process has the port that the client sends
\* its reports to, and is paced by no other client: a stream that is over has
\* given the port back, by the number of a descriptor that was closed before.
ReportsGoHome ==
  \A c \in alone, p \in Procs :
    /\ Is(p, "stream") /\ proc[p].client = c => HoldsPort(p)
    /\ \A i \in DOMAIN proc[p].inbox : proc[p].inbox[i].client = c

\* A stream is cut short only when its own fork() failed or the process that
\* sends it is a child of a former child, whose logs are closed: no signal that
\* finds an empty or a closed socket ends a process that still sends.
CutShort ==
  \A c \in Clients : phase[c] = "OK" /\ c \notin gods =>
    \/ c \in forkFails
    \/ \E q \in Procs : /\ proc[q].client = c
                        /\ (Is(q, "child") \/ Is(q, "stream") \/ ~proc[q].logs)

\* The clients that may have cost p, which accepted them, a descriptor: it keeps
\* the connection after a KO, and the file that it opened for its child.
Leaked(p) ==
  {c \in Clients : /\ taker[c] = p
                   /\ \/ phase[c] = "KO"
                      \/ phase[c] \in {"OK", "ended"} /\ kind[c] = "good"}

\* Only a client that the server has accepted itself ends it: one whose request
\* is broken, one for which fork() fails, or as many as it has free descriptors
\* that have left one behind.  No report, and nothing that a child does, ends it.
ServerDies ==
  Is(1, "dead") =>
    \/ \E c \in Clients : taker[c] = 1 /\ (kind[c] = "broken" \/ c \in forkFails)
    \/ Cardinality(Leaked(1)) >= Slots - Cardinality(FirstFds)

\* A report of a level that is not above the target slows no stream down,
\* except that the lower limit of the spacing is 5 and that a correction below
\* zero wraps to the upper limit.
LowSpeedsUp ==
  [][\A p \in Procs :
       LET r == Head(proc[p].inbox)
       IN  /\ proc[p].inbox # <<>> /\ proc'[p].inbox = Tail(proc[p].inbox)
           /\ proc[p].spacing > 0 /\ mode # 3 /\ r.level <= q_star
           /\ proc'[p].spacing > proc[p].spacing
           => \/ proc'[p].spacing = 5
              \/ mode = 2 /\ proc'[p].spacing = 999
                 /\ 100000 * (proc[p].spacing + 1) <= 15 * (q_star - r.level)]_vars

\* Nobody is left to accept: every process has ended, or waits for ever for a
\* file that it could not open.
Waits(p) == Is(p, "stream") /\ proc[p].file = 0
NobodyAccepts == \A p \in Procs : Is(p, "unborn") \/ Is(p, "dead") \/ Waits(p)

\* A client that asks is accepted, gets its answer and, after an OK, the end of
\* its stream, unless its own request or fork() ends the process that accepts
\* it, the child that sends to it has no file or ends with its logs closed, or
\* nobody is left to accept it.
Served ==
  \A c \in Clients :
    phase[c] = "asked" ~>
      \/ phase[c] \in {"KO", "ended", "lost"} \/ c \in forkFails
      \/ \E q \in Procs : /\ proc[q].client = c
                          /\ (Waits(q) \/ (Is(q, "dead") /\ ~proc[q].logs))
      \/ phase[c] = "asked" /\ NobodyAccepts
=============================================================================
