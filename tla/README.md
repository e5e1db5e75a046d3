# CS536: a TLA+ model of the network programs

The repository holds the six labs of a networks course: C programs over UDP and
TCP sockets, pipes and signals.  This directory holds TLA+ modules translated
from that code, the TLC configurations that check them on small instances, and
theorems about them that the TLAPS proof system checks.

    tlc -workers 2 -config TurboDup.cfg Turbo.tla     # one run
    tlapm TurboProofs.tla                             # one proof module

PROJECT.json lists the runs, the lines of source every definition stands for,
the hazards the properties are aimed at, and for every property a mutation of
the model (a plausible bug) that breaks it.

## 1. The system

| Component | Source | State | Operations | Interacts by |
|---|---|---|---|---|
| Turbo file transfer | `lab6/turboserver.c`, `lab6/turboclient.c` | server: position of the first pass, the NACK being served, the injector's counters; client: size, `pktsRcvd[]`, `recvSize`, `from` | request, size, ACK, first pass, NACK, resend, three -1 | UDP both ways |
| Loss injector | `dropsendto` in `lab6/turboserver.c` | `packet_counter`, `loss_counter` | one call per datagram, two parameter pairs | called by server `main` and `nackhandle` |
| WeTalk chat | `lab4/wetalk.c` | `connection`, `received`, `opp_server_pointer`, `opp_server`, `their_addr`, the alarm | a line typed, SIGIO, SIGALRM | shared variables of one process, UDP between peers |
| WeTalk with a window | `lab4/gui_wetalk.c` | as above, and GTK widgets | a button instead of a line, SIGIO, SIGALRM | as above |
| Overlay router and builder | `lab6/overlayrouter.c`, `lab6/overlaybuild.c` | per request one forked child: its port, the next hop, a relay's client | request along a chain of routers, 30 s timeout, relay | UDP, fork |
| UDP tunnel | `lab4/tunneld.c`, `lab4/mytunnel.c` | the relay's client and server address | set up, relay | UDP |
| Audio streaming, client | `lab5/audiolisten.c` | `shared_buffer`, `current_buffer_level`, `full`, `transmitting` | register, sleep, play; SIGIO: store a packet, report the level, hear the end | TCP and UDP with the server, the handler inside the main program |
| Audio streaming, server | `lab5/audiostreamd.c` | per process: `pktSpcing`, `state`, descriptors, the UDP port | accept, answer, fork, stream, return to accept; SIGIO: adjust the spacing | TCP and UDP with the clients, one UDP port for all processes |
| TCP file transfer | `lab3/fileserver.c`, `lab3/fileclient.c`, `lab5/fileserver.c`, `lab5/FileClient.java`, `lab5/java_server_optional/FileServer.java` | stream position, checksum, the file in the client's directory | request, stream, trailer, check | TCP, the clients' directory |
| Checksum tools | `lab1/mychecksum.c`, `lab1/myunchecksum.c` | running sum | append, verify | files |
| Ping | `lab4/myping*.c`, `lab6/myping*.c` | server: `request_number`; client: alarms counted | request, reply, timeout | UDP, SIGALRM |
| Traffic generator | `lab3`, `lab4`, `lab6` `traffic_*.c` | packets counted | send, end marker | UDP |
| FIFO server, simple shell | `lab1` | none between commands | one child per command | FIFOs, fork |

What is hard in each, and what makes it correct:

- **Turbo.**  Datagrams are lost by the network and, on purpose, by the server;
  blocks arrive several times and out of order; a duplicated ACK or request is
  read as a NACK; arrays are cleared by bytes where they hold words.  Correct
  means: the client reports a file only when every block is in, each byte is
  counted once, the file is the server's, the server leaves last, and losses
  delay but do not stop the transfer.
- **Loss injector.**  Two callers with different parameters share the counters.
  Correct means: bursts of exactly the asked length, and never for ever.
- **WeTalk.**  Main loop and two signal handlers share every variable without a
  lock or a signal mask; messages cross and are lost.  Correct means: an
  invitation resolves, a conversation keeps its opponent, and nobody ends up in a
  conversation with nobody.
- **Overlay, tunnel.**  Timeouts at every hop of a chain run out in an unlucky
  order; a relay learns its client from the first datagram.  Correct means: a
  route reported as built is built, and datagrams go to the right end.
- **Audio client.**  One handler, SIGIO, comes between any two accesses of the
  main program to the buffer and its level; signals are merged, datagrams are
  not; the end is announced by datagrams that can be lost.  Correct means: what is
  heard is played once and in order, and the client ends.
- **Audio server.**  Children return into the accept loop of their parent, give the
  port back by the number of a descriptor that was closed before, and leave other
  descriptors open; packet spacing is a feedback loop in unsigned arithmetic, and
  a report's signal reaches whoever holds the port.  Correct means: every client is
  answered and hears the end, and a stream is paced by its own client.
- **TCP transfer, checksum.**  Any split of the stream must give the same file
  and the same checksum, two clients may write one file, connections are cut.
  Correct means: a report means the whole file, and only a fault fails anyone.
- **Ping, traffic, FIFO server.**  An end marker or reply that is lost.

## 2. Modules

    LossInjector   dropsendto as operators on the two counters
    DropSend       EXTENDS LossInjector: the injector under any order of calls
    Datagrams      the UDP network: datagrams in flight with their copies
    FileTransfer   abstract: what a transfer of a file promises
    Turbo          EXTENDS LossInjector, Datagrams; INSTANCE FileTransfer
    WeTalk         EXTENDS Datagrams; MCWeTalk gives its peers and lines to TLC
    Relay          send_socket_data as operators on one relay's two addresses
    Overlay        EXTENDS Relay, Datagrams: routers, tunnel, builders, network;
                   MCOverlay gives its hosts, routes and buffers to TLC
    AudioStream    EXTENDS Datagrams: one stream, from the sending child to the device
    AudioServer    the server's processes, their descriptors, and the clients
    Checksum       sum, trailer and verdict as operators on sequences of bytes
    TcpFile        EXTENDS Checksum: servers, clients, pieces, faults; MCTcpFile
                   gives its files to TLC
    DropSendProofs, TurboProofs, TurboTransferProofs, WeTalkProofs, OverlayProofs,
    AudioStreamProofs, AudioServerProofs, TcpFileProofs

### LossInjector, DropSend

`DropSendTo` is `dropsendto`: it counts the datagram, and once `packet_counter`
reaches `totalnum` swallows datagrams until `loss_counter` *equals* `lossnum`,
then resets both.  `Passes` says whether the datagram goes out.  `DropSend` has
one action per call site: `SendBlock` (`1000, LOSS_NUM`) and `SendEmpty`
(`10, 9`).  `drops`, `passes` and `empties` are history variables for the
properties.  `loss_counter` is cut off at `LossCap`, above every value the code
compares it with.

### Turbo

| Variable | Code |
|---|---|
| `spc` | where the server is: the request `recvfrom`, the handshake `recv`, the first pass, the `nackhandle` loop |
| `currSeq`, `control`, `counters` | `currSeq`, the words of `control[]` still to be read, the injector's globals |
| `cpc`, `fileSize`, `pktsRcvd`, `recvSize`, `from` | the client's place in `start_turbo_client` and its variables of these names; `from` says that `recvfrom` has filled in the address |
| `garbage` | blocks whose bytes came from a datagram that carried no block |
| `toServer`, `toClient` | datagrams in flight; any of them can be read next |

A server step is one `recvfrom`, one round of the first pass or one round of
the loop over `control[]`; a client step one `recvfrom` with all that follows
from it, or one timeout of `pselect`.  Three conversions are modelled by what
they do.  `atoi` of an empty buffer is 0, so an empty answer passes for block
0.  A text (`ACK`, a request) read as an array of `int` is a number past the
last block, followed by the words `bzero` cleared and by stale ones
(`ControlAfter`).  `memset` and `bzero` clear `BLOCKSIZE` *bytes*, `Cleared`
words, of an array of `BLOCKSIZE` words (`NackTails`, `StaleWords`); what they do
not reach is chosen freely, up to `MaxStale` words.

Named bounds: `MaxStale`, `MaxNacks` (different NACKs in flight), `MaxLost`,
`MaxDup`, `Copies` (copies of one datagram in flight) and `LossCap`.

### WeTalk

One step is one test or one assignment of a shared variable.  A test leaves the
list of statements it decided on in `todo`, for the main loop and for each
handler.  `stack` holds the handlers that have interrupted; the frame on top
runs.  A signal is blocked while its own handler runs and never otherwise, as
the code installs them, so the two handlers nest in either order.
`packet_handler` reads its datagram and makes its tests in one step: an alarm
between the two ends as one before or after them would: it reads and writes
neither `their_addr` nor the socket, and all it does is to end an invitation
(`received` to true, `connection` to false, the pointer to NULL).  `expired` is a
history variable: the alarm has given up an invitation during the last call of
`packet_handler`, a new call of which clears it.  Bounds: `MaxLines`,
`MaxLost`, `Copies`.  `Patient` says whether users wait for the answer to an
invitation before they type again; the program does not make them.

### Relay, Overlay

| Variable | Code |
|---|---|
| `buffer` | `char buffer[BUFSIZ]` of each router's parent: which names it holds |
| `child` | the forked children: `phase` is the place in the child's code, `route` what `strtok` found in the buffer it inherited, `their_addr`, and in `relay` the `server_addr` and `client_addr` of `send_socket_data` |
| `timers` | children in the `recvfrom` with `SO_RCVTIMEO` of 30 s, oldest first |
| `phase`, `typed`, `told` | per user: the place in `overlaybuild` or `mytunnel`, the route on its command line, the port it printed |
| `asked`, `answered` | the application that uses the port, which is not part of the repository |
| `net`, `lost`, `dups` | datagrams in flight |

`Relay` holds the choice `send_socket_data` makes for a datagram, the same in
`overlayrouter.c` and `tunneld.c`.  `FromServer` compares ports only: the two
host names the code compares stand in the one static buffer of `inet_ntoa` and
are always equal.  `Overlay` has one action per `recvfrom` of a parent, of a child
or of a builder with all that follows from it (`RouterFork`, `TunnelFork`,
`HearReply`, `RelayOne`, `BuilderHear`), one per way a new child begins
(`LastHop`, `Forward`, `TunnelHop`) and one for the time limit.  A child that has
sent its request and has not yet called `recvfrom` is a state of its own
(`Forward`, then `Wait`), because its 30 seconds begin only there.

What is abstracted, and assumed:

- A route is a sequence of names, the router next to the server first; the
  server's name and port, which open every request, are left out.  `Received` is
  the buffer after a datagram: the names of the request, then those that were
  already in the buffer behind it, since it is neither cleared nor terminated.
  Names are taken to be of one length, so that what is left over begins at a name.
- The buffer is not initialised.  `Stacks` says what it can hold at first, made of
  `Junk`: names of no host.  A request for such a name goes nowhere.
- A child's port is its number.  So a port is not used twice, on any host, as
  the kernel's choice among its ephemeral ports nearly always has it; where two
  hosts do choose the same number, a relay cannot tell its client from its server.
- All limits being 30 s, they expire in the order they were set.
- A server name may or may not resolve, at each child anew (`unresolved`).

Bounds: `MaxChildren`, `MaxLost`, `MaxDup`, `Copies`.

### AudioStream

| Variable | Code |
|---|---|
| `sent`, `state` | how much of the file `packet_transfer` has read; `BUSY` until it has sent its three `GOD` |
| `net`, `queue`, `pending` | datagrams on the way, those in the client's socket, a SIGIO that waits |
| `pc` | where the main program is: between `main` lines 403-420, in `playback_handler`, in `play_it_back` |
| `transmitting`, `level`, `buffer`, `full` | `transmitting`, `current_buffer_level`, `shared_buffer`, the semaphore |
| `tmp` | the level that `current_buffer_level -= pyld_sz` has read and not yet written back |
| `heard`, `played`, `raced` | history: bytes appended, bytes written to `audio_fd`, whether the handler came where an update is lost |

The client is one thread: playing is done by the main program, in
`do_sleep_alarm`, and the only handler is `packet_handler`.  The main program
makes one access of `level` or `buffer` per step, the handler is one step.  A
handler between the reading of an argument and the call of `memmove` or `write`
has the effect of one a step later, as the comments at `Move` and `PlaySmall` say.
SIGIO is a standard signal: while one is pending, more are merged with it, and the
handler reads one datagram for each that it gets.  A byte is named by the number of
its packet.  The comment at `audiolisten.c:387` calls `full` a "semaphore to protect
the shared_buffer"; it counts plays and protects nothing, and the model has it so.

Bounds: `Packets`, `Sizes`, `MaxLost`, `MaxDup`, `Copies`.

### AudioServer

| Variable | Code |
|---|---|
| `phase`, `kind` | per client: what it has been told, and what it asks for: a file that can be opened, one that `access` finds and `fopen` does not open, none; or its request is broken |
| `proc` | per process: its place (`registration_proc`, a new child, `packet_transfer`, the return from `handle_child_request`), its descriptors, `childfd`, the file, the UDP socket, whether it holds the port, whether the logs are open, `pktSpcing`, its socket's queue and a SIGIO that waits |
| `data`, `gods`, `reports`, `counted` | packets, ends and reports on the way |
| `forkFails` | the clients for which `fork` has failed |
| `taker` | history: the process that accepted each client |
| `alone` | history: a client whose stream nothing else has touched since it was accepted |

Descriptors are numbers, and `open`, `accept` and `socket` take the lowest that is
free, as POSIX says: that is why the child, which closes the number of the
connection twice (lines 443 and 453), closes its UDP socket with it.  `accept` on a
full table ends the process, and so does a broken request (`AcceptBroken`): one
whose first `read` brings less than two words, so that `strtok` returns NULL and
`trimwhitespace` reads through it, or one whose connection fails under the `read` or
under the `write` of the answer; the parent leaves the file open with each OK (line
424) and the connection with each KO (line 437).  A file that cannot be opened
leaves its child in a loop that sends nothing, for ever, with the port.  The child
of a former child writes to logs that are closed (`MayCrash`), which is undefined:
it may end the process or do nothing.  `Paced` is the arithmetic of
`handle_sigpoll` in hundred-thousandths: `pktSpcing` is unsigned, so that what is
negative becomes huge and is clamped to 999; a floating-point result that should be
an integer may be just below it, so `Truncated` allows both.  A signal may wait
across several steps.  Clients are numbered in the order in which they connect.

Bounds: `Slots`, `Packets`, `MaxReports`, `MaxForkFails`, and the sets `Clients`
and `Procs`.

### Checksum, TcpFile

`Checksum` is `mychecksum`, `myunchecksum` and the same loops in both servers and both
clients: a byte has `Base` values and is added as a signed character, modulo
`Modulus`, what `Width` bytes can count (`Power[Width]`); `Verdicts` are the answers a check may give, several where
`read` leaves the stack's bytes in `last8` because the file has fewer than 8.  The
loops are recursive functions, which can be proved about.

| Variable | Code |
|---|---|
| `server`, `program` | whether the C or the Java program serves, and which each client runs |
| `content`, `other` | the file asked for, and the one whose name is a first part of its name |
| `dir` | the bytes of the one file in the directory where all clients run; none when there is no file, since a client creates it with its first bytes |
| `pc`, `got` | per client: its place, and the bytes it has stored |
| `worker`, `source`, `off` | per client: the child or thread that serves it, the file it sends, how far it is |
| `wire` | bytes TCP has accepted and not delivered |
| `fault` | what went wrong: `cut`, the connection ended early; `misled`, it was sent something else |
| `emptied` | history: a Java client, which truncates, has opened a file that another had begun |

A client looks for the file (`Validate`) long before it creates it (`First`), and the
C program opens it without truncating it: two clients that start together write one
file.  A `read` returns a piece of any size (`Pieces`).  Faults, at most `MaxFaults`:
a worker that ends in the middle with what it sent delivered or lost (`Cut`), a
request that comes in two pieces to the C server's single `read`
(`RequestInPieces`), a `read` of the file that fails (`ReadFails`): the check for
that, line 281 of `fileserver.c`, stands inside the loop that the failure ends, so
that the C server seals what it has sent.

## 3. Runs

| Run | Instance | States | Question |
|---|---|---|---|
| `drop_send` | periods 14 and 10, losses 4 and 9 | 289 | does the injector drop in bursts of `LOSS_NUM`, and what can jam it? |
| `turbo_lossy` | 3 blocks, 2 losses, loss injector on, 1 stale word | 121,804 | does the transfer implement `FileTransfer`, and do both ends finish? |
| `turbo_dup` | 2 blocks of 4 bytes: a NACK longer than `Cleared`, 1 loss, 1 duplicate | 5.6 million | is what the ends report right about which blocks came, and what can uninitialised words and empty answers spoil? |
| `turbo_synack` | 2 blocks, 1 loss | violation | is the size sent again, as the comment on the loop says? |
| `wetalk_patient` | 2 peers, 3 lines each, 1 loss | 3.3 million | can a conversation lose its opponent, or begin with nobody? |
| `wetalk_hasty` | 3 lines and 1 line, users type any time | 315,000 | does every invitation resolve? |
| `wetalk_wrong` | as `wetalk_hasty`, 2 copies | violation | can the state the program calls an error arise? |
| `overlay` | 2 routers, a tunnel, 2 users, 4 children, 1 loss, 1 duplicate, buffers with and without junk | 432,774 | is a reported route the one typed, does it work, and is every builder told? |
| `overlay_dup` | the same, no loss, 1 duplicate | violation | is a relay without a client one? |
| `audio_stream` | 2 packets of 0 to 2 bytes, a buffer of 5, 1 loss, 1 duplicate | 1.0 million | what can the handler spoil, and does the client end? |
| `audio_server` | 3 clients, 4 processes, 5 descriptors, method 2 | 254,212 | who gets reports, what ends a process, is everyone served? |
| `tcp_file` | 2 clients, 6 files, bytes of 4 values, a trailer of 2, 1 fault | 379,204 | does a report mean the file, and who fails without a fault? |

What they show:

- `drop_send`.  `BurstBounded`: while only blocks are sent, at most `LOSS_NUM`
  in a row are swallowed and at most `totalnum` - 1 pass in a row.
  `JamNeedsEmpty`, `JamIsPermanent`: an empty answer at the wrong moment can
  carry `loss_counter` past `LOSS_NUM`, and from then on every block is
  swallowed for ever; nothing else does it.  `KeepsPassing`: short of that,
  blocks always pass again.  Both periods are small, and their relation (the
  second shorter than the first, the second loss number larger) is the code's;
  a full period of each is covered many times.
- `turbo_lossy`.  `TransferSpec`: without duplicates by the network, the client
  collects the blocks of the server's file and reports exactly with the last, and
  the server leaves after it.  `Integrity`: with no duplicate and fewer blocks
  than `Cleared`, no empty answer is ever made into a block, whatever the words
  behind a NACK.  `Completes`: once one block has come, the client gets the file.
  `ServerEnds`: two losses cannot take all three -1 messages.
- `turbo_dup`.  `RecvSizeExact`, `DoneMeansComplete`: the end hangs on a sum of
  bytes; it is exact, and it is reached with all blocks only.
  `OnlyBlockZeroSuspect`: even with a duplicated ACK, which the server answers as
  if it were a NACK, and with NACKs that carry stale words, a reported file of the
  true size can be wrong in its first block only.
- `wetalk_patient`.  `ConversationKept`: no invitation, late answer or alarm
  moves the pointer of an established conversation.  `WedgeNeedsExpiry`: every
  step that brings up a conversation with a NULL pointer is one of `packet_handler`,
  and the alarm has gone off and given the invitation up during that very call of it.
  An alarm of an earlier invitation excuses nothing: the history starts anew with each
  datagram.
- `wetalk_hasty`.  `WaitingIsTimed`, `InviteResolves`: whatever interrupts the
  window between `received = false` and `alarm(7)`, a peer that waits is
  released.

- `overlay`.  `RouteAsTyped`: the port that a builder prints stands for relays
  through exactly the hosts typed, although the second user's shorter request
  meets the first one's names in the buffer of `r2`, a router can give up while
  the one below it has built its part, and requests come twice.  `AnswersGoHome`:
  an answer is on the way to a relay from its server or to the application that
  asked.  `BuilderHears`: a
  builder gets a port, or the A of the first router's own time limit.  An A goes one
  hop only: the router that hears it before its own limit keeps it to itself and ends.
  That, a lost datagram and a server name that does not resolve at the last router are
  the only ways a builder waits for ever.  The bound on children excuses a run only
  while a request waits for a child it does not allow; leftovers that make a
  router forward to itself, again and again, end there.  `Answered`: over a
  route that was reported, an answer comes.
  A request that runs into junk fails by the time limit; it never leads to a
  wrong route.
- `audio_stream`.  `InOrder`: only a handler between two steps of an update of the
  level (`Critical`: between lines 403 and 404, and in `play_it_back` around lines
  157 and 161) can lose or repeat a byte; everywhere else all bytes are played once,
  in order, and at the end none is left.  `SemCovers`: there are never more bytes in
  the buffer than the announced plays can write, although short packets raise the
  semaphore too.  `LevelIsBacklog`: the level is at most what was heard and not yet
  played, so that only a real backlog overruns the buffer, which the handler does
  not check (`pc = "smashed"`).  `NeverEmptyHanded`: although signals are merged,
  none is ever left over for an empty socket, which would end the program.
  `Ends`: the client ends unless losses and end markers left behind in the socket
  account for all three end markers.  They can: merged signals leave datagrams
  behind.
- `audio_server`.  `ReportsGoHome`: the port is given back, by the number
  of a closed descriptor, before the next stream that begins alone; with overlapping
  streams there is no such promise, and the reports go to the first that bound it.
  `CutShort`: no signal ends a process that still has packets to send: a stream is cut
  short only when the `fork` for it failed or its sender is a child of a former child,
  whose logs are closed.  `ServerDies`: only clients that the server has accepted
  itself end it: one with a broken request, one for which `fork` fails, or as many as
  it has free descriptors that have cost it one, which each good file and each missing
  one does.  No report ends it, and nothing that its children do.  `LowSpeedsUp`: a
  buffer below the target never slows the stream, but for the clamp at 5 and the wrap of
  a negative spacing to 999.  `Served`: every client that asks is answered and hears its
  end, with the exceptions of the code: its own request or its own `fork` ended the
  process that accepted it, its sender waits with a file it could not open or ended with
  its logs closed, or nobody is left to accept it.
- `tcp_file`.  `ReportMeansFile`: a client that reports holds file and trailer
  and goes on holding them while another, which began as early, still writes them.
  The exceptions are the code's: a server that seals less than the file, a Java client
  that empties it after another has begun it, a connection cut where the last bytes happen to be the sum.
  `FailNeedsFault`: in whatever pieces the stream comes, the sum matches the trailer.
  `ClientEnds`: a client that has sent its request ends.

Three runs end in a violation, each of something the repository says:

- `turbo_synack`: the loop "for initial SYN/ACK" (`turboserver.c:255`) cannot go
  round.  `recv` has no timeout, so with the size datagram lost both ends wait for
  ever.
- `wetalk_wrong`: the state that the program reports as "ERROR: Wetalk wrongly
  assumes connection." (`wetalk.c:319`) can be reached.  A user who types `n` over
  an outstanding invitation clears the pointer, and the late `OK` opens a
  conversation with nobody; the alarm inside `packet_handler` does the same
  without any such line.

- `overlay_dup`: a relay whose first datagram comes from its server says "No
  client so server can't send to anyone." (`overlayrouter.c:370`), but has already
  made the server its client (line 358) and keeps it: later answers go back
  to the server.  One duplicated datagram is enough.

Why the bounds are enough: three blocks are a first, a middle and a last, short
one (`turbo_dup` has two blocks, of 4 bytes and 3, and a NACK of two words where
one is cleared), so that overtaking, retransmission and the short block meet; one loss and
one duplicate reach each kind of datagram, the request, the size and the ACK
included; the loss period of three or four calls lets a burst fall on every block and
every retransmission.  In WeTalk two peers with three lines invite each other,
answer, talk, hang up and invite again, which is every transition of the
variables, from either side.  In the overlay, two routers are one that forwards and
one that ends a route, and `r2` is the first of a long and of a short route, so
its buffer shrinks or does not in either order; four children are both users'
chains and one child for a request that comes twice or ran into leftovers.  In
the audio stream two packets of at most two bytes fill the buffer of five to
its end, and with a duplicate past it; an empty, a short and a full packet meet; three end
markers with one lost leave two, enough to be merged.  Five descriptors, three of
them taken, are used up by two clients; three clients and four processes have a
former child accept a client and fork.  The levels of `audio_server` lie on both
sides of the target and far enough from it for the correction to be negative
and for the clamp to act from both sides; methods 0, 1 and 3 are in the model and
not in the run; the theorem about `LowSpeedsUp` covers 0 to 2.  In `tcp_file` the base is 4, so that -1 and -2 are bytes and sums
wrap; files are empty, shorter than a block, and longer.

`CHECK_DEADLOCK FALSE` stands in the Turbo and WeTalk configurations because the
processes end, and in the Overlay and audio ones because servers without a request wait, and in
`TcpFile.cfg` because clients end.  No symmetry is used: the runs with liveness would not allow it
and the peers of the others are not interchangeable.

### Fairness

- `KeepsPassing`: weak fairness of `SendBlock`, a server that goes on sending.
- Turbo: each process's own steps; `recv` of *some* waiting datagram by the
  server; recv of *each* waiting datagram by the client, as a socket queue is
  first in, first out; the timeout of `pselect`.  The user is not made to start
  the client, the network not made to lose or duplicate.
- WeTalk: each process's statements, SIGIO for a datagram in the socket, SIGALRM
  for a timer that is set.  No user is made to type.
- Overlay: each parent and each child runs, `recvfrom` returns for a datagram in
  the socket, a time limit passes.  No user is made to start a builder or an
  application.
- AudioStream: the server's child, the handler while a signal waits, the main
  program (its sleeps end), and the arrival of datagrams that are not lost.
- AudioServer: every process, and the arrival of the end of a stream.  No
  client is made to ask or to report.
- TcpFile: every client that has started and every worker runs; TCP delivers.

## 4. Proofs

All theorems hold for every value of the constants that satisfies the assumptions
in the module that declares them (`TurboAssumption`: a block of at least 4 bytes,
the second period of the injector shorter than the first, `LossCap` above what is
compared with it; `OverlayAssumption`: no host runs both a router and a tunnel
server, a route leads through routers or one tunnel, junk names no such host, and
`NoAddress` is no address of a host;
`CopiesAssumption`: at least one copy; the others say which
set a constant is from; `ConstantsAssumption` of AudioStream: no packet is
longer than the payload; `ServerAssumption`: room for the server's own three
descriptors).

| Theorem | States |
|---|---|
| `DropSendProofs!BurstBoundedAlways` | bursts and gaps are bounded, for `LOSS_NUM` > 0 |
| `DropSendProofs!JamNeedsEmptyAlways` | only an empty answer jams, for `LOSS_NUM` > 0 |
| `DropSendProofs!JamForEver` | a jam is for ever |
| `DropSendProofs!TypeOKAlways` | types |
| `TurboProofs!TypeOKAlways` | types; only -1 messages start with a negative word |
| `TurboProofs!RecvSizeExactAlways` | the byte counter is exact |
| `TurboProofs!DoneMeansCompleteAlways` | a reported file is complete |
| `TurboProofs!ServerLeavesLastAlways` | the server leaves last |
| `TurboTransferProofs!IntegrityAlways` | without duplicates and with NACKs shorter than `Cleared`, only blocks of the file are written and the size is the true one |
| `TurboTransferProofs!TransferImplemented` | under the same two conditions, `Turbo` implements `FileTransfer` |
| `TurboTransferProofs!OnlyBlockZeroSuspectAlways` | with any duplicates and stale words, only the first block can be wrong |
| `WeTalkProofs!TypeOKAlways` | types, under every nesting of handlers |
| `WeTalkProofs!WaitingIsTimedAlways` | an invitation that waits has a timer |
| `WeTalkProofs!WedgeNeedsExpiryAlways` | among patient users a conversation with nobody comes up only in a call of `packet_handler` during which the alarm gave up the invitation |
| `WeTalkProofs!ConversationKeepsOpponent` | among patient users no step moves the pointer of a conversation |
| `OverlayProofs!RouteAsTypedAlways` | a reported route is the one typed, for routes of any length |
| `OverlayProofs!AnswersGoHomeAlways` | without duplicates, an answer is on the way to a relay from its server or to the application that asked |
| `OverlayProofs!ServerIsNoClientUndoubled` | without duplicates, no relay takes its server for its client: what `overlay_dup` finds needs its duplicate |
| `OverlayProofs!NobodyForgottenAlways` | for a builder that waits something is on the way, or a child has a step to make or a timer that runs |
| `OverlayProofs!TypeOKAlways` | types; how long a buffer that nothing clears can get |
| `AudioStreamProofs!Typing` | types; the level stays in the buffer |
| `AudioStreamProofs!SemaphoreCovers` | no byte waits for a play that nothing announces |
| `AudioStreamProofs!LevelBounded` | the level is at most the backlog |
| `AudioStreamProofs!SignalFindsDatagram` | a signal never finds an empty socket |
| `AudioStreamProofs!PlayedInOrder` | without a handler at a critical place, in `play_it_back` or before `main` sets the level, bytes are played once and in order |
| `AudioServerProofs!Typing` | types; the spacing stays within its limits |
| `AudioServerProofs!ReportsReachStream` | a stream that is alone gets its own reports and no others |
| `AudioServerProofs!NoStreamCut` | no signal ends a process that still sends |
| `AudioServerProofs!ServerLasts` | only clients that the server itself accepted end it: by a broken request, a failed `fork`, or the descriptors they cost it |
| `AudioServerProofs!LowLevelSpeedsUp` | a level below the target slows no stream down, but for the clamp and the wrap |
| `TcpFileProofs!ReportMeansFileAlways` | a file that is reported is the server's, with the exceptions that the property names |
| `TcpFileProofs!FailNeedsFaultAlways` | no client fails unless its connection was cut, there is no file, or what is stored was not sent or was emptied |
| `TcpFileProofs!TypeOKAlways` | types; no worker reads past its file |
| `TcpFileProofs!SealedMatches` | a file with its trailer has the right checksum, whatever its bytes |
| `TcpFileProofs!OneByteNoticed` | one changed byte of a sealed file, trailer included, is always noticed |
| `TcpFileProofs!OrderUnnoticed` | two parts that have changed places are not |

The arguments:

- **DropSend.**  The invariant relates the counters to the history: while no empty
  answer was sent, `passes` is `packet_counter` less one, or `drops` is
  `loss_counter` less one, and `loss_counter` does not pass `LOSS_NUM`.  The bounds
  follow.
- **Turbo.**  The invariant is `TypeOK /\ Phases /\ ServerLeavesLast /\
  RecvSizeExact /\ DoneMeansComplete`.  `Phases` says what the client's variables
  hold before it knows the size and that a -1 is in flight only if the client is
  done; without it neither the first block nor the server's end can be proved about.
  `DoneMeansComplete` is arithmetic: the marked bytes of any set of blocks that
  misses one are less than `fileSize`, stated as lemmas on `PacketCount` and
  `Cardinality`.
- **Turbo implements FileTransfer.**  Two more parts of the invariant.  The handshake
  takes turns: while it lasts at most one datagram is in flight, and it is the one that
  the other side is about to read, so no ACK or request is ever taken for a NACK.  And
  blocks asked for, blocks in flight and blocks marked are blocks of the file, since a
  NACK shorter than `Cleared` is followed by a cleared word.  Then `garbage` is empty
  and each step of the two programs is one of `FileTransfer` or a stutter.
  `OnlyBlockZeroSuspect` needs neither condition: a datagram that carries no block has
  no number, which `atoi` makes 0, or is the size, and no block of a file has a number
  as large as the file's size.
- **WeTalk.**  `WaitingIsTimed` alone is not inductive: the step that clears
  `received` must find `alarm(7)` still to come in the same list, and no step of
  a handler may clear `received`.  `TodoOK` says which statements can be left of each
  frame: in the main loop's list a cleared `received` is always followed by the
  alarm, a handler's list never clears it.
- **WeTalk, the pointer.**  `TalkInv` has three parts.  `Stacked`: the handlers on the
  stack are those with statements left, each once.  `Talk`: wherever a frame is about to move
  the pointer there is no conversation, and none of the frames it has interrupted is
  about to begin one.  `Company`: whoever waits, invites or accepts has an opponent, and so has
  `packet_handler` when it is about to open a conversation, unless the alarm has given
  the invitation up during this call.  The handlers' lists are finite in
  number (`ListsOf`), so the proof goes by the statement a frame executes and the one
  it leaves next (`Follows`).

- **Overlay.**  That a child's request ends in leftovers does not show in the
  child's state, so `RouteAsTyped` says too little to be inductive.  Three facts
  carry it.  `FromUser`, `FromChild`: the route of a child *extends* what it was
  asked for by a user or by a child with a smaller number.  `Growing`: the
  buffer of a router never gets shorter, so neither do the routes of its
  children.  `Descends`: every shorter part of the route of a relay is the route
  of a relay further on, because a port comes up only from a chain that ends at
  the server.  Now a relay cannot have found leftovers (`NoStale`): if its route
  were longer than what it was asked for, the part of the route that was asked
  for would be, by `Descends`, the route of a later child; that child runs on the
  same router, the last name of the part, and its route is shorter than an earlier one there,
  against `Growing`.  So a relay's route is what was asked for
  (`AheadAsAsked`), and by the datagrams' part of the invariant (`Home`) a port
  that reaches a builder comes from the relay it asked for.  The invariant is
  `IInv`; a frame lemma says which of its parts a step that moves one child keeps.
- **Overlay, the way home.**  The invariant is `HInv`: `IInv`, and `WayHome` until
  something is duplicated.  `AnswersGoHome` cannot stand alone, since a relay takes
  whoever speaks first, and is not its server, for its client.  `OneAnswer`: a child
  asks once and is told one port.  `Lanes`: every child can be given to one user, so
  that the child that asked for it belongs to the same user; what applications ask then
  stays among the relays of its user, the only one who sends to a relay first is the
  relay before it or the application, and an answer finds the client that is one step
  nearer to that user.  The owner is not a variable of the program; that there is one
  is what the invariant says.
- **Overlay, types.**  `TypeOK` bounds the routers' buffers, which only grow.  The
  length of a request does not bound what is sent on, as the leftovers travel too, so
  `Lengths` says for each *place* of a buffer or route what can stand there:
  junk, or a name that some typed route was long enough to bring.  `Timed`: a child that
  waits has a timer.
- **Overlay, nobody is forgotten.**  `NobodyForgotten` is the part of `BuilderHears`
  that needs no fairness: what fairness finds to act on.  `Minded` follows the debt
  from the request to the child that took it up; a child gives up its debt only in the
  step that sends the port or the A (`StillOwes`), and with `Timed` a child that waits
  is on the list of timers.

- **AudioStream.**  `SemCovers`, `LevelIsBacklog` and `NeverEmptyHanded` need
  `Standing`: what the main program knows about the level where it stands, above all that
  between `load` and `store` the level read is at most the present one.
  `PlayedInOrder` is then about sequences: a stretch of the buffer split in two,
  moved to the front, or grown at its end is what the lemmas of the module say
  (`StretchJoin`, and what `Moved` and `Appended` do to a stretch), and `Rest` is the
  stretch still to be played at each place.
- **AudioServer.**  The invariant is `TypeOK`, `Standing` (per process: where it is
  decides which descriptors, signal and port it has; in a stream, its socket has the
  number its connection had, and a pending signal has a report), `Alone` (while a client
  is in `alone`, all that is in flight is its own and its process holds the port),
  `CutShort`, and `Accountable` (the server only accepts and gets no signals; its
  descriptors are its first three and at most one for each client that it accepted
  itself and that left one; nobody has accepted a client that still waits).  That the return gives the port back is
  `Standing` before the fork: the lowest free number is the same in parent and
  child, and is free again when the child asks for its socket.  `LowSpeedsUp` is
  the arithmetic of `Paced`, method by method; that a correction wraps only where
  the property allows it is a lemma about `Truncated`.
- **TcpFile.**  Everything that is stored or on its way is a stretch of the whole
  transfer (the file and its trailer) at its place (`StandsAt`): what a worker sends
  continues the stretch on its connection, a piece is cut from its front, and written
  at its place it leaves a first part of the whole, whichever client writes.  So the
  file of a client that has read to the end of an unbroken connection is the whole, and
  what others write over it are the same bytes.  The invariant is `Types /\ (Misled
  \/ Emptied \/ Good)`: what spoils a transfer is never undone.  What the trailer's
  values are does not matter to it.
- **TcpFile, who fails.**  `FInv` adds `TypeOK`, `Tidy` (where a client stands says
  what its worker can have done) and `Blamed` (what will make a client fail has a
  fault behind it already).  At the check what is stored is the whole, by the argument
  above, and `SealedMatches` says that it passes.
- **Checksum.**  The sum of a file of any length is induction over data.  The library's
  induction theorems take an operator and cannot be used here, so the module has its own
  two lemmas about sets: `UpTo` is induction as a least exception, from the
  well-foundedness of the naturals, and `Recursion` builds with it the function that
  `Sum` and `FromBigEndian` define, so that `CHOOSE` finds it.  Then the
  running sum over two parts is the sum of both (`SumOfTwo`), the big-endian trailer
  read back is the number it was made of, and subtracting the trailer's own bytes leaves
  the file's.  `OneByteNoticed`: with a byte of the file changed, the two running sums
  part there, by less than `Base`, and stay so far apart to the end; with one of
  the trailer changed, the sum of the file stays while the number read from the
  trailer moves.

Every invariant and every safety property of the passing runs is a theorem, under the
conditions in the table.  Only model-checked is liveness: `KeepsPassing`, `Completes`,
`ServerEnds`, `InviteResolves`, `BuilderHears`, `Answered`, `Ends`, `Served` and
`ClientEnds`.  Liveness under fairness and `ENABLED` are out of the prover's reach, and so
are RECURSIVE operators; no module here declares one.

## 5. Not modelled, and why

- In Turbo: parsing of arguments, key and file name (one nondeterministic
  outcome), the contents of blocks, files past the client's array, system calls that
  fail, with them the error that the client's connected socket returns when the
  server has left between two of its three -1, which go out in one step here; the wrap of a block's number
  times `BLOCKSIZE` at 2^32, in the server (`control[i]*BLOCKSIZE`) and in the client
  (`turboclient.c:418`).  A request that is read as a NACK is one number past the last
  block, where the code reads several, all past the last block too.  A size that is
  parsed from a datagram that is none is some number up to the file's size, where the
  code takes what the bytes say.
- In WeTalk: line editing and display, the texts sent, dialling oneself.
- In Turbo, further: the client's `bzero` of `BLOCKSIZE` + 8 bytes of an array of
  `BLOCKSIZE`, which is undefined; it is taken to spoil nothing.
- In the overlay: the text of requests, names of different lengths, routes past
  the 280 bytes of `str`, the contents of what is relayed, system calls that fail.
- In the audio client: names and arguments, the registration over TCP before
  the OK, plotting; a signal inside a `write` to the device; more than one client per
  server (that is AudioServer).
- In the audio server: what is written to the logs, name look-ups that fail, system
  calls that fail other than `accept`, the `read` and `write` of a request and its
  answer, `fork`, `fopen` and the handler's `recvfrom`; the sleep
  between packets beyond the value of `pktSpcing`, a read of the file that fails.
  A packet or its report may be lost; packets of one stream are not told apart.
- In the TCP transfer: keys that are wrong and names that are illegal, the byte
  counts that are printed (the Java client's is one too few), clients that are killed,
  a check interleaved with another client's write.
- Of the checksum tools: the copying of the file without its last 8 bytes, and
  what `myunchecksum` does after a mismatch.
- `gui_wetalk.c` has the shared variables, handlers and commands of
  `wetalk.c`; the callback of a button takes the place of the main loop, and the
  program quits by a SIGKILL to itself.  When the toolkit calls what is not in the
  source, and a model of it would be WeTalk with another program counter.
- Ping: one request and one answer at a time; the client ends itself by counting
  its alarms.  Traffic generators: a sender that never listens and a receiver that
  ends on a lost or found end marker, the kind of hazard AudioStream has.  FIFO server
  and simple shell: one read, one fork and one exec per command; that the
  requests of two clients mix in the FIFO is what the kernel does with writes longer
  than `PIPE_BUF`.
- What is pure input and output (argument checks, plotting, printing) anywhere.

## 6. Plan

1. *(done)* Loss injector, Turbo, WeTalk, their runs and first theorems.
2. *(done)* Overlay and UDP tunnel with their common relay, the theorem that a
   reported route is the one typed.
3. *(done)* Audio: the client's buffer under its handler, the server's processes,
   descriptors and spacing; their theorems.
4. *(done)* TCP transfer and checksum, for any pieces, two clients and one fault.
5. *(done)* Turbo implements `FileTransfer`; a conversation keeps its opponent, for
   any set of peers; a reported file is the server's, and only a fault fails
   anyone; answers go home; what the checksum notices.
6. What the other liveness properties rest on, as `NobodyForgotten` is for
   `BuilderHears`: that a client of the audio server that waits has a process or a place
   in the queue, and that a client of the TCP transfer that reads has a worker.
7. Ping, traffic, FIFO server, if they ever keep more state.
