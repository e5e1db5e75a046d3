------------------------------- MODULE WeTalk -------------------------------
(***************************************************************************)
(* The UDP chat of src/lab4/wetalk.c (gui_wetalk.c keeps the same state    *)
(* the same way).  Each peer is one process: a main loop that reads a line *)
(* and acts on it, interrupted by packet_handler on SIGIO and by           *)
(* handle_signal_alarm on SIGALRM.  No signal mask is set, so either       *)
(* handler also interrupts the other, and all three share connection,      *)
(* received, opp_server_pointer, opp_server and their_addr.                *)
(*                                                                         *)
(* One step is one test or one assignment of a shared variable.  What a    *)
(* test decided is kept as the list of statements still to run; the main   *)
(* loop runs while no handler is on its stack, a handler while it is on    *)
(* top.                                                                    *)
(***************************************************************************)
EXTENDS Integers, Sequences, FiniteSets, Datagrams

CONSTANTS
  Peers,     \* the processes
  NoPeer,    \* the target of a NULL pointer, the content of an address nobody wrote
  Patient,   \* users wait for the answer to their invitation before typing again
  MaxLines,  \* bound on the lines each user types
  MaxLost    \* bound on the datagrams the network loses

ASSUME WeTalkAssumption ==
  /\ NoPeer \notin Peers
  /\ Patient \in BOOLEAN
  /\ MaxLines \in [Peers -> Nat]
  /\ MaxLost \in Nat

\* A line: a command letter, or a peer's "hostname port".  In a conversation
\* every line but "e" is sent as text.
Letter == {"c", "n", "e", "q"}
Line == Letter \cup Peers

\* The three threads of control of a process.
Handler == {"io", "alarm"}
Frame == {"main"} \cup Handler

\* opp_server_pointer: NULL, &opp_server or &their_addr.
Pointer == {"null", "server", "their"}

Statement == {"sendOK", "sendKO", "sendE", "sendD", "sendWanna", "connTrue", "connFalse",
              "recvTrue", "recvFalse", "oppNull", "oppServer", "oppTheir", "alarm7"}

VARIABLES
  connection,  \* connection, per peer
  received,    \* received: no invitation of this peer waits for an answer
  opp,         \* opp_server_pointer
  opp_server,  \* the peer last dialled
  their_addr,  \* the sender of the last datagram read
  timer,       \* an alarm is set
  pc,          \* the main loop: prompt, test, idle, talking, wrong, gone
  line,        \* toProcess
  todo,        \* the statements main and the handlers still have to run
  stack,       \* the handlers that have interrupted, the running one first
  expired,     \* history: an invitation was given up during the last call of packet_handler
  lines,       \* lines typed
  net,         \* datagrams in flight
  lost

peer == <<connection, received, opp, opp_server, their_addr, timer>>
vars == <<connection, received, opp, opp_server, their_addr, timer, pc, line, todo, stack,
          expired, lines, net, lost>>

Init ==
  /\ connection = [p \in Peers |-> FALSE]
  /\ received = [p \in Peers |-> TRUE]
  /\ opp = [p \in Peers |-> "null"]
  /\ opp_server = [p \in Peers |-> NoPeer]
  /\ their_addr = [p \in Peers |-> NoPeer]
  /\ timer = [p \in Peers |-> FALSE]
  /\ pc = [p \in Peers |-> "prompt"]
  /\ line = [p \in Peers |-> "q"]
  /\ todo = [p \in Peers |-> [f \in Frame |-> <<>>]]
  /\ stack = [p \in Peers |-> <<>>]
  /\ expired = [p \in Peers |-> FALSE]
  /\ lines = [p \in Peers |-> 0]
  /\ net = NoDatagrams
  /\ lost = 0

-----------------------------------------------------------------------------
\* The frame whose turn it is.
Running(p) == IF stack[p] = <<>> THEN "main" ELSE Head(stack[p])

\* The address opp_server_pointer points at, NoPeer for NULL.
Opponent(p) ==
  CASE opp[p] = "null"   -> NoPeer
    [] opp[p] = "server" -> opp_server[p]
    [] opp[p] = "their"  -> their_addr[p]

\* sendto: with a NULL address it fails, and the program goes on.
SendTo(p, dst, m) ==
  net' = IF dst = NoPeer THEN net ELSE Put(net, [src |-> p, dst |-> dst, msg |-> m])

\* One statement of the running frame f of p; a handler returns with its last.
Execute(p) ==
  LET f == Running(p)
      s == Head(todo[p][f])
  IN /\ todo[p][f] # <<>>
     /\ todo' = [todo EXCEPT ![p][f] = Tail(@)]
     /\ stack' = IF f # "main" /\ Len(todo[p][f]) = 1
                   THEN [stack EXCEPT ![p] = Tail(@)] ELSE stack
     /\ connection' = [connection EXCEPT ![p] = (@ /\ s # "connFalse") \/ s = "connTrue"]
     /\ received' = [received EXCEPT ![p] = (@ /\ s # "recvFalse") \/ s = "recvTrue"]
     /\ opp' = [opp EXCEPT ![p] = CASE s = "oppNull"   -> "null"
                                    [] s = "oppServer" -> "server"
                                    [] s = "oppTheir"  -> "their"
                                    [] OTHER           -> @]
     /\ opp_server' = IF s = "oppServer" THEN [opp_server EXCEPT ![p] = line[p]] ELSE opp_server
     /\ timer' = [timer EXCEPT ![p] = @ \/ s = "alarm7"]
     /\ CASE s = "sendOK"    -> SendTo(p, Opponent(p), "OK")
          [] s = "sendKO"    -> SendTo(p, Opponent(p), "KO")
          [] s = "sendE"     -> SendTo(p, Opponent(p), "E")
          [] s = "sendD"     -> SendTo(p, Opponent(p), "D")
          [] s = "sendWanna" -> SendTo(p, opp_server[p], "WANNATALK")
          [] OTHER           -> UNCHANGED net
     /\ UNCHANGED <<their_addr, pc, line, expired, lines, lost>>

-----------------------------------------------------------------------------
\* The main loop.

MainTurn(p) == Running(p) = "main" /\ todo[p]["main"] = <<>>

\* A line is read.
ReadLine(p) ==
  /\ MainTurn(p)
  /\ pc[p] = "prompt"
  /\ lines[p] < MaxLines[p]
  /\ Patient => received[p]
  /\ \E l \in Line \ {p} : line' = [line EXCEPT ![p] = l]
  /\ lines' = [lines EXCEPT ![p] = @ + 1]
  /\ pc' = [pc EXCEPT ![p] = "test"]
  /\ UNCHANGED <<peer, todo, stack, expired, net, lost>>

\* if (!connection)
TestConnection(p) ==
  /\ MainTurn(p)
  /\ pc[p] = "test"
  /\ pc' = [pc EXCEPT ![p] = IF connection[p] THEN "talking" ELSE "idle"]
  /\ UNCHANGED <<peer, line, todo, stack, expired, lines, net, lost>>

\* Mutation of DialStatements: the alarm is set before received is cleared.
DialStatementsTimerFirst == <<"oppServer", "sendWanna", "alarm7", "recvFalse">>

\* The invitation: it goes out before received is cleared and the alarm is set.
DialStatements == <<"oppServer", "sendWanna", "recvFalse", "alarm7">>

\* Mutation of IdleStatements: any line is dialled, without isnumber and
\* gethostbyname.
IdleStatementsUnchecked(p) ==
  CASE opp[p] # "null" /\ line[p] = "c"      -> <<"sendOK", "connTrue">>
    [] opp[p] # "null" /\ line[p] = "n"      -> <<"sendKO", "connFalse", "oppNull">>
    [] opp[p] = "null"                       -> DialStatements
    [] OTHER                                 -> <<>>

\* Outside a conversation, with opp_server_pointer set or not.
IdleStatements(p) ==
  CASE opp[p] # "null" /\ line[p] = "c"      -> <<"sendOK", "connTrue">>
    [] opp[p] # "null" /\ line[p] = "n"      -> <<"sendKO", "connFalse", "oppNull">>
    [] opp[p] = "null" /\ line[p] \in Peers  -> DialStatements
    [] OTHER                                 -> <<>>

\* Mutation of TalkStatements: connection is cleared last.
TalkStatementsPointerFirst(p) ==
  IF line[p] = "e" THEN <<"sendE", "oppNull", "connFalse">> ELSE <<"sendD">>

\* In a conversation.
TalkStatements(p) ==
  IF line[p] = "e" THEN <<"sendE", "connFalse", "oppNull">> ELSE <<"sendD">>

\* if (opp_server_pointer != NULL) and what follows from it.  "q" ends the
\* process, alarm(0) on the way; a NULL pointer in a conversation is reported
\* as an error.
TestOpponent(p) ==
  /\ MainTurn(p)
  /\ \/ /\ pc[p] = "idle"
        /\ \/ /\ opp[p] = "null" /\ line[p] = "q"
              /\ pc' = [pc EXCEPT ![p] = "gone"]
              /\ timer' = [timer EXCEPT ![p] = FALSE]
              /\ UNCHANGED todo
           \/ /\ opp[p] # "null" \/ line[p] # "q"
              /\ pc' = [pc EXCEPT ![p] = "prompt"]
              /\ todo' = [todo EXCEPT ![p]["main"] = IdleStatements(p)]
              /\ UNCHANGED timer
     \/ /\ pc[p] = "talking"
        /\ opp[p] # "null"
        /\ pc' = [pc EXCEPT ![p] = "prompt"]
        /\ todo' = [todo EXCEPT ![p]["main"] = TalkStatements(p)]
        /\ UNCHANGED timer
     \/ /\ pc[p] = "talking"
        /\ opp[p] = "null"
        /\ pc' = [pc EXCEPT ![p] = "wrong"]
        /\ UNCHANGED <<todo, timer>>
  /\ UNCHANGED <<connection, received, opp, opp_server, their_addr, line, stack, expired,
                 lines, net, lost>>

\* "ERROR: Wetalk wrongly assumes connection." has been printed; next prompt.
Reprompt(p) ==
  /\ MainTurn(p)
  /\ pc[p] = "wrong"
  /\ pc' = [pc EXCEPT ![p] = "prompt"]
  /\ UNCHANGED <<peer, line, todo, stack, expired, lines, net, lost>>

-----------------------------------------------------------------------------
\* The signal handlers.

\* Mutation of HandlerStatements: WANNATALK is taken in a conversation too.
HandlerStatementsAnyTime(p, m) ==
  IF m = "WANNATALK" THEN <<"oppTheir">>
  ELSE IF ~connection[p] /\ ~received[p] /\ m = "OK" THEN <<"recvTrue", "connTrue">>
  ELSE IF ~connection[p] /\ ~received[p] /\ m = "KO" THEN <<"recvTrue", "connFalse", "oppNull">>
  ELSE IF connection[p] /\ m = "E" THEN <<"connFalse", "oppNull">>
  ELSE <<>>

\* What packet_handler decides to do about message m.
HandlerStatements(p, m) ==
  CASE ~connection[p] /\ m = "WANNATALK"              -> <<"oppTheir">>
    [] ~connection[p] /\ ~received[p] /\ m = "OK"     -> <<"recvTrue", "connTrue">>
    [] ~connection[p] /\ ~received[p] /\ m = "KO"     -> <<"recvTrue", "connFalse", "oppNull">>
    [] connection[p] /\ m = "E"                       -> <<"connFalse", "oppNull">>
    [] OTHER                                          -> <<>>

\* Handler h of p starts with the statements ss, unless it already runs.
Interrupt(p, h, ss) ==
  /\ pc[p] # "gone"
  /\ \A i \in 1 .. Len(stack[p]) : stack[p][i] # h
  /\ todo' = [todo EXCEPT ![p][h] = ss]
  /\ stack' = IF ss = <<>> THEN stack ELSE [stack EXCEPT ![p] = <<h>> \o @]

\* packet_handler: recvfrom writes their_addr, the tests decide the rest.  A
\* handler that loops to a second datagram is one that is called again.
PacketHandler(p) ==
  \E d \in DOMAIN net :
    /\ d.dst = p
    /\ net' = Take(net, d)
    /\ their_addr' = [their_addr EXCEPT ![p] = d.src]
    /\ expired' = [expired EXCEPT ![p] = FALSE]
    /\ Interrupt(p, "io", HandlerStatements(p, d.msg))
    /\ UNCHANGED <<connection, received, opp, opp_server, timer, pc, line, lines, lost>>

\* handle_signal_alarm: the seven seconds are over.  The history notes whether
\* the invitation it gives up is one packet_handler is just dealing with.
AlarmHandler(p) ==
  /\ timer[p]
  /\ timer' = [timer EXCEPT ![p] = FALSE]
  /\ expired' = [expired EXCEPT ![p] = @ \/ (~received[p] /\ todo[p]["io"] # <<>>)]
  /\ Interrupt(p, "alarm", IF received[p] THEN <<>> ELSE <<"recvTrue", "connFalse", "oppNull">>)
  /\ UNCHANGED <<connection, received, opp, opp_server, their_addr, pc, line, lines, net, lost>>

\* The network loses a datagram.
Lose ==
  /\ lost < MaxLost
  /\ lost' = lost + 1
  /\ \E d \in DOMAIN net : net' = Take(net, d)
  /\ UNCHANGED <<peer, pc, line, todo, stack, expired, lines>>

-----------------------------------------------------------------------------
Main(p) == TestConnection(p) \/ TestOpponent(p) \/ Reprompt(p)

Next ==
  \/ \E p \in Peers : \/ Execute(p)
                      \/ ReadLine(p)
                      \/ TestConnection(p)
                      \/ TestOpponent(p)
                      \/ Reprompt(p)
                      \/ PacketHandler(p)
                      \/ AlarmHandler(p)
  \/ Lose

Spec == Init /\ [][Next]_vars

\* The processes run, a timer that is set expires, and a datagram that is not
\* lost raises SIGIO.  No user has to type.
Fairness ==
  \A p \in Peers :
    /\ WF_vars(Execute(p))
    /\ WF_vars(Main(p))
    /\ WF_vars(PacketHandler(p))
    /\ WF_vars(AlarmHandler(p))

FairSpec == Spec /\ Fairness

-----------------------------------------------------------------------------
\* Properties.

Has(s, x) == \E i \in 1 .. Len(s) : s[i] = x

\* TypeOK: the types of the variables.
TypeOK ==
  /\ connection \in [Peers -> BOOLEAN]
  /\ received \in [Peers -> BOOLEAN]
  /\ opp \in [Peers -> Pointer]
  /\ opp_server \in [Peers -> Peers \cup {NoPeer}]
  /\ their_addr \in [Peers -> Peers \cup {NoPeer}]
  /\ timer \in [Peers -> BOOLEAN]
  /\ pc \in [Peers -> {"prompt", "test", "idle", "talking", "wrong", "gone"}]
  /\ line \in [Peers -> Line]
  /\ todo \in [Peers -> [Frame -> Seq(Statement)]]
  /\ stack \in [Peers -> Seq(Handler)]
  /\ expired \in [Peers -> BOOLEAN]
  /\ lines \in [Peers -> Nat]
  /\ \A p \in Peers : lines[p] <= MaxLines[p]
  /\ DOMAIN net \subseteq
       [src : Peers, dst : Peers, msg : {"WANNATALK", "OK", "KO", "E", "D"}]
  /\ \A d \in DOMAIN net : net[d] \in 1 .. Copies
  /\ lost \in 0 .. MaxLost

\* An invitation without an answer has a timer: whatever interrupts the main
\* loop between clearing received and alarm(7), and an old alarm that goes off
\* there, a peer that waits is a peer that a SIGALRM will release.
WaitingIsTimed ==
  \A p \in Peers :
    ~received[p] /\ pc[p] # "gone" =>
      timer[p] \/ Has(todo[p]["main"], "alarm7") \/ Has(todo[p]["alarm"], "recvTrue")

\* Every invitation is answered or given up, unless the user quits.
InviteResolves == \A p \in Peers : (~received[p]) ~> (received[p] \/ pc[p] = "gone")

\* A conversation with nobody: the state the error message of the main loop
\* speaks of.  No line but text leaves it.
Wedged(p) == connection[p] /\ opp[p] = "null"

\* If users wait for the answer to an invitation, a peer comes to talk with
\* nobody only by a statement of packet_handler, and only if the alarm has gone
\* off and given up an invitation during that very call of it.
WedgeNeedsExpiry ==
  [][Patient => \A p \in Peers :
       Wedged(p)' => Wedged(p) \/ (Running(p) = "io" /\ expired[p])]_vars

\* If users wait, an established conversation keeps its opponent pointer until
\* it ends: no invitation, late answer or alarm moves it.
ConversationKept ==
  [][Patient => \A p \in Peers : connection[p] /\ connection'[p] => opp'[p] = opp[p]]_vars

\* The main loop never finds itself in a conversation with nobody, the state it
\* reports with "ERROR: Wetalk wrongly assumes connection."
NoWrongAssumption == \A p \in Peers : pc[p] # "wrong"
=============================================================================
