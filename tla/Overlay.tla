------------------------------ MODULE Overlay -------------------------------
(***************************************************************************)
(* Routes through a chain of overlay routers (src/lab6/overlayrouter.c),   *)
(* asked for by overlaybuild.c, and tunnels through one tunnel server      *)
(* (src/lab4/tunneld.c), asked for by mytunnel.c.                          *)
(*                                                                         *)
(* A server forks one child per request.  A router's child strips its own  *)
(* name off the request, asks the next router, waits up to 30 seconds for  *)
(* a port, and answers with a port of its own; the child of the last       *)
(* router and of a tunnel server answers at once.  From then on a child    *)
(* relays for ever (module Relay).  Through a route that was reported to   *)
(* it an application asks a server, which answers whoever asked.           *)
(*                                                                         *)
(* A child's port is its number in the order of forks: the kernel's choice *)
(* is taken to differ from every port in use, on any host.                 *)
(***************************************************************************)
EXTENDS Integers, SequencesExt, Datagrams, Relay

CONSTANTS
  Routers,      \* hosts that run overlayrouter
  Tunnels,      \* hosts that run tunneld
  Users,        \* hosts with a user, who builds one route and then uses it
  DestHost,     \* the host of the server at the far end
  Routes,       \* per user: the routes to choose from, the host to ask first last
  Junk,         \* what an uninitialised buffer can hold instead of a host's name
  Stacks,       \* what the routers' buffers can hold before the first request
  MaxChildren,  \* bound on the children forked
  MaxLost,      \* bound on the datagrams the network loses
  MaxDup        \* bound on the datagrams the network duplicates

ASSUME OverlayAssumption ==
  /\ Routers \cap Tunnels = {}
  /\ Junk \cap (Routers \cup Tunnels) = {}
  /\ Stacks \subseteq [Routers -> Seq(Junk)]
  /\ \A u \in Users : \A route \in Routes[u] :
       \/ route \in Seq(Routers) /\ route # <<>>
       \/ \E t \in Tunnels : route = <<t>>
  /\ NoAddress \notin
       [host : Routers \cup Tunnels \cup Users \cup {DestHost} \cup Junk, port : Nat]
  /\ MaxChildren \in Nat
  /\ MaxLost \in Nat
  /\ MaxDup \in Nat

Child == 1 .. MaxChildren

At(host, port) == [host |-> host, port |-> port]
KnownPort == 0
BuildPort == MaxChildren + 1   \* the socket of overlaybuild and mytunnel
AppPort   == MaxChildren + 2   \* the socket of the application
DestPort  == MaxChildren + 3
DestAt    == At(DestHost, DestPort)

\* kind: request, port, A (no route), -1 (no such server), ask, answer.  route
\* belongs to a request, port to a port, user to an ask and its answer.
Datagram(src, dst, kind) ==
  [src |-> src, dst |-> dst, kind |-> kind, route |-> <<>>, port |-> 0, user |-> DestHost]
RequestTo(src, host, route) ==
  [Datagram(src, At(host, KnownPort), "request") EXCEPT !.route = route]
PortTo(src, dst) == [Datagram(src, dst, "port") EXCEPT !.port = src.port]
Forwarded(d, src, dst) == [d EXCEPT !.src = src, !.dst = dst]

VARIABLES
  buffer,    \* per router: the names in the buffer the parent receives into
  child,     \* the children in the order of forks: host, phase, route,
             \* their_addr and the relay
  timers,    \* the children in recvfrom with the 30 second limit, oldest first
  phase,     \* per user: start, waiting, told, failed
  typed,     \* per user: the route typed
  told,      \* per user: the port overlaybuild printed
  asked,     \* users whose application has sent
  answered,  \* users whose application has received
  net,
  lost,
  dups

vars == <<buffer, child, timers, phase, typed, told, asked, answered, net, lost, dups>>

Init ==
  /\ buffer \in Stacks
  /\ child = <<>>
  /\ timers = <<>>
  /\ phase = [u \in Users |-> "start"]
  /\ typed = [u \in Users |-> <<>>]
  /\ told = [u \in Users |-> 0]
  /\ asked = {}
  /\ answered = {}
  /\ net = NoDatagrams
  /\ lost = 0
  /\ dups = 0

-----------------------------------------------------------------------------
\* overlaybuild and mytunnel.

BuilderAsk(u) ==
  /\ phase[u] = "start"
  /\ phase' = [phase EXCEPT ![u] = "waiting"]
  /\ \E route \in Routes[u] :
       /\ typed' = [typed EXCEPT ![u] = route]
       /\ net' = Put(net, RequestTo(At(u, BuildPort), Last(route), route))
  /\ UNCHANGED <<buffer, child, timers, told, asked, answered, lost, dups>>

\* Mutation of IsPort: atoi without isnumber, which makes 0 of an A.
IsPortOrA(d) == d.kind \in {"port", "A"}

\* isnumber(recv_response) and not -1.
IsPort(d) == d.kind = "port"

\* recvfrom without a time limit: the port, or one of two kinds of failure.
BuilderHear(u) ==
  /\ phase[u] = "waiting"
  /\ \E d \in DOMAIN net :
       /\ d.dst = At(u, BuildPort)
       /\ net' = Take(net, d)
       /\ IF IsPort(d)
            THEN /\ phase' = [phase EXCEPT ![u] = "told"]
                 /\ told' = [told EXCEPT ![u] = d.port]
            ELSE /\ phase' = [phase EXCEPT ![u] = "failed"]
                 /\ UNCHANGED told
  /\ UNCHANGED <<buffer, child, timers, typed, asked, answered, lost, dups>>

-----------------------------------------------------------------------------
\* The parents.

Fork(host, route, addr) ==
  /\ Len(child) < MaxChildren
  /\ child' = Append(child, [host |-> host, phase |-> "new", route |-> route,
                             their_addr |-> addr,
                             relay |-> [server |-> NoAddress, client |-> NoAddress]])

\* Mutation of Received: the buffer is filled from behind.
ReceivedBehind(route, old) == old \o route

\* The names the child finds: those of the request, then, as the buffer is not
\* cleared and a datagram has no terminator, those an earlier and longer request,
\* or the stack, left behind.  (All names are taken to be of one length.)
Received(route, old) == route \o SubSeq(old, Len(route) + 1, Len(old))

RouterFork(r) ==
  /\ \E d \in DOMAIN net :
       /\ d.dst = At(r, KnownPort)
       /\ net' = Take(net, d)
       /\ buffer' = [buffer EXCEPT ![r] = Received(d.route, @)]
       /\ Fork(r, buffer'[r], d.src)
  /\ UNCHANGED <<timers, phase, typed, told, asked, answered, lost, dups>>

\* tunneld clears its packet before every request.
TunnelFork(t) ==
  /\ \E d \in DOMAIN net :
       /\ d.dst = At(t, KnownPort)
       /\ net' = Take(net, d)
       /\ Fork(t, d.route, d.src)
  /\ UNCHANGED <<buffer, timers, phase, typed, told, asked, answered, lost, dups>>

-----------------------------------------------------------------------------
\* The children.

Self(c) == At(child[c].host, c)

\* c answers with its port and relays to the given server from now on.
StartRelay(c, server, network) ==
  /\ child' = [child EXCEPT ![c].phase = "relay", ![c].relay.server = server]
  /\ net' = Put(network, PortTo(Self(c), child[c].their_addr))

\* a == 3: the router next to the server.  A child that cannot resolve the
\* server's name ends without a word.
LastHop(c) ==
  /\ child[c].phase = "new"
  /\ child[c].host \in Routers
  /\ Len(child[c].route) = 1
  /\ \/ StartRelay(c, DestAt, net)
     \/ /\ child' = [child EXCEPT ![c].phase = "unresolved"]
        /\ UNCHANGED net
  /\ UNCHANGED <<buffer, timers, phase, typed, told, asked, answered, lost, dups>>

\* A tunnel's child says -1 instead.
TunnelHop(c) ==
  /\ child[c].phase = "new"
  /\ child[c].host \in Tunnels
  /\ \/ StartRelay(c, DestAt, net)
     \/ /\ child' = [child EXCEPT ![c].phase = "unresolved"]
        /\ net' = Put(net, Datagram(Self(c), child[c].their_addr, "-1"))
  /\ UNCHANGED <<buffer, timers, phase, typed, told, asked, answered, lost, dups>>

\* server_to_contact = ch_ptrs[a-2]
NextHop(c) == Last(Front(child[c].route))

\* The request without its last name goes to the next router, to nobody if that
\* name is no host's.
Forward(c) ==
  /\ child[c].phase = "new"
  /\ child[c].host \in Routers
  /\ Len(child[c].route) > 1
  /\ child' = [child EXCEPT ![c].phase = "sent"]
  /\ net' = Put(net, RequestTo(Self(c), NextHop(c), Front(child[c].route)))
  /\ UNCHANGED <<buffer, timers, phase, typed, told, asked, answered, lost, dups>>

\* recvfrom begins, and with it the 30 seconds.
Wait(c) ==
  /\ child[c].phase = "sent"
  /\ child' = [child EXCEPT ![c].phase = "wait"]
  /\ timers' = Append(timers, c)
  /\ UNCHANGED <<buffer, phase, typed, told, asked, answered, net, lost, dups>>

\* recvfrom returns: a port is answered with the child's own, an A ends the child
\* and goes no further.  (No router sends -1.)
HearReply(c) ==
  /\ child[c].phase = "wait"
  /\ \E d \in DOMAIN net :
       /\ d.dst = Self(c)
       /\ IF IsPort(d)
            THEN StartRelay(c, At(NextHop(c), d.port), Take(net, d))
            ELSE /\ child' = [child EXCEPT ![c].phase = "refused"]
                 /\ net' = Take(net, d)
  /\ \E i \in DOMAIN timers : timers[i] = c /\ timers' = RemoveAt(timers, i)
  /\ UNCHANGED <<buffer, phase, typed, told, asked, answered, lost, dups>>

\* Mutation of Expire: the child ends without telling.
ExpireSilently(c) == net

\* An A to the one who asked.
Expire(c) == Put(net, Datagram(Self(c), child[c].their_addr, "A"))

\* 30 seconds without a reply.  All limits are equal, so they expire in the order
\* they were set.
Timeout ==
  /\ timers # <<>>
  /\ child' = [child EXCEPT ![Head(timers)].phase = "expired"]
  /\ net' = Expire(Head(timers))
  /\ timers' = Tail(timers)
  /\ UNCHANGED <<buffer, phase, typed, told, asked, answered, lost, dups>>

\* One round of send_socket_data.  A round that times out changes nothing.
RelayOne(c) ==
  /\ child[c].phase = "relay"
  /\ \E d \in DOMAIN net :
       LET relay == child[c].relay
           known == [relay EXCEPT !.client = Learn(relay, d.src)]
           dst   == Onward(relay, d.src)
       IN /\ d.dst = Self(c)
          /\ child' = [child EXCEPT ![c].relay = known]
          /\ net' = IF dst = NoAddress THEN Take(net, d)
                    ELSE Put(Take(net, d), Forwarded(d, Self(c), dst))
  /\ UNCHANGED <<buffer, timers, phase, typed, told, asked, answered, lost, dups>>

-----------------------------------------------------------------------------
\* The application of user u, and the server.

AppAsk(u) ==
  /\ phase[u] = "told"
  /\ u \notin asked
  /\ asked' = asked \cup {u}
  /\ net' = Put(net, [Datagram(At(u, AppPort), At(Last(typed[u]), told[u]), "ask")
                        EXCEPT !.user = u])
  /\ UNCHANGED <<buffer, child, timers, phase, typed, told, answered, lost, dups>>

AppHear(u) ==
  /\ \E d \in DOMAIN net :
       /\ d.dst = At(u, AppPort)
       /\ net' = Take(net, d)
  /\ answered' = answered \cup {u}
  /\ UNCHANGED <<buffer, child, timers, phase, typed, told, asked, lost, dups>>

DestAnswer ==
  /\ \E d \in DOMAIN net :
       /\ d.dst = DestAt
       /\ d.kind = "ask"
       /\ net' = Put(Take(net, d), [Forwarded(d, DestAt, d.src) EXCEPT !.kind = "answer"])
  /\ UNCHANGED <<buffer, child, timers, phase, typed, told, asked, answered, lost, dups>>

\* The network.

Lose ==
  /\ lost < MaxLost
  /\ lost' = lost + 1
  /\ \E d \in DOMAIN net : net' = Take(net, d)
  /\ UNCHANGED <<buffer, child, timers, phase, typed, told, asked, answered, dups>>

Duplicate ==
  /\ dups < MaxDup
  /\ dups' = dups + 1
  /\ \E d \in DOMAIN net : net' = Put(net, d)
  /\ UNCHANGED <<buffer, child, timers, phase, typed, told, asked, answered, lost>>

-----------------------------------------------------------------------------
ChildStep(c) ==
  \/ LastHop(c) \/ TunnelHop(c)
  \/ Forward(c) \/ Wait(c) \/ HearReply(c)
  \/ RelayOne(c)

Next ==
  \/ \E u \in Users : BuilderAsk(u) \/ BuilderHear(u) \/ AppAsk(u) \/ AppHear(u)
  \/ \E r \in Routers : RouterFork(r)
  \/ \E t \in Tunnels : TunnelFork(t)
  \/ \E c \in 1 .. Len(child) :
       \/ LastHop(c) \/ TunnelHop(c)
       \/ Forward(c) \/ Wait(c) \/ HearReply(c)
       \/ RelayOne(c)
  \/ Timeout
  \/ DestAnswer
  \/ Lose
  \/ Duplicate

Spec == Init /\ [][Next]_vars

\* The processes run, a datagram that is not lost is read in the end, and the
\* 30 seconds pass.  No user has to start a builder or an application.
Fairness ==
  /\ \A u \in Users : WF_vars(BuilderHear(u)) /\ WF_vars(AppHear(u))
  /\ \A r \in Routers : WF_vars(RouterFork(r))
  /\ \A t \in Tunnels : WF_vars(TunnelFork(t))
  /\ \A c \in Child : WF_vars(c <= Len(child) /\ ChildStep(c))
  /\ WF_vars(Timeout)
  /\ WF_vars(DestAnswer)

FairSpec == Spec /\ Fairness

-----------------------------------------------------------------------------
\* Properties.

ChildRecord ==
  [host : Routers \cup Tunnels,
   phase : {"new", "sent", "wait", "relay", "unresolved", "refused", "expired"},
   route : Seq(Routers \cup Tunnels \cup Junk) \ {<<>>},
   their_addr : [host : Routers \cup Users, port : Child \cup {BuildPort}],
   relay : [server : [host : Routers \cup {DestHost}, port : Child \cup {DestPort}] \cup {NoAddress},
            client : [host : Routers \cup Tunnels \cup Users \cup {DestHost},
                      port : Child \cup {AppPort, DestPort}] \cup {NoAddress}]]

\* TypeOK: the types of the variables.  A buffer never holds more than the longest
\* request or what the stack held, and the timers are those of the children that wait, each once.
TypeOK ==
  /\ \A r \in Routers :
       \/ \E stack \in Stacks : Len(buffer[r]) <= Len(stack[r])
       \/ \E u \in Users : \E route \in Routes[u] : Len(buffer[r]) <= Len(route)
  /\ buffer \in [Routers -> Seq(Routers \cup Junk)]
  /\ child \in Seq(ChildRecord)
  /\ Len(child) <= MaxChildren
  /\ IsInjective(timers)
  /\ \A c \in Child :
       Contains(timers, c) <=> c \in 1 .. Len(child) /\ child[c].phase = "wait"
  /\ phase \in [Users -> {"start", "waiting", "told", "failed"}]
  /\ \A u \in Users : typed[u] \in Routes[u] \cup {<<>>}
  /\ told \in [Users -> Child \cup {0}]
  /\ asked \subseteq Users
  /\ answered \subseteq Users
  /\ lost \in 0 .. MaxLost
  /\ dups \in 0 .. MaxDup

\* Child c hands its datagrams to the server, or to a child that relays and has
\* the route of c without the last host.
HandsOn(c) ==
  LET server == child[c].relay.server
      route  == child[c].route
  IN IF Len(route) = 1
       THEN server = DestAt
       ELSE \E s \in c + 1 .. Len(child) :
              /\ server = Self(s)
              /\ child[s].phase = "relay"
              /\ child[s].route = Front(route)

\* When overlaybuild or mytunnel prints a port, the whole route stands: a chain
\* of relays through exactly the hosts the user typed, whatever was lost, late,
\* duplicated, given up or left behind in a buffer on the way.
RouteAsTyped ==
  /\ \A u \in Users :
       phase[u] = "told" =>
         /\ told[u] \in 1 .. Len(child)
         /\ child[told[u]].phase = "relay"
         /\ child[told[u]].route = typed[u]
  /\ \A c \in 1 .. Len(child) :
       child[c].phase = "relay" => HandsOn(c) /\ child[c].host = Last(child[c].route)

\* Without duplicates, an answer goes from a relay's server side to the relay and
\* from the first relay to the application that asked, nowhere else.
AnswersGoHome ==
  dups = 0 =>
    \A d \in DOMAIN net : d.kind = "answer" =>
      \/ d.dst = At(d.user, AppPort)
      \/ /\ d.dst.port \in 1 .. Len(child)
         /\ child[d.dst.port].relay.server = d.src

\* A builder that asked is told something in the end, unless a datagram was lost,
\* a child ended without a word (a server's name it could not resolve, an A that
\* reached it before its own limit) or the bound on children left a request
\* without one, which is where runs end in which leftovers make a router
\* forward to itself.
BuilderHears ==
  \A u \in Users :
    (phase[u] = "waiting") ~>
      \/ phase[u] # "waiting"
      \/ lost > 0
      \/ \E c \in 1 .. Len(child) : child[c].phase \in {"unresolved", "refused"}
      \/ Len(child) = MaxChildren /\ \E d \in DOMAIN net : d.dst.port = KnownPort

\* Over a route that was reported, a question is answered, unless a datagram was
\* lost or duplicated.
Answered == \A u \in Users : (u \in asked) ~> (u \in answered \/ lost > 0 \/ dups > 0)

\* A relay that says "No client so server can't send to anyone." has not made the
\* server its client.
ServerIsNoClient ==
  \A c \in 1 .. Len(child) :
    child[c].phase = "relay" => child[c].relay.client # child[c].relay.server
=============================================================================
