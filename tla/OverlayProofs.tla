--------------------------- MODULE OverlayProofs ----------------------------
(***************************************************************************)
(* A reported route stands as typed, for every set of routers, tunnels,    *)
(* users and routes, whatever the routers' buffers held at first, and for  *)
(* any number of losses and duplicates; without duplicates, every answer   *)
(* is on its way home; and every variable has its type.                    *)
(*                                                                         *)
(* The heart of the first is NoStale: a child that found more in its       *)
(* buffer than it was asked for never relays.  Its request would have to   *)
(* come down through the same router once more, and there the buffer,      *)
(* which never gets shorter, lengthens it again.                           *)
(*                                                                         *)
(* The heart of the second is that every relay can be given to the user    *)
(* whose route it serves (Lanes): what asks and answers travel through,    *)
(* and whom a relay has learnt as its client, then belongs to one user.    *)
(*                                                                         *)
(* The third needs to know what stands at each place of a buffer: junk, or *)
(* a name that some request was long enough to bring there (Measured).     *)
(*                                                                         *)
(* Last, a builder that waits has something to wait for, which is the part *)
(* of its liveness that needs no fairness.                                 *)
(***************************************************************************)
EXTENDS Overlay, SequenceTheorems, TLAPS

Hosts == Routers \cup Tunnels \cup Users \cup {DestHost} \cup Junk
Names == Routers \cup Junk
Address == [host : Hosts, port : Nat]
Phase == {"new", "sent", "wait", "relay", "unresolved", "refused", "expired"}

Record ==
  [host : Routers \cup Tunnels, phase : Phase, route : Seq(Hosts), their_addr : Address,
   relay : [server : Address \cup {NoAddress}, client : Address \cup {NoAddress}]]

Kind == {"request", "port", "A", "-1", "ask", "answer"}

Message ==
  [src : Address, dst : Address, kind : Kind, route : Seq(Hosts), port : Nat, user : Hosts]

\* The timers are those of children that wait, each once.
TimersOK ==
  /\ timers \in Seq(1 .. Len(child))
  /\ \A i, j \in 1 .. Len(timers) : timers[i] = timers[j] => i = j
  /\ \A i \in 1 .. Len(timers) : child[timers[i]].phase = "wait"

Types ==
  /\ buffer \in [Routers -> Seq(Names)]
  /\ child \in Seq(Record)
  /\ Len(child) <= MaxChildren
  /\ phase \in [Users -> {"start", "waiting", "told", "failed"}]
  /\ typed \in [Users -> Seq(Hosts)]
  /\ told \in [Users -> Nat]
  /\ DOMAIN net \subseteq Message
  /\ TimersOK

\* r starts with d.
Extends(r, d) ==
  /\ d # <<>>
  /\ Len(d) <= Len(r)
  /\ \A i \in 1 .. Len(d) : r[i] = d[i]

\* The request child c sends, or has sent.
Asks(c) ==
  child[c].phase # "new" /\ child[c].host \in Routers /\ Len(child[c].route) > 1

\* The one who asked for child s, and what was asked.
FromUser(s) ==
  \E u \in Users : /\ child[s].their_addr = At(u, BuildPort)
                   /\ phase[u] # "start"
                   /\ Extends(child[s].route, typed[u])
                   /\ child[s].host = Last(typed[u])
FromChild(s) ==
  \E c \in 1 .. s - 1 : /\ child[s].their_addr = Self(c)
                        /\ Asks(c)
                        /\ Extends(child[s].route, Front(child[c].route))
                        /\ child[s].host = Last(Front(child[c].route))

\* Every shorter part of the route of a relay is the route of a relay.
Descends(c) ==
  \A k \in 1 .. Len(child[c].route) :
    \E q \in c .. Len(child) :
      /\ child[q].phase = "relay"
      /\ Len(child[q].route) = k
      /\ \A i \in 1 .. k : child[q].route[i] = child[c].route[i]

\* An address where nobody takes a port for the answer to a request.
Settled(a) ==
  \/ a.port \in {AppPort, DestPort}
  \/ /\ a.port \in 1 .. Len(child)
     /\ child[a.port].phase \in {"relay", "unresolved", "refused", "expired"}

ChildOK(c) ==
  /\ child[c].route # <<>>
  /\ \/ child[c].host \in Routers /\ child[c].route \in Seq(Names)
     \/ child[c].host \in Tunnels /\ Len(child[c].route) = 1
  /\ child[c].phase \in {"sent", "wait"} => Asks(c)
  /\ FromUser(c) \/ FromChild(c)
  /\ child[c].relay.client = NoAddress \/ Settled(child[c].relay.client)

RelayOK(c) ==
  child[c].phase = "relay" =>
    /\ HandsOn(c) /\ Descends(c)
    /\ child[c].host = Last(child[c].route)

\* The requests a router gets do not get shorter in its buffer.
Growing ==
  /\ \A c, e \in 1 .. Len(child) :
       c < e /\ child[c].host = child[e].host /\ child[c].host \in Routers =>
         Len(child[c].route) <= Len(child[e].route)
  /\ \A c \in 1 .. Len(child) :
       child[c].host \in Routers => Len(child[c].route) <= Len(buffer[child[c].host])

Requested(d) ==
  /\ d.route # <<>>
  /\ d.dst = At(Last(d.route), KnownPort)
  /\ d.route \in Seq(Names) \/ (Len(d.route) = 1 /\ d.dst.host \in Tunnels)
  /\ \/ \E u \in Users : /\ d.src = At(u, BuildPort)
                         /\ phase[u] # "start"
                         /\ d.route = typed[u]
     \/ \E c \in 1 .. Len(child) : /\ d.src = Self(c)
                                   /\ Asks(c)
                                   /\ d.route = Front(child[c].route)

Home(d) ==
  /\ d.port \in 1 .. Len(child)
  /\ d.src = Self(d.port)
  /\ child[d.port].phase = "relay"
  /\ d.dst = child[d.port].their_addr

DatagramOK(d) ==
  /\ d.kind = "request" => Requested(d)
  /\ d.kind # "request" => Settled(d.src) /\ d.dst.port # KnownPort
  /\ d.kind = "port" => Home(d) \/ Settled(d.dst)

UserOK(u) ==
  /\ typed[u] \in Routes[u] \cup {<<>>}
  /\ phase[u] # "start" => typed[u] \in Routes[u]
  /\ phase[u] = "told" =>
       /\ told[u] \in 1 .. Len(child)
       /\ child[told[u]].phase = "relay"
       /\ child[told[u]].route = typed[u]

IInv ==
  /\ Types
  /\ \A c \in 1 .. Len(child) : ChildOK(c) /\ RelayOK(c)
  /\ Growing
  /\ \A d \in DOMAIN net : DatagramOK(d)
  /\ \A u \in Users : UserOK(u)

-----------------------------------------------------------------------------
\* Constants, sequences and the network.

LEMMA ConstantFacts ==
  /\ Names \cap Tunnels = {} /\ Routers \cap Tunnels = {}
  /\ MaxChildren \in Nat
  /\ KnownPort = 0 /\ BuildPort = MaxChildren + 1
  /\ AppPort = MaxChildren + 2 /\ DestPort = MaxChildren + 3
  /\ \A u \in Users : \A route \in Routes[u] :
       /\ route # <<>> /\ route \in Seq(Hosts)
       /\ route \in Seq(Names) \/ (Len(route) = 1 /\ Last(route) \in Tunnels)
<1>1. ASSUME NEW u \in Users, NEW route \in Routes[u]
      PROVE  /\ route # <<>> /\ route \in Seq(Hosts)
             /\ route \in Seq(Names) \/ (Len(route) = 1 /\ Last(route) \in Tunnels)
  <2>1. CASE route \in Seq(Routers) /\ route # <<>>
    BY <2>1 DEF Hosts, Names
  <2>2. CASE \E t \in Tunnels : route = <<t>>
    <3>1. PICK t \in Tunnels : route = <<t>>
      BY <2>2
    <3>2. route \in Seq(Tunnels) /\ Len(route) = 1 /\ route[1] = t /\ route # <<>>
      BY <3>1
    <3> QED
      BY <3>2 DEF Hosts, Last
  <2> QED
    BY <2>1, <2>2, OverlayAssumption
<1>2. Names \cap Tunnels = {}
  BY OverlayAssumption DEF Names
<1> QED
  BY <1>1, <1>2, OverlayAssumption DEF KnownPort, BuildPort, AppPort, DestPort

LEMMA FrontFacts ==
  ASSUME NEW S, NEW s \in Seq(S), Len(s) > 1
  PROVE  /\ Front(s) \in Seq(S) /\ Front(s) # <<>>
         /\ Len(Front(s)) = Len(s) - 1
         /\ \A i \in 1 .. Len(s) - 1 : Front(s)[i] = s[i]
         /\ Last(Front(s)) = s[Len(s) - 1]
<1>1. Len(s) \in Nat /\ \A i \in 1 .. Len(s) : s[i] \in S
  OBVIOUS
<1>2. /\ Front(s) \in Seq(S)
      /\ Len(Front(s)) = Len(s) - 1
      /\ \A i \in 1 .. Len(s) - 1 : Front(s)[i] = s[i]
  <2>1. \A i \in 1 .. Len(s) - 1 : s[i] \in S
    BY <1>1
  <2>2. /\ SubSeq(s, 1, Len(s) - 1) \in Seq(S)
        /\ Len(SubSeq(s, 1, Len(s) - 1)) =
             IF 1 <= Len(s) - 1 THEN (Len(s) - 1) - 1 + 1 ELSE 0
        /\ \A i \in 1 .. (Len(s) - 1) - 1 + 1 : SubSeq(s, 1, Len(s) - 1)[i] = s[1 + i - 1]
    BY <1>1, <2>1, SubSeqProperties
  <2> QED
    BY <1>1, <2>2 DEF Front
<1>3. Front(s) # <<>>
  BY <1>1, <1>2
<1> QED
  BY <1>1, <1>2, <1>3 DEF Last

LEMMA NotOne == \A n \in Nat : n > 1 => n # 1
OBVIOUS

LEMMA SameSeq ==
  ASSUME NEW S, NEW s \in Seq(S), NEW t \in Seq(S), Len(s) = Len(t),
         \A i \in 1 .. Len(t) : s[i] = t[i]
  PROVE  s = t
BY SeqEqual

LEMMA SeqMono ==
  ASSUME NEW S, NEW T, S \subseteq T, NEW s \in Seq(S)
  PROVE  s \in Seq(T)
<1>1. Len(s) \in Nat /\ s = [i \in 1 .. Len(s) |-> s[i]] /\ \A i \in 1 .. Len(s) : s[i] \in T
  OBVIOUS
<1> QED
  BY <1>1, IsASeq

LEMMA LastFacts ==
  ASSUME NEW S, NEW s \in Seq(S), s # <<>>
  PROVE  Last(s) = s[Len(s)] /\ Last(s) \in S /\ Len(s) \in Nat /\ Len(s) >= 1
BY DEF Last

LEMMA PutDomain == ASSUME NEW n, NEW d PROVE DOMAIN Put(n, d) = DOMAIN n \cup {d}
BY DEF Put

LEMMA TakeDomain == ASSUME NEW n, NEW d PROVE DOMAIN Take(n, d) \subseteq DOMAIN n
BY DEF Take

\* A buffer after a request: the request, or more that starts with it.
LEMMA ReceivedFacts ==
  ASSUME NEW route \in Seq(Names), route # <<>>, NEW old \in Seq(Names)
  PROVE  /\ Received(route, old) \in Seq(Names)
         /\ Extends(Received(route, old), route)
         /\ Len(Received(route, old)) >= Len(old)
         /\ Len(Received(route, old)) >= Len(route)
         /\ Received(route, old) # <<>>
<1> DEFINE rest == SubSeq(old, Len(route) + 1, Len(old))
<1>1. /\ Len(route) \in Nat /\ Len(route) >= 1 /\ Len(old) \in Nat
      /\ \A i \in 1 .. Len(old) : old[i] \in Names
  OBVIOUS
<1>2. \A i \in Len(route) + 1 .. Len(old) : old[i] \in Names
  BY <1>1
<1>3. /\ rest \in Seq(Names)
      /\ Len(rest) = IF Len(route) + 1 <= Len(old) THEN Len(old) - (Len(route) + 1) + 1 ELSE 0
      /\ \A i \in 1 .. Len(old) - (Len(route) + 1) + 1 : rest[i] = old[Len(route) + 1 + i - 1]
  BY <1>1, <1>2, SubSeqProperties
<1> HIDE DEF rest
<1>4. /\ route \o rest \in Seq(Names)
      /\ Len(route \o rest) = Len(route) + Len(rest)
      /\ \A i \in 1 .. Len(route) + Len(rest) :
           (route \o rest)[i] = IF i <= Len(route) THEN route[i] ELSE rest[i - Len(route)]
  BY <1>3, ConcatProperties
<1>5. Received(route, old) = route \o rest
  BY DEF Received, rest
<1> DEFINE all == route \o rest
<1>6. Len(rest) \in Nat /\ Len(all) = Len(route) + Len(rest)
  BY <1>1, <1>3, <1>4
<1>7. \A i \in 1 .. Len(route) : all[i] = route[i]
  BY <1>1, <1>4, <1>6
<1>8. Len(all) >= Len(old) /\ Len(all) >= Len(route) /\ all # <<>>
  BY <1>1, <1>3, <1>4, <1>6
<1> HIDE DEF all
<1> QED
  BY <1>4, <1>5, <1>7, <1>8 DEF Extends, all

-----------------------------------------------------------------------------
\* What no step undoes.

Final == {"relay", "unresolved", "refused", "expired"}

Keeps ==
  /\ child' \in Seq(Record) /\ Len(child) <= Len(child') /\ Len(child') <= MaxChildren
  /\ \A c \in 1 .. Len(child) :
       /\ child'[c].host = child[c].host
       /\ child'[c].route = child[c].route
       /\ child'[c].their_addr = child[c].their_addr
       /\ child[c].phase \in Final => child'[c].phase = child[c].phase
       /\ child[c].phase = "relay" => child'[c].relay.server = child[c].relay.server
       /\ child[c].phase # "new" => child'[c].phase # "new"
  /\ \A u \in Users : phase[u] # "start" => phase'[u] # "start" /\ typed'[u] = typed[u]

LEMMA ChildTypes ==
  ASSUME Types
  PROVE  /\ Len(child) \in Nat
         /\ \A c \in 1 .. Len(child) :
              /\ child[c] \in Record
              /\ child[c].route \in Seq(Hosts)
              /\ Len(child[c].route) \in Nat
<1>1. Len(child) \in Nat /\ \A c \in 1 .. Len(child) : child[c] \in Record
  BY DEF Types
<1> QED
  BY <1>1 DEF Record

LEMMA KeepsSettled == ASSUME Types, Keeps, NEW a, Settled(a) PROVE Settled(a)'
<1>1. Len(child) \in Nat /\ Len(child') \in Nat /\ Len(child) <= Len(child')
  BY ChildTypes DEF Keeps
<1> QED
  BY <1>1 DEF Keeps, Settled, Final, AppPort, DestPort

LEMMA KeepsAsks ==
  ASSUME Types, Keeps, NEW c \in 1 .. Len(child), Asks(c)
  PROVE  Asks(c)'
BY DEF Keeps, Asks

LEMMA KeepsFrom ==
  ASSUME Types, Keeps, NEW s \in 1 .. Len(child), FromUser(s) \/ FromChild(s)
  PROVE  (FromUser(s) \/ FromChild(s))'
<1>1. /\ child'[s].their_addr = child[s].their_addr
      /\ child'[s].route = child[s].route /\ child'[s].host = child[s].host
  BY DEF Keeps
<1>2. CASE FromUser(s)
  <2>1. PICK u \in Users : /\ child[s].their_addr = At(u, BuildPort)
                           /\ phase[u] # "start"
                           /\ Extends(child[s].route, typed[u])
                           /\ child[s].host = Last(typed[u])
    BY <1>2 DEF FromUser
  <2>2. phase'[u] # "start" /\ typed'[u] = typed[u]
    BY <2>1 DEF Keeps
  <2>3. /\ child'[s].their_addr = At(u, BuildPort)
        /\ phase'[u] # "start"
        /\ Extends(child'[s].route, typed'[u])
        /\ child'[s].host = Last(typed'[u])
    BY <1>1, <2>1, <2>2
  <2>4. FromUser(s)'
    BY <2>3 DEF FromUser, At, BuildPort, Extends, Last
  <2> QED
    BY <2>4
<1>3. CASE FromChild(s)
  <2>1. PICK c \in 1 .. s - 1 : /\ child[s].their_addr = Self(c)
                                /\ Asks(c)
                                /\ Extends(child[s].route, Front(child[c].route))
                                /\ child[s].host = Last(Front(child[c].route))
    BY <1>3 DEF FromChild
  <2>2. c \in 1 .. Len(child)
    BY ChildTypes
  <2>3. Asks(c)' /\ child'[c].host = child[c].host /\ child'[c].route = child[c].route
    BY <2>1, <2>2, KeepsAsks DEF Keeps
  <2>4. /\ child'[s].their_addr = At(child'[c].host, c)
        /\ Extends(child'[s].route, Front(child'[c].route))
        /\ child'[s].host = Last(Front(child'[c].route))
    BY <1>1, <2>1, <2>3 DEF Self
  <2>5. FromChild(s)'
    BY <2>3, <2>4 DEF FromChild, Self, At, Extends, Last, Front
  <2> QED
    BY <2>5
<1> QED
  BY <1>2, <1>3

LEMMA KeepsRelay ==
  ASSUME Types, Keeps, NEW c \in 1 .. Len(child), child[c].phase = "relay", RelayOK(c)
  PROVE  RelayOK(c)'
<1>1. /\ child'[c].host = child[c].host
      /\ child'[c].route = child[c].route
      /\ child'[c].relay.server = child[c].relay.server
  BY DEF Keeps
<1>2. /\ Len(child) \in Nat /\ Len(child') \in Nat /\ Len(child) <= Len(child')
      /\ Len(child[c].route) \in Nat
  BY ChildTypes DEF Keeps
<1>3. HandsOn(c)'
  <2>1. CASE Len(child[c].route) = 1
    BY <1>1, <2>1 DEF RelayOK, HandsOn, DestAt, At, DestPort
  <2>2. CASE Len(child[c].route) # 1
    <3>1. PICK s \in c + 1 .. Len(child) : /\ child[c].relay.server = Self(s)
                                           /\ child[s].phase = "relay"
                                           /\ child[s].route = Front(child[c].route)
      BY <2>2 DEF RelayOK, HandsOn
    <3>2. s \in 1 .. Len(child) /\ s \in c + 1 .. Len(child')
      BY <1>2
    <3>3. child'[s].phase = "relay" /\ child'[s].route = child[s].route
          /\ child'[s].host = child[s].host
      BY <3>1, <3>2 DEF Keeps, Final
    <3>4. child'[c].relay.server = At(child'[s].host, s)
          /\ child'[s].route = Front(child'[c].route)
      BY <1>1, <3>1, <3>3 DEF Self
    <3> QED
      BY <1>1, <2>2, <3>2, <3>3, <3>4 DEF HandsOn, Self, At, Front
  <2> QED
    BY <2>1, <2>2
<1>4. Descends(c)'
  <2> SUFFICES ASSUME NEW k \in 1 .. Len(child'[c].route)
               PROVE  \E q \in c .. Len(child') :
                        /\ child'[q].phase = "relay"
                        /\ Len(child'[q].route) = k
                        /\ \A i \in 1 .. k : child'[q].route[i] = child'[c].route[i]
    BY DEF Descends
  <2>1. PICK q \in c .. Len(child) :
          /\ child[q].phase = "relay"
          /\ Len(child[q].route) = k
          /\ \A i \in 1 .. k : child[q].route[i] = child[c].route[i]
    BY <1>1 DEF RelayOK, Descends
  <2>2. q \in 1 .. Len(child) /\ q \in c .. Len(child')
    BY <1>2
  <2>3. child'[q].phase = "relay" /\ child'[q].route = child[q].route
    BY <2>1, <2>2 DEF Keeps, Final
  <2> QED
    BY <1>1, <2>1, <2>2, <2>3
<1>5. (child[c].host = Last(child[c].route))'
  BY <1>1 DEF RelayOK, Last
<1> QED
  BY <1>3, <1>4, <1>5 DEF RelayOK

LEMMA KeepsDatagram ==
  ASSUME Types, Keeps, NEW d, DatagramOK(d), d.src \in Address, d.port \in Nat
  PROVE  DatagramOK(d)'
<1>1. ASSUME d.kind = "request" PROVE Requested(d)'
  <2>1. Requested(d)
    BY <1>1 DEF DatagramOK
  <2>2. CASE \E u \in Users : d.src = At(u, BuildPort) /\ phase[u] # "start" /\ d.route = typed[u]
    <3>1. PICK u \in Users : d.src = At(u, BuildPort) /\ phase[u] # "start" /\ d.route = typed[u]
      BY <2>2
    <3>2. phase'[u] # "start" /\ d.route = typed'[u]
      BY <3>1 DEF Keeps
    <3> QED
      BY <2>1, <3>1, <3>2 DEF Requested, At, BuildPort, KnownPort, Last
  <2>3. CASE \E c \in 1 .. Len(child) :
               d.src = Self(c) /\ Asks(c) /\ d.route = Front(child[c].route)
    <3>1. PICK c \in 1 .. Len(child) :
               d.src = Self(c) /\ Asks(c) /\ d.route = Front(child[c].route)
      BY <2>3
    <3>2. Asks(c)' /\ child'[c].host = child[c].host /\ child'[c].route = child[c].route
      BY <3>1, KeepsAsks DEF Keeps
    <3>3. c \in 1 .. Len(child')
      BY ChildTypes DEF Keeps
    <3>4. d.src = At(child'[c].host, c) /\ d.route = Front(child'[c].route)
      BY <3>1, <3>2 DEF Self
    <3> QED
      BY <2>1, <3>2, <3>3, <3>4 DEF Requested, Self, At, KnownPort, Last, Front
  <2> QED
    BY <2>1, <2>2, <2>3 DEF Requested
<1>2. ASSUME d.kind # "request" PROVE Settled(d.src)' /\ d.dst.port # KnownPort
  BY <1>2, KeepsSettled DEF DatagramOK
<1>3. ASSUME d.kind = "port" PROVE (Home(d) \/ Settled(d.dst))'
  <2>1. CASE Settled(d.dst)
    BY <2>1, KeepsSettled
  <2>2. CASE Home(d)
    <3>1. d.port \in 1 .. Len(child') /\ d.port \in 1 .. Len(child)
      BY <2>2, ChildTypes DEF Home, Keeps
    <3> QED
      BY <2>2, <3>1 DEF Home, Keeps, Final, Self, At
  <2> QED
    BY <1>3, <2>1, <2>2 DEF DatagramOK
<1> QED
  BY <1>1, <1>2, <1>3 DEF DatagramOK, KnownPort

LEMMA KeepsUser ==
  ASSUME Types, Keeps, UNCHANGED <<phase, typed, told>>, NEW u \in Users, UserOK(u)
  PROVE  UserOK(u)'
<1>1. Len(child) \in Nat /\ Len(child') \in Nat /\ Len(child) <= Len(child')
  BY ChildTypes DEF Keeps
<1> QED
  BY <1>1 DEF Keeps, UserOK, Final

\* A step that keeps the number of children and the buffers keeps the invariant if
\* what is new in it does.
LEMMA Frame ==
  ASSUME IInv, Keeps, Len(child') = Len(child), buffer' = buffer,
         phase' \in [Users -> {"start", "waiting", "told", "failed"}],
         typed' \in [Users -> Seq(Hosts)],
         told' \in [Users -> Nat],
         TimersOK',
         DOMAIN net' \subseteq Message,
         \A c \in 1 .. Len(child) :
           /\ child'[c].phase \in {"sent", "wait"} => Asks(c)'
           /\ \/ child'[c].relay.client = child[c].relay.client
              \/ Settled(child[c].relay.client)'
           /\ child[c].phase # "relay" => RelayOK(c)',
         \A d \in DOMAIN net' : d \in DOMAIN net \/ DatagramOK(d)',
         \A u \in Users : UserOK(u)'
  PROVE  IInv'
<1>1. Types /\ Types'
  BY DEF IInv, Types, Keeps
<1>2. \A c \in 1 .. Len(child') : ChildOK(c)' /\ RelayOK(c)'
  <2> SUFFICES ASSUME NEW c \in 1 .. Len(child) PROVE ChildOK(c)' /\ RelayOK(c)'
    OBVIOUS
  <2>1. ChildOK(c) /\ RelayOK(c)
    BY DEF IInv
  <2>2. RelayOK(c)'
    BY <1>1, <2>1, KeepsRelay
  <2>3. (FromUser(c) \/ FromChild(c))'
    BY <1>1, <2>1, KeepsFrom DEF ChildOK
  <2>4. (child[c].relay.client = NoAddress \/ Settled(child[c].relay.client))'
    <3>1. ASSUME Settled(child[c].relay.client), child'[c].relay.client = child[c].relay.client
          PROVE  Settled(child[c].relay.client)'
      <4> DEFINE a == child[c].relay.client
      <4>1. a.port = child'[c].relay.client.port
        BY <3>1
      <4>2. \/ a.port \in {AppPort, DestPort}
            \/ /\ a.port \in 1 .. Len(child)
               /\ child[a.port].phase \in Final
        BY <3>1 DEF Settled, Final
      <4>3. \/ a.port \in {AppPort, DestPort}
            \/ /\ a.port \in 1 .. Len(child')
               /\ child'[a.port].phase \in Final
        BY <4>2 DEF Keeps
      <4> QED
        BY <4>1, <4>3 DEF Settled, Final, AppPort, DestPort
    <3> QED
      BY <2>1, <3>1 DEF ChildOK
  <2>5. /\ child'[c].host = child[c].host
        /\ child'[c].route = child[c].route
    BY DEF Keeps
  <2>6. /\ child[c].route # <<>>
        /\ \/ child[c].host \in Routers /\ child[c].route \in Seq(Names)
           \/ child[c].host \in Tunnels /\ Len(child[c].route) = 1
    BY <2>1 DEF ChildOK
  <2>7. ChildOK(c)'
    BY <2>3, <2>4, <2>5, <2>6 DEF ChildOK, Last
  <2> QED
    BY <2>2, <2>7
<1>3. Growing'
  BY DEF IInv, Growing, Keeps, Last
<1>4. \A d \in DOMAIN net' : DatagramOK(d)'
  <2> SUFFICES ASSUME NEW d \in DOMAIN net' PROVE DatagramOK(d)'
    OBVIOUS
  <2>1. ASSUME d \in DOMAIN net PROVE DatagramOK(d)'
    <3>1. DatagramOK(d) /\ d.src \in Address /\ d.port \in Nat
      BY <2>1 DEF IInv, Types, Message
    <3> QED
      BY <1>1, <3>1, KeepsDatagram
  <2> QED
    BY <2>1
<1> QED
  BY <1>1, <1>2, <1>3, <1>4 DEF IInv

\* A step that replaces the record of one child.
LEMMA Replace ==
  ASSUME Types, NEW c \in 1 .. Len(child), NEW rec \in Record,
         child' = [child EXCEPT ![c] = rec],
         rec.host = child[c].host, rec.route = child[c].route,
         rec.their_addr = child[c].their_addr,
         child[c].phase \in Final =>
           rec.phase = child[c].phase /\ rec.relay.server = child[c].relay.server,
         rec.phase # "new",
         UNCHANGED <<phase, typed>>
  PROVE  /\ Keeps /\ Len(child') = Len(child)
         /\ child'[c] = rec
         /\ \A e \in 1 .. Len(child) : e # c => child'[e] = child[e]
<1>1. /\ child \in Seq(Record) /\ Len(child) \in Nat /\ Len(child) <= MaxChildren
  BY DEF Types
<1>2. /\ child' \in Seq(Record) /\ Len(child') = Len(child)
      /\ \A e \in 1 .. Len(child) : child'[e] = IF e = c THEN rec ELSE child[e]
  BY <1>1
<1> QED
  BY <1>1, <1>2 DEF Keeps, Final

\* A relay's route is the one that was asked for, without anything an earlier
\* request left behind.
LEMMA NoStale ==
  ASSUME IInv, NEW s \in 1 .. Len(child), child[s].phase = "relay",
         NEW D \in Seq(Hosts), Extends(child[s].route, D), child[s].host = Last(D)
  PROVE  child[s].route = D
<1> DEFINE route == child[s].route
<1>1. /\ ChildOK(s) /\ RelayOK(s) /\ Len(child) \in Nat
      /\ route \in Seq(Hosts) /\ Len(route) \in Nat
  BY ChildTypes DEF IInv
<1>2. /\ D # <<>> /\ Len(D) \in Nat /\ Len(D) >= 1 /\ Len(D) <= Len(route)
      /\ Last(D) = D[Len(D)]
      /\ \A i \in 1 .. Len(D) : route[i] = D[i]
  BY <1>1, LastFacts DEF Extends
<1>3. Len(route) <= Len(D)
  <2>1. CASE child[s].host \in Tunnels
    BY <1>1, <1>2, <2>1, ConstantFacts DEF ChildOK
  <2>2. CASE child[s].host \in Routers
    <3>1. PICK q \in s .. Len(child) :
            /\ child[q].phase = "relay"
            /\ Len(child[q].route) = Len(D)
            /\ \A i \in 1 .. Len(D) : child[q].route[i] = route[i]
      <4>1. Descends(s)
        BY <1>1 DEF RelayOK
      <4>2. Len(D) \in 1 .. Len(child[s].route)
        BY <1>1, <1>2
      <4> QED
        BY ONLY <4>1, <4>2 DEF Descends
    <3>2. q \in 1 .. Len(child) /\ RelayOK(q)
      BY <1>1 DEF IInv
    <3>3. child[q].host = child[s].host
      <4>1. child[q].host = child[q].route[Len(D)]
        BY <3>1, <3>2 DEF RelayOK, Last
      <4> QED
        BY <1>2, <3>1, <4>1
    <3> QED
      BY <1>1, <1>2, <2>2, <3>1, <3>2, <3>3 DEF IInv, Growing
  <2> QED
    BY <1>1, <2>1, <2>2 DEF ChildOK
<1> QED
  BY <1>1, <1>2, <1>3, SameSeq

\* A child that is not final takes its next step.
LEMMA Move ==
  ASSUME Types, NEW c \in 1 .. Len(child), child[c].phase \notin Final,
         NEW p \in Phase \ {"new"}, NEW sv \in Address \cup {NoAddress},
         child' = [child EXCEPT ![c].phase = p, ![c].relay.server = sv],
         UNCHANGED <<phase, typed>>
  PROVE  /\ Keeps /\ Len(child') = Len(child)
         /\ child'[c].phase = p /\ child'[c].relay.server = sv
         /\ child'[c].relay.client = child[c].relay.client
         /\ \A e \in 1 .. Len(child) : e # c => child'[e] = child[e]
<1> DEFINE rec == [child[c] EXCEPT !.phase = p, !.relay.server = sv]
<1>1. child[c] \in Record
  BY ChildTypes
<1>2. /\ rec \in Record
      /\ rec.host = child[c].host /\ rec.route = child[c].route
      /\ rec.their_addr = child[c].their_addr
      /\ rec.phase = p /\ rec.relay.server = sv /\ rec.relay.client = child[c].relay.client
  BY <1>1 DEF Record, Phase
<1>3. child' = [child EXCEPT ![c] = rec]
  BY <1>1 DEF Types, Record
<1>4. child[c].phase \in Final => rec.phase = child[c].phase /\ rec.relay.server = child[c].relay.server
  OBVIOUS
<1>5. rec.phase # "new"
  BY <1>2
<1> HIDE DEF rec
<1>6. /\ Keeps /\ Len(child') = Len(child)
      /\ child'[c] = rec
      /\ \A e \in 1 .. Len(child) : e # c => child'[e] = child[e]
  BY <1>2, <1>3, <1>4, <1>5, Replace
<1> QED
  BY <1>2, <1>6

LEMMA Stop ==
  ASSUME Types, NEW c \in 1 .. Len(child), child[c].phase \notin Final,
         NEW p \in Phase \ {"new"},
         child' = [child EXCEPT ![c].phase = p],
         UNCHANGED <<phase, typed>>
  PROVE  /\ Keeps /\ Len(child') = Len(child)
         /\ child'[c].phase = p
         /\ child'[c].relay.client = child[c].relay.client
         /\ \A e \in 1 .. Len(child) : e # c => child'[e] = child[e]
<1> DEFINE rec == [child[c] EXCEPT !.phase = p]
<1>1. child[c] \in Record
  BY ChildTypes
<1>2. /\ rec \in Record
      /\ rec.host = child[c].host /\ rec.route = child[c].route
      /\ rec.their_addr = child[c].their_addr
      /\ rec.phase = p /\ rec.relay = child[c].relay
  BY <1>1 DEF Record, Phase
<1>3. child' = [child EXCEPT ![c] = rec]
  BY <1>1 DEF Types, Record
<1>4. child[c].phase \in Final => rec.phase = child[c].phase /\ rec.relay.server = child[c].relay.server
  OBVIOUS
<1>5. rec.phase # "new"
  BY <1>2
<1> HIDE DEF rec
<1>6. /\ Keeps /\ Len(child') = Len(child)
      /\ child'[c] = rec
      /\ \A e \in 1 .. Len(child) : e # c => child'[e] = child[e]
  BY <1>2, <1>3, <1>4, <1>5, Replace
<1> QED
  BY <1>2, <1>6

\* What is left to show of a step of one child.
LEMMA ChildFrame ==
  ASSUME IInv, NEW c \in 1 .. Len(child), Keeps, Len(child') = Len(child),
         child'[c].relay.client = child[c].relay.client,
         \A e \in 1 .. Len(child) : e # c => child'[e] = child[e],
         UNCHANGED <<buffer, phase, typed, told>>,
         TimersOK',
         child'[c].phase \in {"sent", "wait"} => Asks(c)',
         RelayOK(c)',
         DOMAIN net' \subseteq Message,
         \A d \in DOMAIN net' : d \in DOMAIN net \/ DatagramOK(d)'
  PROVE  IInv'
<1>1. Types /\ \A e \in 1 .. Len(child) : ChildOK(e)
  BY DEF IInv
<1>2. ASSUME NEW e \in 1 .. Len(child)
      PROVE  /\ child'[e].phase \in {"sent", "wait"} => Asks(e)'
             /\ \/ child'[e].relay.client = child[e].relay.client
                \/ Settled(child[e].relay.client)'
             /\ child[e].phase # "relay" => RelayOK(e)'
  <2>1. CASE e = c
    BY <2>1
  <2>2. CASE e # c
    <3>1. child'[e] = child[e]
      BY <2>2
    <3>2. child[e].phase \in {"sent", "wait"} => Asks(e)'
      BY <1>1, KeepsAsks DEF ChildOK
    <3> QED
      BY <3>1, <3>2 DEF RelayOK
  <2> QED
    BY <2>1, <2>2
<1>3. \A u \in Users : UserOK(u)'
  BY <1>1, KeepsUser DEF IInv
<1>4. /\ phase' \in [Users -> {"start", "waiting", "told", "failed"}]
      /\ typed' \in [Users -> Seq(Hosts)]
      /\ told' \in [Users -> Nat]
  BY <1>1 DEF Types
<1> QED
  BY <1>2, <1>3, <1>4, Frame

\* The timers left are those of others than c.
TimersWithout(c) ==
  /\ timers' \in Seq(1 .. Len(child))
  /\ \A i, j \in 1 .. Len(timers') : timers'[i] = timers'[j] => i = j
  /\ \A i \in 1 .. Len(timers') : timers'[i] # c /\ child[timers'[i]].phase = "wait"

LEMMA OtherTimers ==
  ASSUME Types, NEW c \in 1 .. Len(child), child[c].phase # "wait", timers' = timers
  PROVE  TimersWithout(c)
<1>1. \A i \in 1 .. Len(timers) :
        timers[i] \in 1 .. Len(child) /\ child[timers[i]].phase = "wait"
  BY DEF Types, TimersOK
<1> QED
  BY <1>1 DEF Types, TimersOK, TimersWithout

LEMMA TimersKept ==
  ASSUME NEW c, TimersWithout(c), Len(child') = Len(child),
         \A e \in 1 .. Len(child) : e # c => child'[e] = child[e]
  PROVE  TimersOK'
<1>1. \A i \in 1 .. Len(timers') : timers'[i] \in 1 .. Len(child)
  BY DEF TimersWithout
<1> QED
  BY <1>1 DEF TimersWithout, TimersOK

-----------------------------------------------------------------------------
\* Datagrams.

LEMMA SelfFacts ==
  ASSUME Types, NEW c \in 1 .. Len(child)
  PROVE  /\ Self(c) \in Address /\ Self(c).port = c /\ Self(c).host = child[c].host
         /\ child[c].their_addr \in Address
         /\ c \in Nat /\ c # KnownPort /\ c # BuildPort /\ c # AppPort /\ c # DestPort
<1>1. child[c] \in Record /\ Len(child) \in Nat /\ Len(child) <= MaxChildren
  BY ChildTypes DEF Types
<1> QED
  BY <1>1, ConstantFacts DEF Self, At, Record, Address, Hosts

LEMMA DatagramFacts ==
  ASSUME NEW src \in Address, NEW dst \in Address, NEW kind \in Kind
  PROVE  /\ Datagram(src, dst, kind) \in Message
         /\ Datagram(src, dst, kind).src = src
         /\ Datagram(src, dst, kind).dst = dst
         /\ Datagram(src, dst, kind).kind = kind
<1>1. <<>> \in Seq(Hosts) /\ DestHost \in Hosts
  BY DEF Hosts
<1> QED
  BY <1>1 DEF Datagram, Message

LEMMA PortToFacts ==
  ASSUME NEW src \in Address, NEW dst \in Address
  PROVE  /\ PortTo(src, dst) \in Message
         /\ PortTo(src, dst).src = src /\ PortTo(src, dst).dst = dst
         /\ PortTo(src, dst).kind = "port" /\ PortTo(src, dst).port = src.port
<1>1. src.port \in Nat
  BY DEF Address
<1> DEFINE d == Datagram(src, dst, "port")
<1>2. d \in Message /\ d.src = src /\ d.dst = dst /\ d.kind = "port"
  BY DatagramFacts DEF Kind
<1> HIDE DEF d
<1>3. /\ [d EXCEPT !.port = src.port] \in Message
      /\ [d EXCEPT !.port = src.port].src = src
      /\ [d EXCEPT !.port = src.port].dst = dst
      /\ [d EXCEPT !.port = src.port].kind = "port"
      /\ [d EXCEPT !.port = src.port].port = src.port
  BY <1>1, <1>2 DEF Message
<1> QED
  BY <1>3 DEF PortTo, d

LEMMA RequestToFacts ==
  ASSUME NEW src \in Address, NEW host \in Hosts, NEW route \in Seq(Hosts)
  PROVE  /\ RequestTo(src, host, route) \in Message
         /\ RequestTo(src, host, route).src = src
         /\ RequestTo(src, host, route).dst = At(host, KnownPort)
         /\ RequestTo(src, host, route).kind = "request"
         /\ RequestTo(src, host, route).route = route
<1>1. At(host, KnownPort) \in Address
  BY DEF At, Address, KnownPort
<1> DEFINE d == Datagram(src, At(host, KnownPort), "request")
<1>2. /\ d \in Message /\ d.src = src /\ d.dst = At(host, KnownPort)
      /\ d.kind = "request"
  BY <1>1, DatagramFacts DEF Kind
<1> HIDE DEF d
<1>3. /\ [d EXCEPT !.route = route] \in Message
      /\ [d EXCEPT !.route = route].src = src
      /\ [d EXCEPT !.route = route].dst = At(host, KnownPort)
      /\ [d EXCEPT !.route = route].kind = "request"
      /\ [d EXCEPT !.route = route].route = route
  BY <1>2 DEF Message
<1> QED
  BY <1>3 DEF RequestTo, d

LEMMA NetFacts ==
  ASSUME Types
  PROVE  \A d \in DOMAIN net : /\ d \in Message
                               /\ d.src \in Address /\ d.dst \in Address
                               /\ d.route \in Seq(Hosts)
BY DEF Types, Message

LEMMA TheirAddr ==
  ASSUME IInv, NEW c \in 1 .. Len(child)
  PROVE  child[c].their_addr.port # KnownPort
<1>1. Types /\ ChildOK(c)
  BY DEF IInv
<1>2. CASE FromUser(c)
  BY <1>2, ConstantFacts DEF FromUser, At
<1>3. CASE FromChild(c)
  BY <1>3, ConstantFacts DEF FromChild, Self, At
<1> QED
  BY <1>1, <1>2, <1>3 DEF ChildOK

\* A child tells who asked for it.
LEMMA Tells ==
  ASSUME IInv, Keeps, NEW c \in 1 .. Len(child), child'[c].phase \in Final,
         NEW d, d.src = Self(c), d.dst = child[c].their_addr, d.kind # "request",
         d.kind = "port" => child'[c].phase = "relay" /\ d.port = c
  PROVE  DatagramOK(d)'
<1>1. /\ Types /\ Len(child) \in Nat /\ Len(child') \in Nat /\ Len(child) <= Len(child')
      /\ child'[c].host = child[c].host /\ child'[c].their_addr = child[c].their_addr
  BY ChildTypes DEF IInv, Keeps
<1>2. Settled(d.src)'
  BY <1>1, SelfFacts DEF Settled, Final
<1>3. d.dst.port # KnownPort
  BY TheirAddr
<1>4. d.kind = "port" => Home(d)'
  BY <1>1 DEF Home, Self, At
<1> QED
  BY <1>2, <1>3, <1>4 DEF DatagramOK, KnownPort

\* Where child c is to relay to: the server, or a relay for the rest of its route.
Ahead(c, sv) ==
  \/ Len(child[c].route) = 1 /\ sv = DestAt
  \/ /\ Len(child[c].route) > 1
     /\ \E s \in c + 1 .. Len(child) : /\ sv = Self(s)
                                       /\ child[s].phase = "relay"
                                       /\ child[s].route = Front(child[c].route)

\* What child c was asked for.
LEMMA AskedFor ==
  ASSUME IInv, NEW c \in 1 .. Len(child)
  PROVE  \E D \in Seq(Hosts) : Extends(child[c].route, D) /\ child[c].host = Last(D)
<1>1. Types /\ ChildOK(c) /\ Len(child) \in Nat
  BY ChildTypes DEF IInv
<1>2. CASE FromUser(c)
  BY <1>1, <1>2 DEF FromUser, Types
<1>3. CASE FromChild(c)
  <2>1. PICK e \in 1 .. c - 1 : /\ Asks(e)
                                /\ Extends(child[c].route, Front(child[e].route))
                                /\ child[c].host = Last(Front(child[e].route))
    BY <1>3 DEF FromChild
  <2>2. e \in 1 .. Len(child)
    BY <1>1
  <2>3. child[e].route \in Seq(Hosts) /\ Len(child[e].route) > 1
    BY <1>1, <2>1, <2>2, ChildTypes DEF Asks
  <2>4. Front(child[e].route) \in Seq(Hosts)
    BY <2>3, FrontFacts
  <2> QED
    BY <2>1, <2>4
<1> QED
  BY <1>1, <1>2, <1>3 DEF ChildOK

\* A child that has a relay for the rest of its route found nothing in its buffer
\* but what it was asked for.
LEMMA AheadAsAsked ==
  ASSUME IInv, NEW c \in 1 .. Len(child), NEW sv, Ahead(c, sv)
  PROVE  child[c].host = Last(child[c].route)
<1> DEFINE r == child[c].route
<1>1. /\ Types /\ Len(child) \in Nat /\ ChildOK(c) /\ Growing
      /\ r \in Seq(Hosts) /\ Len(r) \in Nat
  BY ChildTypes DEF IInv
<1>2. PICK D \in Seq(Hosts) : Extends(r, D) /\ child[c].host = Last(D)
  BY AskedFor
<1>3. /\ Len(D) \in Nat /\ Len(D) >= 1 /\ Len(D) <= Len(r) /\ Last(D) = D[Len(D)]
      /\ \A i \in 1 .. Len(D) : r[i] = D[i]
  BY <1>2, LastFacts DEF Extends
<1>4. CASE Len(D) = Len(r)
  <2>1. r = D
    BY <1>1, <1>3, <1>4, SameSeq
  <2> QED
    BY <1>2, <2>1
<1>5. CASE Len(D) < Len(r)
  <2>1. Len(r) \in Nat /\ Len(r) > 1
    BY <1>1, <1>3, <1>5
  <2>2. PICK s \in c + 1 .. Len(child) : child[s].phase = "relay" /\ child[s].route = Front(r)
    BY <2>1, NotOne DEF Ahead
  <2>3. /\ Len(Front(r)) = Len(r) - 1
        /\ \A i \in 1 .. Len(r) - 1 : Front(r)[i] = r[i]
    BY <1>1, <2>1, FrontFacts
  <2>4. s \in 1 .. Len(child) /\ c < s
    BY <1>1
  <2>5. RelayOK(s)
    BY <2>4 DEF IInv
  <2>6. Len(D) \in 1 .. Len(child[s].route)
    BY <1>3, <1>5, <2>1, <2>2, <2>3
  <2>7. PICK q \in s .. Len(child) :
          /\ child[q].phase = "relay"
          /\ Len(child[q].route) = Len(D)
          /\ \A i \in 1 .. Len(D) : child[q].route[i] = child[s].route[i]
    BY <2>2, <2>5, <2>6 DEF RelayOK, Descends
  <2>8. q \in 1 .. Len(child) /\ c < q
    BY <1>1, <2>4
  <2>9. child[q].host = child[q].route[Len(D)]
    BY <2>7, <2>8 DEF IInv, RelayOK, Last
  <2>10. child[q].route[Len(D)] = r[Len(D)]
    <3>1. Len(D) \in 1 .. Len(D) /\ Len(D) \in 1 .. Len(r) - 1
      BY <1>3, <1>5, <2>1
    <3> QED
      BY <2>2, <2>3, <2>7, <3>1
  <2>11. r[Len(D)] = D[Len(D)]
    BY <1>3
  <2>12. child[q].host = child[c].host
    BY <1>2, <1>3, <2>9, <2>10, <2>11
  <2>13. child[c].host \in Routers
    BY <1>1, <2>1, NotOne DEF ChildOK
  <2>14. Len(r) <= Len(child[q].route)
    BY <1>1, <2>8, <2>12, <2>13 DEF Growing
  <2> QED
    BY <1>3, <1>5, <2>1, <2>7, <2>14
<1> QED
  BY <1>1, <1>3, <1>4, <1>5

\* A child starts to relay.
LEMMA Starts ==
  ASSUME IInv, NEW c \in 1 .. Len(child), child[c].phase \notin Final,
         NEW sv \in Address, NEW n, DOMAIN n \subseteq DOMAIN net,
         StartRelay(c, sv, n),
         Ahead(c, sv),
         UNCHANGED <<buffer, phase, typed, told>>,
         TimersWithout(c)
  PROVE  IInv'
<1> DEFINE r == child[c].route
<1>1. /\ Types /\ Len(child) \in Nat
      /\ r \in Seq(Hosts) /\ Len(r) \in Nat /\ Len(r) >= 1
  BY ChildTypes DEF IInv, ChildOK
<1>0. Len(r) \in Nat
  BY <1>1
<1>2. /\ Keeps /\ Len(child') = Len(child)
      /\ child'[c].phase = "relay" /\ child'[c].relay.server = sv
      /\ child'[c].relay.client = child[c].relay.client
      /\ \A e \in 1 .. Len(child) : e # c => child'[e] = child[e]
  <2>1. "relay" \in Phase \ {"new"}
    BY DEF Phase
  <2> QED
    BY <1>1, <2>1, Move DEF StartRelay
<1>3. child'[c].route = r
  BY <1>2 DEF Keeps
<1>4. HandsOn(c)'
  <2>1. CASE Len(r) = 1 /\ sv = DestAt
    BY <1>2, <1>3, <2>1 DEF HandsOn, DestAt, At, DestPort
  <2>2. CASE Len(r) > 1 /\ \E s \in c + 1 .. Len(child) :
               /\ sv = Self(s)
               /\ child[s].phase = "relay"
               /\ child[s].route = Front(r)
    <3>1. PICK s \in c + 1 .. Len(child) : /\ sv = Self(s)
                                           /\ child[s].phase = "relay"
                                           /\ child[s].route = Front(r)
      BY <2>2
    <3>2. s \in 1 .. Len(child) /\ s # c /\ child'[s] = child[s]
      BY <1>2
    <3>3. Len(child'[c].route) # 1
      BY <1>0, <1>3, <2>2, NotOne
    <3>4. child'[c].relay.server = At(child'[s].host, s)
      BY <1>2, <3>1, <3>2 DEF Self
    <3>5. child'[s].phase = "relay" /\ child'[s].route = Front(child'[c].route)
      BY <1>3, <3>1, <3>2
    <3>6. s \in c + 1 .. Len(child')
      BY <1>2
    <3> QED
      BY <3>3, <3>4, <3>5, <3>6 DEF HandsOn, Self, At, Front
  <2> QED
    BY <2>1, <2>2 DEF Ahead
<1>5. Descends(c)'
  <2> SUFFICES ASSUME NEW k \in 1 .. Len(r)
               PROVE  \E q \in c .. Len(child) :
                        /\ child'[q].phase = "relay"
                        /\ Len(child'[q].route) = k
                        /\ \A i \in 1 .. k : child'[q].route[i] = r[i]
    BY <1>2, <1>3 DEF Descends
  <2>1. CASE k = Len(r)
    BY <1>1, <1>2, <1>3, <2>1
  <2>2. CASE k < Len(r)
    <3>0. k \in Nat /\ k >= 1 /\ Len(r) > 1
      BY <1>0, <2>2
    <3>1. PICK s \in c + 1 .. Len(child) : /\ child[s].phase = "relay"
                                           /\ child[s].route = Front(r)
      BY <1>0, <3>0, NotOne DEF Ahead
    <3>2. /\ Len(Front(r)) = Len(r) - 1
          /\ \A i \in 1 .. Len(r) - 1 : Front(r)[i] = r[i]
      BY <1>1, <3>0, FrontFacts
    <3>3. RelayOK(s)
      BY <1>1 DEF IInv
    <3>4. PICK q \in s .. Len(child) :
            /\ child[q].phase = "relay"
            /\ Len(child[q].route) = k
            /\ \A i \in 1 .. k : child[q].route[i] = child[s].route[i]
      <4>1. child[s].phase = "relay" /\ Len(child[s].route) = Len(r) - 1
        BY <3>1, <3>2
      <4>2. k \in 1 .. Len(child[s].route)
        BY <1>0, <2>2, <3>0, <4>1
      <4> QED
        BY <3>3, <4>1, <4>2 DEF RelayOK, Descends
    <3>5. q \in c .. Len(child) /\ child'[q] = child[q]
      BY <1>2
    <3>6. 1 .. k \subseteq 1 .. Len(r) - 1
      BY <1>0, <2>2, <3>0
    <3>7. \A i \in 1 .. k : child[q].route[i] = r[i]
      BY <3>1, <3>2, <3>4, <3>6
    <3> QED
      BY <3>4, <3>5, <3>7
  <2>3. k = Len(r) \/ k < Len(r)
    BY <1>0
  <2> QED
    BY <2>1, <2>2, <2>3
<1>6. RelayOK(c)'
  <2>1. child[c].host = Last(r)
    BY AheadAsAsked
  <2>2. child'[c].host = Last(child'[c].route)
    BY <1>2, <1>3, <2>1 DEF Keeps
  <2> QED
    BY <1>4, <1>5, <2>2 DEF RelayOK, Last
<1>7. TimersOK'
  BY <1>2, TimersKept
<1> DEFINE new == PortTo(Self(c), child[c].their_addr)
<1>8. /\ new \in Message
      /\ new.src = Self(c) /\ new.dst = child[c].their_addr
      /\ new.kind = "port" /\ new.port = c
  BY <1>1, SelfFacts, PortToFacts
<1>9. DOMAIN net' \subseteq DOMAIN net \cup {new}
  BY PutDomain DEF StartRelay
<1> HIDE DEF new
<1>10. DOMAIN net' \subseteq Message
  BY <1>1, <1>8, <1>9 DEF Types
<1>11. ASSUME NEW d \in DOMAIN net', d \notin DOMAIN net PROVE DatagramOK(d)'
  <2>1. d = new
    BY <1>9, <1>11
  <2>2. /\ d.src = Self(c) /\ d.dst = child[c].their_addr /\ d.kind # "request"
        /\ d.kind = "port" /\ d.port = c
    BY <1>8, <2>1
  <2>3. child'[c].phase \in Final
    BY <1>2 DEF Final
  <2> QED
    BY <1>2, <2>2, <2>3, Tells
<1> QED
  BY <1>2, <1>6, <1>7, <1>10, <1>11, ChildFrame

-----------------------------------------------------------------------------
\* The children's steps.

LEMMA RemoveAtFacts ==
  ASSUME NEW S, NEW s \in Seq(S), NEW i \in 1 .. Len(s)
  PROVE  /\ RemoveAt(s, i) \in Seq(S)
         /\ Len(RemoveAt(s, i)) = Len(s) - 1
         /\ \A j \in 1 .. Len(s) - 1 : RemoveAt(s, i)[j] = IF j < i THEN s[j] ELSE s[j + 1]
<1> DEFINE a == SubSeq(s, 1, i - 1)
           b == SubSeq(s, i + 1, Len(s))
<1>1. Len(s) \in Nat /\ i \in Nat /\ i >= 1 /\ i <= Len(s) /\ \A j \in 1 .. Len(s) : s[j] \in S
  OBVIOUS
<1>2. (\A j \in 1 .. i - 1 : s[j] \in S) /\ (\A j \in i + 1 .. Len(s) : s[j] \in S)
  BY <1>1
<1>3. /\ a \in Seq(S)
      /\ Len(a) = IF 1 <= i - 1 THEN (i - 1) - 1 + 1 ELSE 0
      /\ \A j \in 1 .. (i - 1) - 1 + 1 : a[j] = s[1 + j - 1]
  BY <1>1, <1>2, SubSeqProperties
<1>4. /\ b \in Seq(S)
      /\ Len(b) = IF i + 1 <= Len(s) THEN Len(s) - (i + 1) + 1 ELSE 0
      /\ \A j \in 1 .. Len(s) - (i + 1) + 1 : b[j] = s[(i + 1) + j - 1]
  BY <1>1, <1>2, SubSeqProperties
<1> HIDE DEF a, b
<1>5. Len(a) = i - 1 /\ Len(b) = Len(s) - i
  BY <1>1, <1>3, <1>4
<1>6. /\ a \o b \in Seq(S)
      /\ Len(a \o b) = Len(a) + Len(b)
      /\ \A j \in 1 .. Len(a) + Len(b) :
           (a \o b)[j] = IF j <= Len(a) THEN a[j] ELSE b[j - Len(a)]
  BY <1>3, <1>4, ConcatProperties
<1>7. ASSUME NEW j \in 1 .. Len(s) - 1
      PROVE  (a \o b)[j] = IF j < i THEN s[j] ELSE s[j + 1]
  <2>1. CASE j < i
    BY <1>1, <1>3, <1>5, <1>6, <2>1
  <2>2. CASE ~(j < i)
    <3>1. j - (i - 1) \in 1 .. Len(s) - (i + 1) + 1
      BY <1>1, <2>2
    <3>2. (a \o b)[j] = b[j - (i - 1)]
      BY <1>1, <1>5, <1>6, <2>2
    <3>3. b[j - (i - 1)] = s[(i + 1) + (j - (i - 1)) - 1]
      BY <1>4, <3>1
    <3>4. (i + 1) + (j - (i - 1)) - 1 = j + 1
      BY <1>1
    <3> QED
      BY <2>2, <3>2, <3>3, <3>4
  <2> QED
    BY <2>1, <2>2
<1> DEFINE all == a \o b
<1>8. all \in Seq(S) /\ Len(all) = Len(s) - 1
  BY <1>1, <1>5, <1>6
<1>9. \A j \in 1 .. Len(s) - 1 : all[j] = IF j < i THEN s[j] ELSE s[j + 1]
  BY <1>7
<1>10. RemoveAt(s, i) = all
  BY DEF RemoveAt, a, b
<1> HIDE DEF all
<1> QED
  BY <1>8, <1>9, <1>10

\* A child that is not final ends, and tells who asked for it or does not.
LEMMA Ends ==
  ASSUME IInv, NEW c \in 1 .. Len(child), child[c].phase \notin Final,
         NEW p \in Final \ {"relay"}, NEW kind \in {"A", "-1"},
         child' = [child EXCEPT ![c].phase = p],
         \A d \in DOMAIN net' :
           d \in DOMAIN net \/ d = Datagram(Self(c), child[c].their_addr, kind),
         UNCHANGED <<buffer, phase, typed, told>>,
         TimersWithout(c)
  PROVE  IInv'
<1>1. Types
  BY DEF IInv
<1>2. /\ Keeps /\ Len(child') = Len(child)
      /\ child'[c].phase = p
      /\ child'[c].relay.client = child[c].relay.client
      /\ \A e \in 1 .. Len(child) : e # c => child'[e] = child[e]
  <2>1. p \in Phase \ {"new"}
    BY DEF Phase, Final
  <2> QED
    BY <1>1, <2>1, Stop
<1>3. TimersOK'
  BY <1>2, TimersKept
<1>4. ASSUME NEW d \in DOMAIN net', d \notin DOMAIN net
      PROVE  d \in Message /\ DatagramOK(d)'
  <2>1. d = Datagram(Self(c), child[c].their_addr, kind)
    BY <1>4
  <2>2. kind \in Kind /\ kind # "port" /\ kind # "request"
    BY DEF Kind
  <2>3. /\ d \in Message /\ d.src = Self(c) /\ d.dst = child[c].their_addr
        /\ d.kind # "request" /\ d.kind # "port"
    BY <1>1, <2>1, <2>2, SelfFacts, DatagramFacts
  <2>4. child'[c].phase \in Final
    BY <1>2
  <2> QED
    BY <1>2, <2>3, <2>4, Tells
<1>5. DOMAIN net' \subseteq Message
  BY <1>1, <1>4 DEF Types
<1>6. RelayOK(c)' /\ child'[c].phase \notin {"sent", "wait"}
  BY <1>2 DEF RelayOK, Final
<1> QED
  BY <1>2, <1>3, <1>4, <1>5, <1>6, ChildFrame

LEMMA LastHopInv == ASSUME IInv, NEW c \in 1 .. Len(child), LastHop(c) PROVE IInv'
<1>1. /\ Types /\ child[c].phase = "new" /\ child[c].phase \notin Final
      /\ Len(child[c].route) = 1
      /\ UNCHANGED <<buffer, phase, typed, told>>
  BY DEF IInv, LastHop, Final
<1>2. TimersWithout(c)
  BY <1>1, OtherTimers DEF LastHop
<1>3. CASE StartRelay(c, DestAt, net)
  <2>1. DestAt \in Address
    BY ConstantFacts DEF DestAt, At, Address, Hosts
  <2>2. Ahead(c, DestAt)
    BY <1>1 DEF Ahead
  <2> QED
    BY <1>1, <1>2, <1>3, <2>1, <2>2, Starts
<1>4. CASE child' = [child EXCEPT ![c].phase = "unresolved"] /\ UNCHANGED net
  <2>1. "unresolved" \in Final \ {"relay"}
    BY DEF Final
  <2> QED
    BY <1>1, <1>2, <1>4, <2>1, Ends
<1> QED
  BY <1>3, <1>4 DEF LastHop

LEMMA TunnelHopInv == ASSUME IInv, NEW c \in 1 .. Len(child), TunnelHop(c) PROVE IInv'
<1>1. /\ Types /\ child[c].phase = "new" /\ child[c].phase \notin Final
      /\ child[c].host \in Tunnels
      /\ UNCHANGED <<buffer, phase, typed, told>>
  BY DEF IInv, TunnelHop, Final
<1>2. TimersWithout(c)
  BY <1>1, OtherTimers DEF TunnelHop
<1>3. CASE StartRelay(c, DestAt, net)
  <2>1. DestAt \in Address
    BY ConstantFacts DEF DestAt, At, Address, Hosts
  <2>2. Len(child[c].route) = 1
    BY <1>1, ConstantFacts DEF IInv, ChildOK
  <2>3. Ahead(c, DestAt)
    BY <2>2 DEF Ahead
  <2> QED
    BY <1>1, <1>2, <1>3, <2>1, <2>3, Starts
<1>4. CASE /\ child' = [child EXCEPT ![c].phase = "unresolved"]
           /\ net' = Put(net, Datagram(Self(c), child[c].their_addr, "-1"))
  <2>1. "unresolved" \in Final \ {"relay"}
    BY DEF Final
  <2>2. \A d \in DOMAIN net' :
          d \in DOMAIN net \/ d = Datagram(Self(c), child[c].their_addr, "-1")
    <3> DEFINE new == Datagram(Self(c), child[c].their_addr, "-1")
    <3>1. net' = Put(net, new)
      BY <1>4
    <3> HIDE DEF new
    <3>2. DOMAIN net' \subseteq DOMAIN net \cup {new}
      BY <3>1, PutDomain
    <3> QED
      BY <3>2 DEF new
  <2> QED
    BY <1>1, <1>2, <1>4, <2>1, <2>2, Ends
<1> QED
  BY <1>3, <1>4 DEF TunnelHop

\* The request of c to the next router.
LEMMA ForwardInv == ASSUME IInv, NEW c \in 1 .. Len(child), Forward(c) PROVE IInv'
<1> DEFINE r == child[c].route
           new == RequestTo(Self(c), NextHop(c), Front(r))
<1>1. /\ Types /\ child[c].phase = "new" /\ child[c].phase \notin Final
      /\ child[c].host \in Routers /\ Len(r) > 1
      /\ UNCHANGED <<buffer, phase, typed, told>>
      /\ child' = [child EXCEPT ![c].phase = "sent"]
      /\ net' = Put(net, new)
  BY DEF IInv, Forward, Final
<1>2. r \in Seq(Names)
  BY <1>1, ConstantFacts DEF IInv, ChildOK
<1>3. /\ Front(r) \in Seq(Names) /\ Front(r) # <<>>
      /\ Last(Front(r)) \in Names
  BY <1>1, <1>2, FrontFacts, LastFacts
<1>4. TimersWithout(c)
  BY <1>1, OtherTimers DEF Forward
<1>5. /\ Keeps /\ Len(child') = Len(child)
      /\ child'[c].phase = "sent"
      /\ child'[c].relay.client = child[c].relay.client
      /\ \A e \in 1 .. Len(child) : e # c => child'[e] = child[e]
  <2>1. "sent" \in Phase \ {"new"}
    BY DEF Phase
  <2> QED
    BY <1>1, <2>1, Stop
<1>6. child'[c].host = child[c].host /\ child'[c].route = r
  BY <1>5 DEF Keeps
<1>7. Asks(c)'
  BY <1>1, <1>5, <1>6 DEF Asks
<1>8. TimersOK'
  BY <1>4, <1>5, TimersKept
<1>9. /\ new \in Message /\ new.src = Self(c)
      /\ new.dst = At(Last(Front(r)), KnownPort)
      /\ new.kind = "request" /\ new.route = Front(r)
  <2>1. Front(r) \in Seq(Hosts) /\ Last(Front(r)) \in Hosts
    BY <1>3, SeqMono DEF Hosts, Names
  <2> QED
    BY <1>1, <2>1, SelfFacts, RequestToFacts DEF NextHop
<1> HIDE DEF new
<1>10. DOMAIN net' \subseteq DOMAIN net \cup {new}
  BY <1>1, PutDomain
<1>11. ASSUME NEW d \in DOMAIN net', d \notin DOMAIN net PROVE DatagramOK(d)'
  <2>1. /\ d.src = Self(c) /\ d.kind = "request" /\ d.route = Front(r)
        /\ d.dst = At(Last(Front(r)), KnownPort)
    BY <1>9, <1>10, <1>11
  <2>2. d.src = At(child'[c].host, c) /\ d.route = Front(child'[c].route)
    BY <1>6, <2>1 DEF Self
  <2>3. c \in 1 .. Len(child')
    BY <1>5
  <2>4. d.route # <<>> /\ d.dst = At(Last(d.route), KnownPort) /\ d.route \in Seq(Names)
    BY <1>3, <2>1
  <2>5. Requested(d)'
    BY <1>7, <2>2, <2>3, <2>4 DEF Requested, Self, At, KnownPort, Last, Front
  <2> QED
    BY <2>1, <2>5 DEF DatagramOK
<1>12. DOMAIN net' \subseteq Message
  BY <1>1, <1>9, <1>10 DEF Types
<1>13. RelayOK(c)'
  BY <1>5 DEF RelayOK
<1> QED
  BY <1>1, <1>5, <1>7, <1>8, <1>11, <1>12, <1>13, ChildFrame

LEMMA WaitInv == ASSUME IInv, NEW c \in 1 .. Len(child), Wait(c) PROVE IInv'
<1>1. /\ Types /\ child[c].phase = "sent" /\ child[c].phase \notin Final
      /\ UNCHANGED <<buffer, phase, typed, told, net>>
      /\ child' = [child EXCEPT ![c].phase = "wait"]
      /\ timers' = Append(timers, c)
  BY DEF IInv, Wait, Final
<1>2. /\ Keeps /\ Len(child') = Len(child)
      /\ child'[c].phase = "wait"
      /\ child'[c].relay.client = child[c].relay.client
      /\ \A e \in 1 .. Len(child) : e # c => child'[e] = child[e]
  <2>1. "wait" \in Phase \ {"new"}
    BY DEF Phase
  <2> QED
    BY <1>1, <2>1, Stop
<1>3. Asks(c)'
  BY <1>1, <1>2, KeepsAsks DEF IInv, ChildOK
<1>4. TimersOK'
  <2>1. /\ timers \in Seq(1 .. Len(child)) /\ Len(timers) \in Nat
        /\ \A i, j \in 1 .. Len(timers) : timers[i] = timers[j] => i = j
        /\ \A i \in 1 .. Len(timers) :
             timers[i] \in 1 .. Len(child) /\ child[timers[i]].phase = "wait"
    BY <1>1 DEF Types, TimersOK
  <2>2. /\ timers' \in Seq(1 .. Len(child)) /\ Len(timers') = Len(timers) + 1
        /\ \A i \in 1 .. Len(timers) : timers'[i] = timers[i]
        /\ timers'[Len(timers) + 1] = c
    BY <1>1, <2>1
  <2>3. \A i \in 1 .. Len(timers') : i \in 1 .. Len(timers) \/ i = Len(timers) + 1
    BY <2>1, <2>2
  <2>4. \A i \in 1 .. Len(timers) : timers[i] # c
    BY <1>1, <2>1
  <2>5. \A i, j \in 1 .. Len(timers') : timers'[i] = timers'[j] => i = j
    BY <2>1, <2>2, <2>3, <2>4
  <2>6. ASSUME NEW i \in 1 .. Len(timers')
        PROVE  child'[timers'[i]].phase = "wait"
    <3>1. CASE i \in 1 .. Len(timers)
      <4>1. /\ timers'[i] = timers[i] /\ timers[i] \in 1 .. Len(child)
            /\ timers[i] # c /\ child[timers[i]].phase = "wait"
        BY <2>1, <2>2, <2>4, <3>1
      <4> QED
        BY <1>2, <4>1
    <3>2. CASE i = Len(timers) + 1
      BY <1>2, <2>2, <3>2
    <3> QED
      BY <2>3, <3>1, <3>2
  <2> QED
    BY <1>2, <2>2, <2>5, <2>6 DEF TimersOK
<1>5. RelayOK(c)'
  BY <1>2 DEF RelayOK
<1>6. /\ DOMAIN net' \subseteq Message
      /\ \A d \in DOMAIN net' : d \in DOMAIN net \/ DatagramOK(d)'
  BY <1>1 DEF Types
<1>7. child'[c].phase \in {"sent", "wait"} => Asks(c)'
  BY <1>3
<1> QED
  <2>1. UNCHANGED <<buffer, phase, typed, told>>
    BY <1>1
  <2> QED
    BY ONLY IInv, c \in 1 .. Len(child), <1>2, <1>4, <1>5, <1>6, <1>7, <2>1, ChildFrame

\* c stops waiting.
LEMMA RemovedTimer ==
  ASSUME Types, NEW c \in 1 .. Len(child), NEW i \in DOMAIN timers,
         timers[i] = c, timers' = RemoveAt(timers, i)
  PROVE  TimersWithout(c)
<1>1. /\ timers \in Seq(1 .. Len(child)) /\ Len(timers) \in Nat /\ i \in 1 .. Len(timers)
      /\ \A j, k \in 1 .. Len(timers) : timers[j] = timers[k] => j = k
      /\ \A j \in 1 .. Len(timers) : child[timers[j]].phase = "wait"
  BY DEF Types, TimersOK
<1>2. /\ timers' \in Seq(1 .. Len(child))
      /\ Len(timers') = Len(timers) - 1
      /\ \A j \in 1 .. Len(timers) - 1 :
           timers'[j] = IF j < i THEN timers[j] ELSE timers[j + 1]
  BY <1>1, RemoveAtFacts
<1> DEFINE n == Len(timers)
<1>a. n \in Nat /\ i \in 1 .. n /\ Len(timers') = n - 1
  BY <1>1, <1>2
<1>b. \A j \in 1 .. n - 1 : timers'[j] = IF j < i THEN timers[j] ELSE timers[j + 1]
  BY <1>2
<1> HIDE DEF n
<1>3. ASSUME NEW j \in 1 .. Len(timers')
      PROVE  \E m \in 1 .. n :
               /\ m # i /\ timers'[j] = timers[m]
               /\ j = IF m < i THEN m ELSE m - 1
  <2>0. j \in 1 .. n - 1 /\ j \in Nat /\ i \in Nat
    BY <1>a
  <2>1. CASE j < i
    <3>1. timers'[j] = timers[j]
      BY <1>b, <2>0, <2>1
    <3>2. j \in 1 .. n /\ j # i
      BY <1>a, <2>0, <2>1
    <3> QED
      BY <2>1, <3>1, <3>2
  <2>2. CASE ~(j < i)
    <3>1. timers'[j] = timers[j + 1]
      BY <1>b, <2>0, <2>2
    <3>2. j + 1 \in 1 .. n /\ j + 1 # i /\ ~(j + 1 < i) /\ j = (j + 1) - 1
      BY <1>a, <2>0, <2>2
    <3> QED
      BY <3>1, <3>2
  <2> QED
    BY <2>1, <2>2
<1>4. \A j, k \in 1 .. Len(timers') : timers'[j] = timers'[k] => j = k
  <2> SUFFICES ASSUME NEW j \in 1 .. Len(timers'), NEW k \in 1 .. Len(timers'),
                      timers'[j] = timers'[k]
               PROVE  j = k
    OBVIOUS
  <2>1. PICK m \in 1 .. n : /\ m # i /\ timers'[j] = timers[m]
                            /\ j = IF m < i THEN m ELSE m - 1
    BY <1>3
  <2>2. PICK l \in 1 .. n : /\ l # i /\ timers'[k] = timers[l]
                            /\ k = IF l < i THEN l ELSE l - 1
    BY <1>3
  <2>3. m = l
    BY <1>1, <2>1, <2>2 DEF n
  <2> QED
    BY <1>a, <2>1, <2>2, <2>3
<1>5. ASSUME NEW j \in 1 .. Len(timers')
      PROVE  timers'[j] # c /\ child[timers'[j]].phase = "wait"
  BY <1>1, <1>3 DEF n
<1> QED
  BY <1>2, <1>4, <1>5 DEF TimersWithout

\* The port that a waiting child hears is that of a relay for the rest of its route.
LEMMA HeardPort ==
  ASSUME IInv, NEW c \in 1 .. Len(child), child[c].phase = "wait",
         NEW d \in DOMAIN net, d.dst = Self(c), IsPort(d)
  PROVE  /\ Ahead(c, At(NextHop(c), d.port)) /\ At(NextHop(c), d.port) \in Address
         /\ \E s \in c + 1 .. Len(child) : /\ At(NextHop(c), d.port) = Self(s)
                                           /\ child[s].phase = "relay"
                                           /\ child[s].their_addr = Self(c)
<1> DEFINE s == d.port
<1>1. Types /\ Len(child) \in Nat /\ DatagramOK(d) /\ d.kind = "port"
  BY ChildTypes DEF IInv, IsPort
<1>2. Home(d)
  <2>1. d.dst.port = c /\ c # AppPort /\ c # DestPort
    BY <1>1, SelfFacts
  <2>2. ~Settled(d.dst)
    BY <2>1 DEF Settled
  <2> QED
    BY <1>1, <2>2 DEF DatagramOK
<1>3. /\ s \in 1 .. Len(child) /\ child[s].phase = "relay"
      /\ child[s].their_addr = Self(c)
  BY <1>2 DEF Home
<1> HIDE DEF s
<1>4. ChildOK(s)
  BY <1>3 DEF IInv
<1>5. ~FromUser(s)
  BY <1>1, <1>3, SelfFacts DEF FromUser, At
<1>6. FromChild(s)
  BY <1>4, <1>5 DEF ChildOK
<1>7. /\ c \in 1 .. s - 1 /\ Asks(c)
      /\ Extends(child[s].route, Front(child[c].route))
      /\ child[s].host = Last(Front(child[c].route))
  <2>1. PICK e \in 1 .. s - 1 : /\ child[s].their_addr = Self(e)
                                /\ Asks(e)
                                /\ Extends(child[s].route, Front(child[e].route))
                                /\ child[s].host = Last(Front(child[e].route))
    BY <1>6 DEF FromChild
  <2>2. e = c
    BY <1>3, <2>1 DEF Self, At
  <2> QED
    BY <2>1, <2>2
<1>8. child[c].route \in Seq(Hosts) /\ Len(child[c].route) > 1
  BY <1>1, <1>7, ChildTypes DEF Asks
<1>9. Front(child[c].route) \in Seq(Hosts)
  BY <1>8, FrontFacts
<1>10. child[s].route = Front(child[c].route)
  BY <1>3, <1>7, <1>9, NoStale
<1>11. NextHop(c) = child[s].host
  BY <1>7 DEF NextHop
<1>12. At(NextHop(c), s) = Self(s) /\ Self(s) \in Address
  BY <1>1, <1>3, <1>11, SelfFacts DEF Self
<1>13. s \in c + 1 .. Len(child)
  BY <1>1, <1>3, <1>7
<1> QED
  BY <1>3, <1>8, <1>10, <1>12, <1>13 DEF Ahead, s

LEMMA HearReplyInv == ASSUME IInv, NEW c \in 1 .. Len(child), HearReply(c) PROVE IInv'
<1>1. /\ Types /\ child[c].phase = "wait" /\ child[c].phase \notin Final
      /\ UNCHANGED <<buffer, phase, typed, told>>
  BY DEF IInv, HearReply, Final
<1>2. TimersWithout(c)
  BY <1>1, RemovedTimer DEF HearReply
<1>3. PICK d \in DOMAIN net :
        /\ d.dst = Self(c)
        /\ IF IsPort(d)
             THEN StartRelay(c, At(NextHop(c), d.port), Take(net, d))
             ELSE /\ child' = [child EXCEPT ![c].phase = "refused"]
                  /\ net' = Take(net, d)
  BY DEF HearReply
<1>4. CASE IsPort(d)
  <2>1. Ahead(c, At(NextHop(c), d.port)) /\ At(NextHop(c), d.port) \in Address
    BY <1>1, <1>3, <1>4, HeardPort
  <2>2. StartRelay(c, At(NextHop(c), d.port), Take(net, d))
    BY <1>3, <1>4
  <2>3. DOMAIN Take(net, d) \subseteq DOMAIN net
    BY TakeDomain
  <2> QED
    BY <1>1, <1>2, <2>1, <2>2, <2>3, Starts
<1>5. CASE ~IsPort(d)
  <2>1. child' = [child EXCEPT ![c].phase = "refused"] /\ net' = Take(net, d)
    BY <1>3, <1>5
  <2>2. DOMAIN net' \subseteq DOMAIN net
    BY <2>1, TakeDomain
  <2>3. "refused" \in Final \ {"relay"} /\ "A" \in {"A", "-1"}
    BY DEF Final
  <2> QED
    BY <1>1, <1>2, <2>1, <2>2, <2>3, Ends
<1> QED
  BY <1>4, <1>5

LEMMA TimeoutInv == ASSUME IInv, Timeout PROVE IInv'
<1>1. /\ Types /\ timers # <<>> /\ timers' = Tail(timers)
      /\ UNCHANGED <<buffer, phase, typed, told>>
  BY DEF IInv, Timeout
<1>2. /\ timers \in Seq(1 .. Len(child)) /\ Len(timers) \in Nat
      /\ \A j, k \in 1 .. Len(timers) : timers[j] = timers[k] => j = k
      /\ \A j \in 1 .. Len(timers) : child[timers[j]].phase = "wait"
  BY <1>1 DEF Types, TimersOK
<1>3. PICK c \in 1 .. Len(child) : c = Head(timers) /\ c = timers[1]
  BY <1>1, <1>2
<1>4. /\ timers' \in Seq(1 .. Len(child)) /\ Len(timers') = Len(timers) - 1
      /\ \A j \in 1 .. Len(timers) - 1 : timers'[j] = timers[j + 1]
  BY <1>1, <1>2
<1>5. TimersWithout(c) /\ child[c].phase = "wait"
  BY <1>1, <1>2, <1>3, <1>4 DEF TimersWithout
<1> DEFINE new == Datagram(Self(c), child[c].their_addr, "A")
<1>9. /\ child' = [child EXCEPT ![c].phase = "expired"]
      /\ net' = Put(net, new)
  BY <1>3 DEF Timeout, Expire
<1> HIDE DEF new
<1>6. DOMAIN net' \subseteq DOMAIN net \cup {new}
  BY <1>9, PutDomain
<1>7. \A d \in DOMAIN net' : d \in DOMAIN net \/ d = Datagram(Self(c), child[c].their_addr, "A")
  BY <1>6 DEF new
<1>8. "expired" \in Final \ {"relay"} /\ "A" \in {"A", "-1"} /\ child[c].phase \notin Final
  BY <1>5 DEF Final
<1> QED
  BY <1>1, <1>5, <1>7, <1>8, <1>9, Ends

LEMMA RelayOneInv == ASSUME IInv, NEW c \in 1 .. Len(child), RelayOne(c) PROVE IInv'
<1> DEFINE relay == child[c].relay
<1>1. PICK d \in DOMAIN net :
        LET dst == Onward(relay, d.src)
        IN /\ d.dst = Self(c)
           /\ child' = [child EXCEPT ![c].relay = [relay EXCEPT !.client = Learn(relay, d.src)]]
           /\ net' = IF dst = NoAddress THEN Take(net, d)
                     ELSE Put(Take(net, d), Forwarded(d, Self(c), dst))
  BY DEF RelayOne
<1>2. /\ Types /\ child[c].phase = "relay" /\ Len(child) \in Nat
      /\ UNCHANGED <<buffer, timers, phase, typed, told>>
      /\ ChildOK(c) /\ RelayOK(c) /\ DatagramOK(d) /\ child[c] \in Record
      /\ d \in Message /\ d.src \in Address
  BY ChildTypes, NetFacts DEF IInv, RelayOne
<1>3. d.kind # "request" /\ Settled(d.src)
  <2>1. d.dst.port = c /\ c # KnownPort
    BY <1>1, <1>2, SelfFacts
  <2>2. ~Requested(d)
    BY <2>1 DEF Requested, At
  <2> QED
    BY <1>2, <2>2 DEF DatagramOK
<1> DEFINE client == Learn(relay, d.src)
           rec == [child[c] EXCEPT !.relay.client = client]
<1>4. /\ relay.server \in Address \cup {NoAddress}
      /\ relay.client \in Address \cup {NoAddress}
      /\ client \in Address \cup {NoAddress}
      /\ client = relay.client \/ client = d.src
  BY <1>2 DEF Record, Learn
<1> HIDE DEF client
<1>5. /\ rec \in Record
      /\ rec.host = child[c].host /\ rec.route = child[c].route
      /\ rec.their_addr = child[c].their_addr
      /\ rec.phase = child[c].phase /\ rec.relay.server = relay.server
      /\ rec.relay.client = client
  BY <1>2, <1>4 DEF Record
<1>6. child' = [child EXCEPT ![c] = rec]
  BY <1>1, <1>2 DEF Types, Record, client
<1> HIDE DEF rec
<1>7. /\ Keeps /\ Len(child') = Len(child)
      /\ child'[c] = rec
      /\ \A e \in 1 .. Len(child) : e # c => child'[e] = child[e]
  BY <1>2, <1>5, <1>6, Replace
<1>8. ASSUME NEW e \in 1 .. Len(child)
      PROVE  /\ child'[e].phase \in {"sent", "wait"} => Asks(e)'
             /\ \/ child'[e].relay.client = child[e].relay.client
                \/ Settled(child[e].relay.client)'
             /\ child[e].phase # "relay" => RelayOK(e)'
  <2>1. CASE e = c
    <3>1. child'[c].phase = "relay" /\ child'[c].relay.client = client
      BY <1>2, <1>5, <1>7
    <3>2. Settled(d.src)'
      BY <1>2, <1>3, <1>7, KeepsSettled
    <3>3. child'[c].relay.client = child[c].relay.client \/ Settled(child[c].relay.client)'
      BY <1>4, <3>1, <3>2 DEF Settled
    <3> QED
      BY <1>2, <2>1, <3>1, <3>3
  <2>2. CASE e # c
    <3>1. child'[e] = child[e]
      BY <1>7, <2>2
    <3>2. child[e].phase \in {"sent", "wait"} => Asks(e)'
      BY <1>2, <1>7, KeepsAsks DEF IInv, ChildOK
    <3> QED
      BY <3>1, <3>2 DEF RelayOK
  <2> QED
    BY <2>1, <2>2
<1>9. TimersWithout(c)
  BY <1>2, OtherTimers
<1>10. TimersOK'
  BY <1>7, <1>9, TimersKept
<1> DEFINE dst == Onward(relay, d.src)
<1>11. ASSUME dst # NoAddress, NEW e, e = Forwarded(d, Self(c), dst)
       PROVE  e \in Message /\ DatagramOK(e)'
  <2>1. dst \in Address /\ Settled(dst)
    <3>1. relay.server # NoAddress => relay.server \in Address /\ Settled(relay.server)
      <4>1. CASE Len(child[c].route) = 1
        BY <1>2, <1>4, <4>1 DEF RelayOK, HandsOn, DestAt, At, Settled
      <4>2. CASE Len(child[c].route) # 1
        <5>1. PICK s \in c + 1 .. Len(child) :
                relay.server = Self(s) /\ child[s].phase = "relay"
          BY <1>2, <4>2 DEF RelayOK, HandsOn
        <5> QED
          BY <1>2, <1>4, <5>1 DEF Self, At, Settled
      <4> QED
        BY <4>1, <4>2
    <3>2. relay.client # NoAddress => relay.client \in Address /\ Settled(relay.client)
      BY <1>2, <1>4 DEF ChildOK
    <3> QED
      BY <1>11, <3>1, <3>2 DEF Onward
  <2> HIDE DEF dst
  <2>2. /\ e \in Message /\ e.src = Self(c) /\ e.dst = dst /\ e.kind = d.kind
    BY <1>2, <1>11, <2>1, SelfFacts DEF Forwarded, Message
  <2>3. Settled(Self(c)) /\ Self(c) \in Address
    BY <1>2, SelfFacts DEF Settled
  <2>4. dst.port # KnownPort
    BY <1>2, <2>1, ConstantFacts DEF Settled
  <2>5. DatagramOK(e)
    BY <1>3, <2>1, <2>2, <2>3, <2>4 DEF DatagramOK
  <2>6. e.src \in Address /\ e.port \in Nat
    BY <2>2 DEF Message
  <2> QED
    BY <1>2, <1>7, <2>2, <2>5, <2>6, KeepsDatagram
<1>12. DOMAIN net' \subseteq Message /\ \A e \in DOMAIN net' : e \in DOMAIN net \/ DatagramOK(e)'
  <2>1. CASE dst = NoAddress
    <3>1. DOMAIN net' \subseteq DOMAIN net
      BY <1>1, <2>1, TakeDomain
    <3> QED
      BY <1>2, <3>1 DEF Types
  <2>2. CASE dst # NoAddress
    <3> DEFINE new == Forwarded(d, Self(c), dst)
               rest == Take(net, d)
    <3>1. net' = Put(rest, new)
      BY <1>1, <2>2
    <3>2. DOMAIN rest \subseteq DOMAIN net
      BY TakeDomain
    <3> HIDE DEF new, rest
    <3>3. DOMAIN net' \subseteq DOMAIN net \cup {new}
      BY <3>1, <3>2, PutDomain
    <3>4. ASSUME NEW e \in DOMAIN net', e \notin DOMAIN net
          PROVE  e \in Message /\ DatagramOK(e)'
      BY <1>11, <2>2, <3>3, <3>4 DEF new
    <3> QED
      BY <1>2, <3>4 DEF Types
  <2> QED
    BY <2>1, <2>2
<1>13. \A u \in Users : UserOK(u)'
  BY <1>2, <1>7, KeepsUser DEF IInv
<1>14. /\ phase' \in [Users -> {"start", "waiting", "told", "failed"}]
       /\ typed' \in [Users -> Seq(Hosts)]
       /\ told' \in [Users -> Nat]
  BY <1>2 DEF Types
<1> QED
  BY <1>2, <1>7, <1>8, <1>10, <1>12, <1>13, <1>14, Frame

-----------------------------------------------------------------------------
\* The users, the server and the network.

\* A step that leaves the children alone keeps what Keeps says.
LEMMA SameChildren ==
  ASSUME Types, child' = child, timers' = timers,
         \A u \in Users : phase[u] # "start" => phase'[u] # "start" /\ typed'[u] = typed[u]
  PROVE  /\ Keeps /\ Len(child') = Len(child) /\ TimersOK'
         /\ \A c \in 1 .. Len(child) : child'[c] = child[c]
BY DEF Types, Keeps, TimersOK

\* What is left to show of such a step.
LEMMA NetFrame ==
  ASSUME IInv, UNCHANGED <<buffer, child, timers>>,
         phase' \in [Users -> {"start", "waiting", "told", "failed"}],
         typed' \in [Users -> Seq(Hosts)],
         told' \in [Users -> Nat],
         \A u \in Users : phase[u] # "start" => phase'[u] # "start" /\ typed'[u] = typed[u],
         \A u \in Users : UserOK(u)',
         DOMAIN net' \subseteq Message,
         \A d \in DOMAIN net' : d \in DOMAIN net \/ DatagramOK(d)'
  PROVE  IInv'
<1>1. Types
  BY DEF IInv
<1>2. /\ Keeps /\ Len(child') = Len(child) /\ TimersOK'
      /\ \A c \in 1 .. Len(child) : child'[c] = child[c]
  BY <1>1, SameChildren
<1>3. ASSUME NEW c \in 1 .. Len(child)
      PROVE  /\ child'[c].phase \in {"sent", "wait"} => Asks(c)'
             /\ \/ child'[c].relay.client = child[c].relay.client
                \/ Settled(child[c].relay.client)'
             /\ child[c].phase # "relay" => RelayOK(c)'
  <2>1. child[c].phase \in {"sent", "wait"} => Asks(c)'
    BY <1>1, <1>2, KeepsAsks DEF IInv, ChildOK
  <2> QED
    BY <1>2, <2>1 DEF RelayOK
<1> QED
  BY <1>2, <1>3, Frame

LEMMA NetOnly ==
  ASSUME IInv, UNCHANGED <<buffer, child, timers, phase, typed, told>>,
         \A d \in DOMAIN net' : d \in DOMAIN net \/ (d \in Message /\ DatagramOK(d))
  PROVE  IInv'
<1>1. /\ Types
      /\ phase' \in [Users -> {"start", "waiting", "told", "failed"}]
      /\ typed' \in [Users -> Seq(Hosts)]
      /\ told' \in [Users -> Nat]
      /\ DOMAIN net' \subseteq Message
  BY DEF IInv, Types
<1>2. Keeps
  BY <1>1, SameChildren
<1>3. \A u \in Users : UserOK(u)'
  BY <1>1, <1>2, KeepsUser DEF IInv
<1>4. ASSUME NEW d \in DOMAIN net', d \notin DOMAIN net PROVE DatagramOK(d)'
  <2>1. d \in Message /\ DatagramOK(d) /\ d.src \in Address /\ d.port \in Nat
    BY <1>4 DEF Message
  <2> QED
    BY <1>1, <1>2, <2>1, KeepsDatagram
<1> QED
  BY <1>1, <1>3, <1>4, NetFrame

LEMMA AppAskInv == ASSUME IInv, NEW u \in Users, AppAsk(u) PROVE IInv'
<1> DEFINE src == At(u, AppPort)
           dst == At(Last(typed[u]), told[u])
           new == [Datagram(src, dst, "ask") EXCEPT !.user = u]
<1>1. /\ Types /\ UserOK(u) /\ phase[u] = "told" /\ net' = Put(net, new)
      /\ UNCHANGED <<buffer, child, timers, phase, typed, told>>
  BY DEF IInv, AppAsk
<1>2. /\ told[u] \in 1 .. Len(child) /\ typed[u] \in Routes[u]
      /\ Last(typed[u]) \in Hosts
  BY <1>1, ConstantFacts, LastFacts DEF UserOK
<1>3. src \in Address /\ dst \in Address /\ src.port = AppPort /\ dst.port = told[u]
  BY <1>2, ConstantFacts DEF At, Address, Hosts
<1> DEFINE plain == Datagram(src, dst, "ask")
<1>4. /\ plain \in Message /\ plain.src = src /\ plain.dst = dst /\ plain.kind = "ask"
  BY <1>3, DatagramFacts DEF Kind
<1> HIDE DEF plain
<1>5. /\ [plain EXCEPT !.user = u] \in Message
      /\ [plain EXCEPT !.user = u].src = src
      /\ [plain EXCEPT !.user = u].dst = dst
      /\ [plain EXCEPT !.user = u].kind = "ask"
  BY <1>4 DEF Message, Hosts
<1>6. new \in Message /\ new.src = src /\ new.dst = dst /\ new.kind = "ask"
  BY <1>5 DEF plain
<1> HIDE DEF new, src, dst
<1>7. DatagramOK(new)
  BY <1>2, <1>3, <1>6, ConstantFacts DEF DatagramOK, Settled
<1>8. DOMAIN net' \subseteq DOMAIN net \cup {new}
  BY <1>1, PutDomain
<1>9. \A d \in DOMAIN net' : d \in DOMAIN net \/ (d \in Message /\ DatagramOK(d))
  BY <1>6, <1>7, <1>8
<1> QED
  BY <1>1, <1>9, NetOnly

LEMMA AppHearInv == ASSUME IInv, NEW u \in Users, AppHear(u) PROVE IInv'
<1>1. UNCHANGED <<buffer, child, timers, phase, typed, told>>
  BY DEF AppHear
<1>2. DOMAIN net' \subseteq DOMAIN net
  BY TakeDomain DEF AppHear
<1> QED
  BY <1>1, <1>2, NetOnly

LEMMA DestAnswerInv == ASSUME IInv, DestAnswer PROVE IInv'
<1>1. PICK d \in DOMAIN net :
        /\ d.kind = "ask"
        /\ net' = Put(Take(net, d), [Forwarded(d, DestAt, d.src) EXCEPT !.kind = "answer"])
  BY DEF DestAnswer
<1>2. /\ Types /\ DatagramOK(d) /\ d \in Message /\ d.src \in Address
      /\ UNCHANGED <<buffer, child, timers, phase, typed, told>>
  BY NetFacts DEF IInv, DestAnswer
<1> DEFINE new == [Forwarded(d, DestAt, d.src) EXCEPT !.kind = "answer"]
           rest == Take(net, d)
<1>3. /\ DestAt \in Address /\ Settled(DestAt)
      /\ Settled(d.src) /\ d.src.port # KnownPort
  <2>1. DestAt \in Address /\ Settled(DestAt)
    BY ConstantFacts DEF DestAt, At, Address, Hosts, Settled
  <2>2. Settled(d.src)
    BY <1>1, <1>2 DEF DatagramOK
  <2> QED
    BY <2>1, <2>2, <1>2, ConstantFacts DEF Settled
<1>5. /\ new \in Message /\ new.src = DestAt /\ new.dst = d.src /\ new.kind = "answer"
  BY <1>2, <1>3 DEF Forwarded, Message, Kind
<1>6. net' = Put(rest, new) /\ DOMAIN rest \subseteq DOMAIN net
  BY <1>1, TakeDomain
<1> HIDE DEF new, rest
<1>7. DatagramOK(new)
  BY <1>3, <1>5 DEF DatagramOK
<1>8. DOMAIN net' \subseteq DOMAIN net \cup {new}
  BY <1>6, PutDomain
<1>9. \A e \in DOMAIN net' : e \in DOMAIN net \/ (e \in Message /\ DatagramOK(e))
  BY <1>5, <1>7, <1>8
<1> QED
  BY <1>2, <1>9, NetOnly

LEMMA NetworkInv == ASSUME IInv, Lose \/ Duplicate PROVE IInv'
<1>1. UNCHANGED <<buffer, child, timers, phase, typed, told>>
  BY DEF Lose, Duplicate
<1>2. DOMAIN net' \subseteq DOMAIN net
  BY PutDomain, TakeDomain DEF Lose, Duplicate
<1> QED
  BY <1>1, <1>2, NetOnly

LEMMA BuilderAskInv == ASSUME IInv, NEW u \in Users, BuilderAsk(u) PROVE IInv'
<1>1. PICK r \in Routes[u] :
        /\ typed' = [typed EXCEPT ![u] = r]
        /\ net' = Put(net, RequestTo(At(u, BuildPort), Last(r), r))
  BY DEF BuilderAsk
<1>2. /\ Types /\ phase[u] = "start"
      /\ phase' = [phase EXCEPT ![u] = "waiting"]
      /\ UNCHANGED <<buffer, child, timers, told>>
  BY DEF IInv, BuilderAsk
<1>3. /\ r # <<>> /\ r \in Seq(Hosts) /\ Last(r) \in Hosts
      /\ r \in Seq(Names) \/ (Len(r) = 1 /\ Last(r) \in Tunnels)
  BY ConstantFacts, LastFacts
<1>4. /\ phase' \in [Users -> {"start", "waiting", "told", "failed"}]
      /\ typed' \in [Users -> Seq(Hosts)]
      /\ told' \in [Users -> Nat]
      /\ phase'[u] = "waiting" /\ typed'[u] = r
      /\ \A v \in Users : v # u => phase'[v] = phase[v] /\ typed'[v] = typed[v]
  BY <1>1, <1>2, <1>3 DEF Types
<1>5. \A v \in Users : phase[v] # "start" => phase'[v] # "start" /\ typed'[v] = typed[v]
  BY <1>2, <1>4
<1>6. \A v \in Users : UserOK(v)'
  <2> SUFFICES ASSUME NEW v \in Users PROVE UserOK(v)'
    OBVIOUS
  <2>1. CASE v = u
    BY <1>4, <2>1 DEF UserOK
  <2>2. CASE v # u
    BY <1>2, <1>4, <2>2 DEF IInv, UserOK
  <2> QED
    BY <2>1, <2>2
<1> DEFINE new == RequestTo(At(u, BuildPort), Last(r), r)
<1>7. /\ new \in Message /\ new.src = At(u, BuildPort)
      /\ new.dst = At(Last(r), KnownPort)
      /\ new.kind = "request" /\ new.route = r
  <2>1. At(u, BuildPort) \in Address
    BY ConstantFacts DEF At, Address, Hosts
  <2> QED
    BY <1>3, <2>1, RequestToFacts
<1> HIDE DEF new
<1>8. DOMAIN net' \subseteq DOMAIN net \cup {new}
  BY <1>1, PutDomain DEF new
<1>9. DOMAIN net' \subseteq Message
  BY <1>2, <1>7, <1>8 DEF Types
<1>10. ASSUME NEW d \in DOMAIN net', d \notin DOMAIN net PROVE DatagramOK(d)'
  <2>1. /\ d.src = At(u, BuildPort) /\ d.dst = At(Last(r), KnownPort)
        /\ d.kind = "request" /\ d.route = r
    BY <1>7, <1>8, <1>10
  <2>2. d.route = typed'[u] /\ phase'[u] # "start" /\ d.dst.host = Last(r)
    BY <1>4, <2>1 DEF At
  <2>3. Requested(d)'
    BY <1>3, <2>1, <2>2 DEF Requested, At, KnownPort, BuildPort, Last
  <2> QED
    BY <2>1, <2>3 DEF DatagramOK
<1> QED
  BY <1>2, <1>4, <1>5, <1>6, <1>9, <1>10, NetFrame

\* The port that a builder hears is that of a relay for the route its user typed.
LEMMA ToldPort ==
  ASSUME IInv, NEW u \in Users, NEW d \in DOMAIN net, d.dst = At(u, BuildPort), IsPort(d)
  PROVE  /\ d.port \in 1 .. Len(child)
         /\ child[d.port].phase = "relay"
         /\ child[d.port].route = typed[u]
         /\ child[d.port].their_addr = At(u, BuildPort)
<1> DEFINE s == d.port
<1>1. Types /\ Len(child) \in Nat /\ Len(child) <= MaxChildren /\ DatagramOK(d) /\ d.kind = "port"
  BY ChildTypes DEF IInv, IsPort, Types
<1>2. Home(d)
  <2>1. d.dst.port = BuildPort
    BY DEF At
  <2>2. ~Settled(d.dst)
    BY <1>1, <2>1, ConstantFacts DEF Settled
  <2> QED
    BY <1>1, <2>2 DEF DatagramOK
<1>3. /\ s \in 1 .. Len(child) /\ child[s].phase = "relay"
      /\ child[s].their_addr = At(u, BuildPort)
  BY <1>2 DEF Home
<1> HIDE DEF s
<1>4. ChildOK(s)
  BY <1>3 DEF IInv
<1>5. ~FromChild(s)
  <2> SUFFICES ASSUME NEW e \in 1 .. s - 1, child[s].their_addr = Self(e) PROVE FALSE
    BY DEF FromChild
  <2>1. e \in 1 .. Len(child)
    BY <1>1, <1>3
  <2>2. Self(e).port = e /\ e # BuildPort
    BY <1>1, <2>1, SelfFacts
  <2>3. Self(e).port = BuildPort
    BY <1>3 DEF At
  <2> QED
    BY <2>2, <2>3
<1>6. FromUser(s)
  BY <1>4, <1>5 DEF ChildOK
<1>7. Extends(child[s].route, typed[u]) /\ child[s].host = Last(typed[u])
  BY <1>3, <1>6 DEF FromUser, At
<1>8. typed[u] \in Seq(Hosts)
  BY <1>1 DEF Types
<1>9. child[s].route = typed[u]
  BY <1>3, <1>7, <1>8, NoStale
<1> QED
  BY <1>3, <1>9 DEF s

LEMMA BuilderHearInv == ASSUME IInv, NEW u \in Users, BuilderHear(u) PROVE IInv'
<1>1. PICK d \in DOMAIN net :
        /\ d.dst = At(u, BuildPort)
        /\ net' = Take(net, d)
        /\ IF IsPort(d)
             THEN phase' = [phase EXCEPT ![u] = "told"] /\ told' = [told EXCEPT ![u] = d.port]
             ELSE phase' = [phase EXCEPT ![u] = "failed"] /\ UNCHANGED told
  BY DEF BuilderHear
<1>2. /\ Types /\ phase[u] = "waiting" /\ d \in Message /\ d.port \in Nat
      /\ UNCHANGED <<buffer, child, timers, typed>>
  BY NetFacts DEF IInv, BuilderHear, Message
<1>3. /\ phase' \in [Users -> {"start", "waiting", "told", "failed"}]
      /\ typed' \in [Users -> Seq(Hosts)]
      /\ told' \in [Users -> Nat]
      /\ phase'[u] \in {"told", "failed"}
      /\ phase'[u] = "told" => IsPort(d) /\ told'[u] = d.port
      /\ \A v \in Users : v # u => phase'[v] = phase[v] /\ told'[v] = told[v]
  <2>1. CASE IsPort(d)
    BY <1>1, <1>2, <2>1 DEF Types
  <2>2. CASE ~IsPort(d)
    BY <1>1, <1>2, <2>2 DEF Types
  <2> QED
    BY <2>1, <2>2
<1>4. \A v \in Users : UserOK(v)'
  <2> SUFFICES ASSUME NEW v \in Users PROVE UserOK(v)'
    OBVIOUS
  <2>1. CASE v = u
    <3>1. IsPort(d) => /\ d.port \in 1 .. Len(child)
                       /\ child[d.port].phase = "relay"
                       /\ child[d.port].route = typed[u]
      BY <1>1, ToldPort
    <3>2. typed[u] \in Routes[u]
      BY <1>2 DEF IInv, UserOK
    <3> QED
      BY <1>2, <1>3, <2>1, <3>1, <3>2 DEF UserOK
  <2>2. CASE v # u
    BY <1>2, <1>3, <2>2 DEF IInv, UserOK
  <2> QED
    BY <2>1, <2>2
<1>5. \A v \in Users : phase[v] # "start" => phase'[v] # "start" /\ typed'[v] = typed[v]
  BY <1>2, <1>3
<1>6. DOMAIN net' \subseteq DOMAIN net
  BY <1>1, TakeDomain
<1>7. DOMAIN net' \subseteq Message
  BY <1>2, <1>6 DEF Types
<1> QED
  BY <1>2, <1>3, <1>4, <1>5, <1>6, <1>7, NetFrame

-----------------------------------------------------------------------------
\* The parents.

\* A fork adds a child.
LEMMA Forked ==
  ASSUME Types, NEW host \in Routers \cup Tunnels, NEW r \in Seq(Hosts), NEW addr \in Address,
         Fork(host, r, addr), UNCHANGED <<phase, typed>>,
         NEW new, new = Len(child) + 1
  PROVE  /\ Keeps /\ child' \in Seq(Record)
         /\ new \in Nat /\ Len(child) \in Nat /\ Len(child') = new /\ new <= MaxChildren
         /\ \A c \in 1 .. Len(child) : child'[c] = child[c]
         /\ \A c \in 1 .. Len(child') : c # new => c \in 1 .. Len(child)
         /\ child'[new].host = host /\ child'[new].phase = "new"
         /\ child'[new].route = r /\ child'[new].their_addr = addr
         /\ child'[new].relay.client = NoAddress
<1> DEFINE rec == [host |-> host, phase |-> "new", route |-> r, their_addr |-> addr,
                   relay |-> [server |-> NoAddress, client |-> NoAddress]]
<1>1. /\ child \in Seq(Record) /\ Len(child) \in Nat /\ Len(child) < MaxChildren
      /\ MaxChildren \in Nat /\ child' = Append(child, rec)
  BY ChildTypes, ConstantFacts DEF Types, Fork
<1>2. rec \in Record /\ rec.host = host /\ rec.phase = "new" /\ rec.route = r
      /\ rec.their_addr = addr /\ rec.relay.client = NoAddress
  BY DEF Record, Phase
<1> HIDE DEF rec
<1>3. /\ child' \in Seq(Record) /\ Len(child') = new
      /\ \A c \in 1 .. Len(child) : child'[c] = child[c]
      /\ child'[new] = rec
  BY <1>1, <1>2
<1>4. \A c \in 1 .. Len(child') : c # new => c \in 1 .. Len(child)
  BY <1>1, <1>3
<1>5. Keeps
  BY <1>1, <1>3 DEF Keeps
<1> QED
  BY <1>1, <1>2, <1>3, <1>4, <1>5

\* What is left to show of a fork for a request d.
LEMMA ForkFrame ==
  ASSUME IInv, NEW host \in Routers \cup Tunnels, NEW r \in Seq(Hosts), NEW d \in DOMAIN net,
         Fork(host, r, d.src), Requested(d), Extends(r, d.route),
         r # <<>>, host = Last(d.route),
         \/ host \in Routers /\ r \in Seq(Names)
         \/ host \in Tunnels /\ Len(r) = 1,
         net' = Take(net, d),
         buffer' \in [Routers -> Seq(Names)],
         Growing',
         UNCHANGED <<timers, phase, typed, told>>
  PROVE  IInv'
<1>0. PICK new : new = Len(child) + 1
  OBVIOUS
<1>1. Types /\ Len(child) \in Nat /\ d.src \in Address
  BY ChildTypes, NetFacts DEF IInv
<1>3. /\ Keeps /\ child' \in Seq(Record)
      /\ new \in Nat /\ Len(child') = new /\ new <= MaxChildren
      /\ \A c \in 1 .. Len(child) : child'[c] = child[c]
      /\ \A c \in 1 .. Len(child') : c # new => c \in 1 .. Len(child)
      /\ child'[new].host = host /\ child'[new].phase = "new"
      /\ child'[new].route = r /\ child'[new].their_addr = d.src
      /\ child'[new].relay.client = NoAddress
  BY <1>0, <1>1, Forked
<1>4. Keeps
  BY <1>3
<1>5. TimersOK'
  <2>1. /\ timers \in Seq(1 .. Len(child))
        /\ \A i, j \in 1 .. Len(timers) : timers[i] = timers[j] => i = j
        /\ \A i \in 1 .. Len(timers) :
             timers[i] \in 1 .. Len(child) /\ child[timers[i]].phase = "wait"
    BY <1>1 DEF Types, TimersOK
  <2>2. 1 .. Len(child) \subseteq 1 .. Len(child')
    BY <1>0, <1>1, <1>3
  <2>3. timers \in Seq(1 .. Len(child'))
    BY <2>1, <2>2, SeqMono
  <2> QED
    BY <1>3, <2>1, <2>3 DEF TimersOK
<1>6. DOMAIN net' \subseteq DOMAIN net
  BY TakeDomain
<1>7. Types'
  BY <1>0, <1>1, <1>3, <1>5, <1>6 DEF Types
<1>8. (FromUser(new) \/ FromChild(new))'
  <2>1. /\ child'[new].their_addr = d.src /\ child'[new].route = r
        /\ child'[new].host = host
    BY <1>3
  <2>2. CASE \E u \in Users : d.src = At(u, BuildPort) /\ phase[u] # "start" /\ d.route = typed[u]
    <3>1. PICK u \in Users : d.src = At(u, BuildPort) /\ phase[u] # "start" /\ d.route = typed[u]
      BY <2>2
    <3>2. Extends(r, typed[u]) /\ host = Last(typed[u])
      BY <3>1
    <3>3. /\ child'[new].their_addr = At(u, BuildPort) /\ phase'[u] # "start"
          /\ Extends(child'[new].route, typed'[u])
          /\ child'[new].host = Last(typed'[u])
      BY <2>1, <3>1, <3>2
    <3>4. FromUser(new)'
      BY <1>0, <1>3, <3>3 DEF FromUser, At, BuildPort, Extends, Last
    <3> QED
      BY <3>4
  <2>3. CASE \E c \in 1 .. Len(child) :
               d.src = Self(c) /\ Asks(c) /\ d.route = Front(child[c].route)
    <3>1. PICK c \in 1 .. Len(child) :
               d.src = Self(c) /\ Asks(c) /\ d.route = Front(child[c].route)
      BY <2>3
    <3>2. child'[c] = child[c] /\ Asks(c)' /\ c \in 1 .. new - 1
      BY <1>0, <1>1, <1>3, <1>4, <3>1, KeepsAsks
    <3>3. /\ child'[new].their_addr = At(child'[c].host, c)
          /\ Extends(child'[new].route, Front(child'[c].route))
          /\ child'[new].host = Last(Front(child'[c].route))
      BY <2>1, <3>1, <3>2 DEF Self
    <3>4. FromChild(new)'
      BY <1>3, <3>2, <3>3 DEF FromChild, Self, At, Extends, Last, Front
    <3> QED
      BY <3>4
  <2> QED
    BY <2>2, <2>3 DEF Requested
<1>9. ASSUME NEW c \in 1 .. Len(child') PROVE ChildOK(c)' /\ RelayOK(c)'
  <2>1. CASE c = new
    <3>2. (FromUser(c) \/ FromChild(c))'
      BY <1>8, <2>1
    <3>3. ChildOK(c)'
      BY <1>3, <2>1, <3>2 DEF ChildOK, Last
    <3>4. RelayOK(c)'
      BY <1>3, <2>1 DEF RelayOK
    <3> QED
      BY <3>3, <3>4
  <2>2. CASE c # new
    <3>1. c \in 1 .. Len(child) /\ child'[c] = child[c]
      BY <1>3, <2>2
    <3>2. ChildOK(c) /\ RelayOK(c)
      BY <3>1 DEF IInv
    <3>3. (FromUser(c) \/ FromChild(c))'
      BY <1>1, <1>4, <3>1, <3>2, KeepsFrom DEF ChildOK
    <3>4. child[c].phase \in {"sent", "wait"} => Asks(c)'
      BY <1>1, <1>4, <3>1, <3>2, KeepsAsks DEF ChildOK
    <3>5. child[c].relay.client = NoAddress \/ Settled(child[c].relay.client)'
      <4>1. ASSUME Settled(child[c].relay.client) PROVE Settled(child[c].relay.client)'
        <5>1. child[c].relay.client.port \in 1 .. Len(child) =>
                child'[child[c].relay.client.port] = child[child[c].relay.client.port]
          BY <1>3
        <5> QED
          BY <1>0, <1>1, <1>3, <3>1, <4>1, <5>1 DEF Settled, AppPort, DestPort
      <4> QED
        BY <3>2, <4>1 DEF ChildOK
    <3>6. ChildOK(c)'
      BY <3>1, <3>2, <3>3, <3>4, <3>5 DEF ChildOK, Last
    <3>7. RelayOK(c)'
      <4>1. CASE child[c].phase = "relay"
        BY <1>1, <1>4, <3>1, <3>2, <4>1, KeepsRelay
      <4>2. CASE child[c].phase # "relay"
        BY <3>1, <4>2 DEF RelayOK
      <4> QED
        BY <4>1, <4>2
    <3> QED
      BY <3>6, <3>7
  <2> QED
    BY <2>1, <2>2
<1>10. ASSUME NEW e \in DOMAIN net' PROVE DatagramOK(e)'
  <2>1. DatagramOK(e) /\ e.src \in Address /\ e.port \in Nat
    BY <1>1, <1>6 DEF IInv, Types, Message
  <2> QED
    BY <1>1, <1>4, <2>1, KeepsDatagram
<1>11. \A u \in Users : UserOK(u)'
  BY <1>1, <1>4, KeepsUser DEF IInv
<1> QED
  BY <1>7, <1>9, <1>10, <1>11 DEF IInv

\* A parent reads requests only.
LEMMA Asked ==
  ASSUME IInv, NEW host \in Routers \cup Tunnels, NEW d \in DOMAIN net,
         d.dst = At(host, KnownPort)
  PROVE  /\ Requested(d) /\ d.route # <<>> /\ Last(d.route) = host /\ d.route \in Seq(Hosts)
         /\ d.route \in Seq(Names) \/ (Len(d.route) = 1 /\ host \in Tunnels)
<1>1. DatagramOK(d) /\ d.route \in Seq(Hosts) /\ d.dst.host = host /\ d.dst.port = KnownPort
  BY NetFacts DEF IInv, At
<1>2. Requested(d)
  BY <1>1 DEF DatagramOK
<1>3. /\ d.route # <<>> /\ d.dst = At(Last(d.route), KnownPort)
      /\ d.route \in Seq(Names) \/ (Len(d.route) = 1 /\ host \in Tunnels)
  BY <1>1, <1>2 DEF Requested
<1>4. Last(d.route) = host
  BY <1>1, <1>3 DEF At
<1> QED
  BY <1>1, <1>2, <1>3, <1>4

LEMMA TunnelForkInv == ASSUME IInv, NEW t \in Tunnels, TunnelFork(t) PROVE IInv'
<1>1. PICK d \in DOMAIN net : /\ d.dst = At(t, KnownPort)
                              /\ net' = Take(net, d)
                              /\ Fork(t, d.route, d.src)
  BY DEF TunnelFork
<1> DEFINE r == d.route
<1>2. Types /\ UNCHANGED <<buffer, timers, phase, typed, told>> /\ Growing
  BY DEF IInv, TunnelFork
<1>3. /\ Requested(d) /\ r # <<>> /\ Last(r) = t /\ r \in Seq(Hosts)
      /\ r \in Seq(Names) \/ (Len(r) = 1 /\ t \in Tunnels)
  BY <1>1, Asked
<1>4. t \notin Names /\ t \notin Routers
  BY ConstantFacts
<1>5. Len(r) = 1
  <2>1. r \notin Seq(Names)
    BY <1>3, <1>4, LastFacts
  <2> QED
    BY <1>3, <2>1
<1>6. Extends(r, r)
  BY <1>3 DEF Extends
<1>7. Growing'
  <2>1. /\ Len(child) \in Nat /\ child \in Seq(Record) /\ Len(child') = Len(child) + 1
        /\ \A c \in 1 .. Len(child) : child'[c] = child[c]
        /\ child'[Len(child) + 1].host = t
    BY <1>1, <1>2, ChildTypes DEF Types, Fork
  <2>2. \A c \in 1 .. Len(child') : child'[c].host \in Routers =>
          c \in 1 .. Len(child) /\ child'[c] = child[c]
    BY <1>4, <2>1
  <2> QED
    BY <1>2, <2>2 DEF Growing, Last
<1>8. buffer' \in [Routers -> Seq(Names)]
  BY <1>2 DEF Types
<1> QED
  BY <1>1, <1>2, <1>3, <1>5, <1>6, <1>7, <1>8, ForkFrame

LEMMA RouterForkInv == ASSUME IInv, NEW host \in Routers, RouterFork(host) PROVE IInv'
<1>1. PICK d \in DOMAIN net : /\ d.dst = At(host, KnownPort)
                              /\ net' = Take(net, d)
                              /\ buffer' = [buffer EXCEPT ![host] = Received(d.route, @)]
                              /\ Fork(host, buffer'[host], d.src)
  BY DEF RouterFork
<1>2. /\ Types /\ Growing /\ UNCHANGED <<timers, phase, typed, told>>
      /\ buffer \in [Routers -> Seq(Names)]
  BY DEF IInv, RouterFork, Types
<1>3. /\ Requested(d) /\ d.route # <<>> /\ Last(d.route) = host
      /\ d.route \in Seq(Names)
  BY <1>1, Asked, ConstantFacts
<1>5. PICK r : r = Received(d.route, buffer[host])
  OBVIOUS
<1>6. /\ r \in Seq(Names) /\ Extends(r, d.route)
      /\ Len(r) >= Len(buffer[host]) /\ r # <<>>
  BY <1>2, <1>3, <1>5, ReceivedFacts
<1>7. /\ buffer' \in [Routers -> Seq(Names)] /\ buffer'[host] = r
      /\ \A q \in Routers : q # host => buffer'[q] = buffer[q]
  BY <1>1, <1>2, <1>5, <1>6
<1>8. Fork(host, r, d.src)
  BY <1>1, <1>7
<1>9. Growing'
  <2>1. /\ Len(child) \in Nat /\ child \in Seq(Record) /\ Len(child') = Len(child) + 1
        /\ \A c \in 1 .. Len(child) : child'[c] = child[c]
        /\ child'[Len(child) + 1].host = host
        /\ child'[Len(child) + 1].route = r
    BY <1>2, <1>8, ChildTypes DEF Types, Fork
  <2>2. \A c \in 1 .. Len(child') : c \in 1 .. Len(child) \/ c = Len(child) + 1
    BY <2>1
  <2>3. \A q \in Routers : Len(buffer[q]) \in Nat /\ Len(buffer'[q]) \in Nat
                           /\ Len(buffer[q]) <= Len(buffer'[q])
    <3>1. \A q \in Routers : buffer[q] \in Seq(Names) /\ buffer'[q] \in Seq(Names)
      BY <1>2, <1>7
    <3>2. \A q \in Routers : Len(buffer[q]) \in Nat /\ Len(buffer'[q]) \in Nat
      BY <3>1
    <3>3. \A q \in Routers : q # host => Len(buffer'[q]) = Len(buffer[q])
      BY <1>7
    <3>4. Len(buffer[host]) <= Len(buffer'[host])
      BY <1>6, <1>7, <3>2
    <3> QED
      BY <3>2, <3>3, <3>4
  <2>4. \A c \in 1 .. Len(child) : child[c].host \in Routers =>
          Len(child[c].route) \in Nat /\ Len(child[c].route) <= Len(buffer[child[c].host])
    BY <1>2, ChildTypes DEF Growing
  <2>5. ASSUME NEW c \in 1 .. Len(child'), child'[c].host \in Routers
        PROVE  Len(child'[c].route) <= Len(buffer'[child'[c].host])
    <3>1. CASE c \in 1 .. Len(child)
      BY <2>1, <2>3, <2>4, <2>5, <3>1
    <3>2. CASE c = Len(child) + 1
      BY <1>7, <2>1, <2>3, <3>2
    <3> QED
      BY <2>2, <3>1, <3>2
  <2>6. ASSUME NEW c \in 1 .. Len(child'), NEW e \in 1 .. Len(child'), c < e,
               child'[c].host = child'[e].host, child'[c].host \in Routers
        PROVE  Len(child'[c].route) <= Len(child'[e].route)
    <3>1. c \in 1 .. Len(child) /\ child'[c] = child[c]
      BY <2>1, <2>2, <2>6
    <3>2. CASE e \in 1 .. Len(child)
      BY <1>2, <2>1, <2>6, <3>1, <3>2 DEF Growing
    <3>3. CASE e = Len(child) + 1
      <4>1. child[c].host = host /\ child'[e].route = r
        BY <2>1, <2>6, <3>1, <3>3
      <4>2. Len(child[c].route) <= Len(buffer[host]) /\ Len(r) \in Nat
        BY <1>6, <2>4, <3>1, <4>1
      <4> QED
        BY <1>6, <2>3, <2>4, <3>1, <4>1, <4>2
    <3> QED
      BY <2>2, <3>2, <3>3
  <2> QED
    BY <2>5, <2>6 DEF Growing
<1>10. r \in Seq(Hosts)
  BY <1>6, SeqMono DEF Hosts, Names
<1> QED
  BY <1>1, <1>2, <1>3, <1>6, <1>7, <1>8, <1>9, <1>10, ForkFrame

-----------------------------------------------------------------------------
\* The invariant.

LEMMA InitInv == ASSUME Init PROVE IInv
<1>1. Len(child) = 0 /\ child = <<>> /\ timers = <<>> /\ Len(timers) = 0
  BY DEF Init
<1>2. /\ child \in Seq(Record) /\ timers \in Seq(1 .. Len(child))
      /\ <<>> \in Seq(Hosts)
  BY <1>1
<1>3. DOMAIN net = {}
  BY DEF Init, NoDatagrams
<1>4. Types
  <2>1. buffer \in [Routers -> Seq(Junk)]
    BY OverlayAssumption DEF Init
  <2>2. \A r \in Routers : buffer[r] \in Seq(Names)
    BY <2>1, SeqMono DEF Names
  <2>3. buffer \in [Routers -> Seq(Names)]
    BY <2>1, <2>2
  <2> QED
    BY <1>1, <1>2, <1>3, <2>3, ConstantFacts DEF Init, Types, TimersOK
<1>5. Growing
  BY <1>1 DEF Init, Growing
<1>6. \A u \in Users : UserOK(u)
  BY DEF Init, UserOK
<1> QED
  BY <1>1, <1>3, <1>4, <1>5, <1>6 DEF IInv

LEMMA StepInv == ASSUME IInv, [Next]_vars PROVE IInv'
<1>1. ASSUME NEW u \in Users, BuilderAsk(u) \/ BuilderHear(u) \/ AppAsk(u) \/ AppHear(u)
      PROVE  IInv'
  BY <1>1, BuilderAskInv, BuilderHearInv, AppAskInv, AppHearInv
<1>2. ASSUME NEW r \in Routers, RouterFork(r) PROVE IInv'
  BY <1>2, RouterForkInv
<1>3. ASSUME NEW t \in Tunnels, TunnelFork(t) PROVE IInv'
  BY <1>3, TunnelForkInv
<1>4. ASSUME NEW c \in 1 .. Len(child),
             \/ LastHop(c) \/ TunnelHop(c)
             \/ Forward(c) \/ Wait(c) \/ HearReply(c)
             \/ RelayOne(c)
      PROVE  IInv'
  BY <1>4, LastHopInv, TunnelHopInv, ForwardInv, WaitInv, HearReplyInv, RelayOneInv
<1>5. CASE Timeout
  BY <1>5, TimeoutInv
<1>6. CASE DestAnswer
  BY <1>6, DestAnswerInv
<1>7. CASE Lose \/ Duplicate
  BY <1>7, NetworkInv
<1>8. CASE UNCHANGED vars
  <2>1. UNCHANGED <<buffer, child, timers, phase, typed, told, net>>
    BY <1>8 DEF vars
  <2> QED
    BY <2>1, NetOnly
<1> QED
  BY <1>1, <1>2, <1>3, <1>4, <1>5, <1>6, <1>7, <1>8 DEF Next

\* The invariant holds in every state of the overlay and the tunnels.
THEOREM IInvAlways == Spec => []IInv
<1> QED
  BY InitInv, StepInv, PTL DEF Spec

\* RouteAsTyped holds in every state: a reported port belongs to a relay for
\* exactly the route its user typed, and every relay hands on to a relay for the
\* rest of its route, whatever is lost, duplicated, late, given up or left behind
\* in the routers' buffers (registration_proc and send_socket_data in
\* overlayrouter.c and tunneld.c, sendMyTunnelRequest in overlaybuild.c).
THEOREM RouteAsTypedAlways == Spec => []RouteAsTyped
<1>1. ASSUME IInv PROVE RouteAsTyped
  <2>1. \A u \in Users : UserOK(u)
    BY <1>1 DEF IInv
  <2>2. \A c \in 1 .. Len(child) : child[c].phase = "relay" =>
          HandsOn(c) /\ child[c].host = Last(child[c].route)
    BY <1>1 DEF IInv, RelayOK
  <2> QED
    BY <2>1, <2>2 DEF RouteAsTyped, UserOK
<1> QED
  BY <1>1, IInvAlways, PTL

-----------------------------------------------------------------------------
\* The way of the answers.  While no datagram was duplicated a child hears one
\* reply, so none is left over for the relay it becomes, which would take its
\* sender for the client or send it on.  Then only questions and answers reach
\* the relays, and they go up and down along the children that asked for each
\* other.

ReplyKind == {"port", "A", "-1"}

\* A child that may still be answered.
Expects(c) == child[c].phase \in {"sent", "wait", "expired"}

RequestFrom(d, c) == d.kind = "request" /\ d.src = Self(c)
AskedBy(s, c) == child[s].their_addr = Self(c)
ReplyTo(d, c) == d.kind \in ReplyKind /\ d.dst = Self(c)

\* Of the request of a child, the child forked for it before it is final and the
\* reply to it there is one at most, and only while the reply may be heard.
OneAnswer ==
  /\ \A c \in 1 .. Len(child) :
       /\ \A s, q \in 1 .. Len(child) : AskedBy(s, c) /\ AskedBy(q, c) => s = q
       /\ \A s \in 1 .. Len(child) :
            AskedBy(s, c) /\ child[s].phase \notin Final => Expects(c)
       /\ \A d \in DOMAIN net : RequestFrom(d, c) =>
            /\ Expects(c) /\ net[d] = 1
            /\ \A s \in 1 .. Len(child) : ~AskedBy(s, c)
            /\ \A e \in DOMAIN net : ~ReplyTo(e, c) /\ (RequestFrom(e, c) => e = d)
       /\ \A d \in DOMAIN net : ReplyTo(d, c) =>
            /\ Expects(c) /\ net[d] = 1
            /\ \A s \in 1 .. Len(child) : AskedBy(s, c) => child[s].phase \in Final
            /\ \A e \in DOMAIN net : ReplyTo(e, c) => e = d
  /\ \A d \in DOMAIN net :
       d.kind \in ReplyKind => d.dst.port \in 1 .. Len(child) \cup {BuildPort}

\* owner is the user for whom each child was forked.
Owned(owner, c) ==
  \/ child[c].their_addr = At(owner[c], BuildPort)
  \/ \E p \in 1 .. c - 1 : child[c].their_addr = Self(p) /\ owner[p] = owner[c]

\* A relay's server is a relay that it asked for itself, and its client the
\* application of its user or the relay that asked for it.
ServerOK(c) ==
  child[c].phase = "relay" =>
    \/ child[c].relay.server = DestAt
    \/ \E s \in c + 1 .. Len(child) : /\ child[c].relay.server = Self(s)
                                      /\ child[s].phase = "relay"
                                      /\ child[s].their_addr = Self(c)

ClientOK(owner, c) ==
  \/ child[c].relay.client = NoAddress
  \/ /\ child[c].relay.client = At(owner[c], AppPort)
     /\ child[c].their_addr = At(owner[c], BuildPort)
  \/ \E p \in 1 .. c - 1 : /\ child[c].relay.client = Self(p)
                           /\ child[p].phase = "relay"
                           /\ child[p].relay.server = Self(c)
                           /\ child[p].relay.client # NoAddress

\* Relay c has heard its client and carries datagrams of the user of d.
Sends(owner, c, d) ==
  /\ child[c].phase = "relay"
  /\ child[c].relay.client # NoAddress
  /\ owner[c] = d.user

\* A question goes from the application or a relay to the next relay.
AskOK(owner, d) ==
  \/ /\ d.src = At(d.user, AppPort)
     /\ \E c \in 1 .. Len(child) : /\ d.dst = Self(c)
                                   /\ child[c].phase = "relay"
                                   /\ child[c].their_addr = At(d.user, BuildPort)
  \/ \E p \in 1 .. Len(child) : /\ Sends(owner, p, d)
                                /\ d.src = Self(p)
                                /\ d.dst = child[p].relay.server

\* An answer comes back.
AnswerOK(owner, d) ==
  \/ d.dst = At(d.user, AppPort)
  \/ \E p \in 1 .. Len(child) : /\ Sends(owner, p, d)
                                /\ d.dst = Self(p)
                                /\ d.src = child[p].relay.server

Lanes(owner) ==
  /\ \A c \in 1 .. Len(child) : Owned(owner, c) /\ ServerOK(c) /\ ClientOK(owner, c)
  /\ \A d \in DOMAIN net : /\ d.kind = "ask" => AskOK(owner, d)
                           /\ d.kind = "answer" => AnswerOK(owner, d)
  /\ \A u \in Users : phase[u] = "told" => child[told[u]].their_addr = At(u, BuildPort)

LEMMA KeepsAddress ==
  ASSUME Types, Keeps, NEW c \in 1 .. Len(child)
  PROVE  /\ c \in 1 .. Len(child') /\ c \in Nat
         /\ Len(child) \in Nat /\ Len(child') \in Nat /\ Len(child) <= Len(child')
         /\ Self(c)' = Self(c)
         /\ child'[c].their_addr = child[c].their_addr
         /\ child[c].phase \in Final => child'[c].phase = child[c].phase
         /\ child[c].phase = "relay" => child'[c].relay.server = child[c].relay.server
<1>1. Len(child) \in Nat /\ Len(child') \in Nat
  BY ChildTypes DEF Keeps
<1> QED
  BY <1>1 DEF Keeps, Self

LEMMA KeepsOwned ==
  ASSUME Types, Keeps, NEW old, NEW owner, NEW c \in 1 .. Len(child),
         \A e \in 1 .. Len(child) : owner[e] = old[e], Owned(old, c)
  PROVE  Owned(owner, c)'
<1>1. child'[c].their_addr = child[c].their_addr /\ owner[c] = old[c]
  BY KeepsAddress
<1>2. CASE child[c].their_addr = At(old[c], BuildPort)
  BY <1>1, <1>2 DEF Owned, At, BuildPort
<1>3. CASE \E p \in 1 .. c - 1 : child[c].their_addr = Self(p) /\ old[p] = old[c]
  <2>1. PICK p \in 1 .. c - 1 : child[c].their_addr = Self(p) /\ old[p] = old[c]
    BY <1>3
  <2>2. p \in 1 .. Len(child)
    BY KeepsAddress
  <2>3. Self(p)' = Self(p) /\ owner[p] = old[p]
    BY <2>2, KeepsAddress
  <2> QED
    BY <1>1, <2>1, <2>3 DEF Owned
<1> QED
  BY <1>2, <1>3 DEF Owned

LEMMA KeepsServer ==
  ASSUME Types, Keeps, NEW c \in 1 .. Len(child), child[c].phase = "relay", ServerOK(c)
  PROVE  ServerOK(c)'
<1>1. child'[c].relay.server = child[c].relay.server /\ Self(c)' = Self(c)
  BY KeepsAddress
<1>2. CASE child[c].relay.server = DestAt
  BY <1>1, <1>2 DEF ServerOK, DestAt, At, DestPort
<1>3. CASE child[c].relay.server # DestAt
  <2>1. PICK s \in c + 1 .. Len(child) : /\ child[c].relay.server = Self(s)
                                         /\ child[s].phase = "relay"
                                         /\ child[s].their_addr = Self(c)
    BY <1>3 DEF ServerOK
  <2>2. s \in 1 .. Len(child) /\ s \in c + 1 .. Len(child')
    BY KeepsAddress
  <2>3. Self(s)' = Self(s) /\ child'[s].phase = "relay" /\ child'[s].their_addr = Self(c)
    BY <2>1, <2>2, KeepsAddress DEF Final
  <2> QED
    BY <1>1, <2>1, <2>2, <2>3 DEF ServerOK
<1> QED
  BY <1>2, <1>3

\* No relay forgets its client.
KeepsClients ==
  \A c \in 1 .. Len(child) :
    child[c].relay.client # NoAddress => child'[c].relay.client = child[c].relay.client

LEMMA KeepsClient ==
  ASSUME Types, Keeps, KeepsClients, NEW old, NEW owner, NEW c \in 1 .. Len(child),
         \A e \in 1 .. Len(child) : owner[e] = old[e], ClientOK(old, c),
         child'[c].relay.client = child[c].relay.client
  PROVE  ClientOK(owner, c)'
<1>1. child'[c].their_addr = child[c].their_addr /\ owner[c] = old[c] /\ Self(c)' = Self(c)
  BY KeepsAddress
<1>2. CASE child[c].relay.client = NoAddress
  BY <1>2 DEF ClientOK
<1>3. CASE /\ child[c].relay.client = At(old[c], AppPort)
           /\ child[c].their_addr = At(old[c], BuildPort)
  BY <1>1, <1>3 DEF ClientOK, At, AppPort, BuildPort
<1>4. CASE \E p \in 1 .. c - 1 : /\ child[c].relay.client = Self(p)
                                 /\ child[p].phase = "relay"
                                 /\ child[p].relay.server = Self(c)
                                 /\ child[p].relay.client # NoAddress
  <2>1. PICK p \in 1 .. c - 1 : /\ child[c].relay.client = Self(p)
                                /\ child[p].phase = "relay"
                                /\ child[p].relay.server = Self(c)
                                /\ child[p].relay.client # NoAddress
    BY <1>4
  <2>2. p \in 1 .. Len(child)
    BY KeepsAddress
  <2>3. /\ Self(p)' = Self(p) /\ child'[p].phase = "relay"
        /\ child'[p].relay.server = child[p].relay.server
        /\ child'[p].relay.client # NoAddress
    BY <2>1, <2>2, KeepsAddress DEF Final, KeepsClients
  <2> QED
    BY <1>1, <2>1, <2>3 DEF ClientOK
<1> QED
  BY <1>2, <1>3, <1>4 DEF ClientOK

LEMMA KeepsSends ==
  ASSUME Types, Keeps, KeepsClients, NEW old, NEW owner, NEW p \in 1 .. Len(child),
         \A e \in 1 .. Len(child) : owner[e] = old[e], NEW d, Sends(old, p, d)
  PROVE  Sends(owner, p, d)'
BY KeepsAddress DEF Sends, KeepsClients, Final

LEMMA KeepsAsk ==
  ASSUME Types, Keeps, KeepsClients, NEW old, NEW owner,
         \A e \in 1 .. Len(child) : owner[e] = old[e], NEW d, AskOK(old, d)
  PROVE  AskOK(owner, d)'
<1>1. CASE /\ d.src = At(d.user, AppPort)
           /\ \E c \in 1 .. Len(child) : /\ d.dst = Self(c)
                                         /\ child[c].phase = "relay"
                                         /\ child[c].their_addr = At(d.user, BuildPort)
  <2>1. PICK c \in 1 .. Len(child) : /\ d.dst = Self(c)
                                     /\ child[c].phase = "relay"
                                     /\ child[c].their_addr = At(d.user, BuildPort)
    BY <1>1
  <2>2. /\ c \in 1 .. Len(child') /\ Self(c)' = Self(c) /\ child'[c].phase = "relay"
        /\ child'[c].their_addr = child[c].their_addr
    BY <2>1, KeepsAddress DEF Final
  <2> QED
    BY <1>1, <2>1, <2>2 DEF AskOK, At, AppPort, BuildPort
<1>2. CASE \E p \in 1 .. Len(child) : /\ Sends(old, p, d)
                                      /\ d.src = Self(p)
                                      /\ d.dst = child[p].relay.server
  <2>1. PICK p \in 1 .. Len(child) : /\ Sends(old, p, d)
                                     /\ d.src = Self(p)
                                     /\ d.dst = child[p].relay.server
    BY <1>2
  <2>2. Sends(owner, p, d)' /\ child[p].phase = "relay"
    BY <2>1, KeepsSends DEF Sends
  <2>3. /\ p \in 1 .. Len(child') /\ Self(p)' = Self(p)
        /\ child'[p].relay.server = child[p].relay.server
    BY <2>2, KeepsAddress
  <2> QED
    BY <2>1, <2>2, <2>3 DEF AskOK
<1> QED
  BY <1>1, <1>2 DEF AskOK

LEMMA KeepsAnswer ==
  ASSUME Types, Keeps, KeepsClients, NEW old, NEW owner,
         \A e \in 1 .. Len(child) : owner[e] = old[e], NEW d, AnswerOK(old, d)
  PROVE  AnswerOK(owner, d)'
<1>1. CASE d.dst = At(d.user, AppPort)
  BY <1>1 DEF AnswerOK, At, AppPort
<1>2. CASE \E p \in 1 .. Len(child) : /\ Sends(old, p, d)
                                      /\ d.dst = Self(p)
                                      /\ d.src = child[p].relay.server
  <2>1. PICK p \in 1 .. Len(child) : /\ Sends(old, p, d)
                                     /\ d.dst = Self(p)
                                     /\ d.src = child[p].relay.server
    BY <1>2
  <2>2. Sends(owner, p, d)' /\ child[p].phase = "relay"
    BY <2>1, KeepsSends DEF Sends
  <2>3. /\ p \in 1 .. Len(child') /\ Self(p)' = Self(p)
        /\ child'[p].relay.server = child[p].relay.server
    BY <2>2, KeepsAddress
  <2> QED
    BY <2>1, <2>2, <2>3 DEF AnswerOK
<1> QED
  BY <1>1, <1>2 DEF AnswerOK

LEMMA KeepsTold ==
  ASSUME IInv, Keeps, NEW u \in Users, phase[u] = "told",
         child[told[u]].their_addr = At(u, BuildPort), told'[u] = told[u]
  PROVE  child'[told'[u]].their_addr = At(u, BuildPort)'
<1>1. Types /\ told[u] \in 1 .. Len(child)
  BY DEF IInv, UserOK
<1> QED
  BY <1>1, KeepsAddress DEF At, BuildPort

-----------------------------------------------------------------------------
\* One answer to every request.

\* Nothing became more of datagram d.
Quiet(d) == d \in DOMAIN net /\ (net[d] = 1 => net'[d] = 1)

LEMMA QuietFacts ==
  ASSUME NEW n, NEW d
  PROVE  /\ \A e \in DOMAIN Take(n, d) :
              e \in DOMAIN n /\ (n[e] = 1 => Take(n, d)[e] = 1 /\ e # d)
         /\ \A e \in DOMAIN Put(n, d) :
              \/ e \in DOMAIN n /\ Put(n, d)[e] = n[e]
              \/ e = d /\ (d \notin DOMAIN n => Put(n, d)[e] = 1)
<1>1. ~(1 > 1)
  OBVIOUS
<1> QED
  BY <1>1 DEF Take, Put

\* Whoever asked for child c does not ask twice.
LEMMA Asker ==
  ASSUME IInv, NEW c \in 1 .. Len(child)
  PROVE  \/ child[c].their_addr.port = BuildPort
         \/ \E p \in 1 .. c - 1 : p \in 1 .. Len(child) /\ AskedBy(c, p) /\ Asks(p)
<1>1. Types /\ ChildOK(c) /\ Len(child) \in Nat
  BY ChildTypes DEF IInv
<1>2. CASE FromUser(c)
  BY <1>2 DEF FromUser, At
<1>3. CASE FromChild(c)
  BY <1>1, <1>3 DEF FromChild, AskedBy
<1> QED
  BY <1>1, <1>2, <1>3 DEF ChildOK

LEMMA SameSelf ==
  ASSUME NEW c, NEW e, Self(c) = Self(e)
  PROVE  c = e
BY DEF Self, At

\* A child that has not asked is owed nothing.
LEMMA Fresh ==
  ASSUME IInv, OneAnswer, NEW c \in 1 .. Len(child), child[c].phase = "new"
  PROVE  /\ \A e \in DOMAIN net : ~RequestFrom(e, c) /\ ~ReplyTo(e, c)
         /\ \A s \in 1 .. Len(child) : ~AskedBy(s, c)
<1>1. Types /\ ~Expects(c)
  BY DEF IInv, Expects
<1>2. ASSUME NEW s \in 1 .. Len(child), AskedBy(s, c) PROVE FALSE
  <2>1. child[s].their_addr.port # BuildPort
    BY <1>1, <1>2, SelfFacts DEF AskedBy
  <2>2. PICK p \in 1 .. s - 1 : p \in 1 .. Len(child) /\ AskedBy(s, p) /\ Asks(p)
    BY <2>1, Asker
  <2>3. p = c
    BY <1>2, <2>2, SameSelf DEF AskedBy
  <2> QED
    BY <2>2, <2>3 DEF Asks
<1> QED
  BY <1>1, <1>2 DEF OneAnswer

\* No child is closed to the replies it may get, and no datagram is new but one
\* that is neither a request of a child nor a reply, or is the first request of
\* child c, or its first reply to the one who asked for it.
LEMMA AnswerFrame ==
  ASSUME IInv, OneAnswer, Keeps, Len(child') = Len(child),
         \A b \in 1 .. Len(child) : Expects(b) =>
           \/ Expects(b)'
           \/ /\ \A e \in DOMAIN net' : ~RequestFrom(e, b) /\ ~ReplyTo(e, b)
              /\ \A s \in 1 .. Len(child) : AskedBy(s, b) => child[s].phase \in Final,
         NEW new,
         \A e \in DOMAIN net' : Quiet(e) \/ e = new,
         \/ new \notin DOMAIN net'
         \/ new.kind \in {"ask", "answer"}
         \/ new.kind = "request" /\ new.src.port = BuildPort
         \/ \E c \in 1 .. Len(child) :
              /\ new.kind = "request" /\ new.src = Self(c)
              /\ child[c].phase = "new" /\ Expects(c)'
              /\ new \notin DOMAIN net => net'[new] = 1
         \/ \E c \in 1 .. Len(child) :
              /\ new.kind \in ReplyKind /\ new.dst = child[c].their_addr
              /\ child[c].phase \notin Final /\ child'[c].phase \in Final
              /\ new \notin DOMAIN net => net'[new] = 1
  PROVE  OneAnswer'
<1>1. /\ Types /\ Len(child) \in Nat
      /\ \A c \in 1 .. Len(child) :
           /\ Self(c)' = Self(c) /\ child'[c].their_addr = child[c].their_addr
           /\ child[c].phase \in Final => child'[c].phase \in Final
           /\ c \in Nat /\ Self(c).port = c /\ c # BuildPort
  BY KeepsAddress, ChildTypes, SelfFacts DEF IInv
<1>2. \A s, c \in 1 .. Len(child) : AskedBy(s, c)' <=> AskedBy(s, c)
  BY <1>1 DEF AskedBy
<1>3. \A d : \A c \in 1 .. Len(child) :
        /\ RequestFrom(d, c)' <=> RequestFrom(d, c)
        /\ ReplyTo(d, c)' <=> ReplyTo(d, c)
  BY <1>1 DEF RequestFrom, ReplyTo, ReplyKind
<1>4. ASSUME NEW d \in DOMAIN net', NEW c \in 1 .. Len(child), RequestFrom(d, c), ~Quiet(d)
      PROVE  /\ Expects(c)' /\ net'[d] = 1
             /\ \A s \in 1 .. Len(child) : ~AskedBy(s, c)
             /\ \A e \in DOMAIN net : ~ReplyTo(e, c) /\ ~RequestFrom(e, c)
  <2>1. d = new /\ d.kind = "request" /\ d.src = Self(c) /\ d.src.port # BuildPort
    BY <1>1, <1>4 DEF RequestFrom
  <2>2. PICK e \in 1 .. Len(child) :
              /\ new.src = Self(e)
              /\ child[e].phase = "new" /\ Expects(e)'
              /\ new \notin DOMAIN net => net'[new] = 1
    BY <1>4, <2>1 DEF ReplyKind
  <2>3. e = c
    BY <2>1, <2>2, SameSelf
  <2>4. /\ \A s \in 1 .. Len(child) : ~AskedBy(s, c)
        /\ \A f \in DOMAIN net : ~ReplyTo(f, c) /\ ~RequestFrom(f, c)
    BY <2>2, <2>3, Fresh
  <2> QED
    BY <1>4, <2>1, <2>2, <2>3, <2>4
<1>5. ASSUME NEW d \in DOMAIN net', NEW p \in 1 .. Len(child), ReplyTo(d, p), ~Quiet(d)
      PROVE  /\ Expects(p) /\ net'[d] = 1
             /\ \A s \in 1 .. Len(child) : AskedBy(s, p) =>
                  child[s].phase \notin Final /\ child'[s].phase \in Final
             /\ \A e \in DOMAIN net : ~ReplyTo(e, p) /\ ~RequestFrom(e, p)
  <2>1. d = new /\ d.kind \in ReplyKind /\ d.dst = Self(p)
    BY <1>5 DEF ReplyTo
  <2>2. PICK c \in 1 .. Len(child) :
              /\ new.dst = child[c].their_addr
              /\ child[c].phase \notin Final /\ child'[c].phase \in Final
              /\ new \notin DOMAIN net => net'[new] = 1
    BY <1>5, <2>1 DEF ReplyKind
  <2>3. AskedBy(c, p)
    BY <2>1, <2>2 DEF AskedBy
  <2>4. Expects(p) /\ \A s \in 1 .. Len(child) : AskedBy(s, p) => s = c
    BY <2>2, <2>3 DEF OneAnswer
  <2>5. \A e \in DOMAIN net : ~ReplyTo(e, p) /\ ~RequestFrom(e, p)
    BY <2>2, <2>3 DEF OneAnswer
  <2>6. net'[d] = 1
    BY <1>5, <2>1, <2>2, <2>5
  <2> QED
    BY <2>2, <2>4, <2>5, <2>6
<1>6. ASSUME NEW p \in 1 .. Len(child),
             \/ \E d \in DOMAIN net' : RequestFrom(d, p) \/ ReplyTo(d, p)
             \/ \E s \in 1 .. Len(child) : AskedBy(s, p) /\ child'[s].phase \notin Final
      PROVE  Expects(p)'
  <2>1. ASSUME NEW d \in DOMAIN net', RequestFrom(d, p), ~Quiet(d) PROVE Expects(p)'
    BY <1>4, <2>1
  <2>2. ASSUME Expects(p) PROVE Expects(p)'
    BY <1>1, <1>6, <2>2
  <2>3. CASE \E d \in DOMAIN net' : RequestFrom(d, p)
    BY <2>1, <2>2, <2>3 DEF OneAnswer, Quiet
  <2>4. CASE \E d \in DOMAIN net' : ReplyTo(d, p)
    BY <1>5, <2>2, <2>4 DEF OneAnswer, Quiet
  <2>5. CASE \E s \in 1 .. Len(child) : AskedBy(s, p) /\ child'[s].phase \notin Final
    BY <1>1, <2>2, <2>5 DEF OneAnswer
  <2> QED
    BY <1>6, <2>3, <2>4, <2>5
<1>7. ASSUME NEW c \in 1 .. Len(child), NEW d \in DOMAIN net', RequestFrom(d, c)
      PROVE  /\ net'[d] = 1
             /\ \A s \in 1 .. Len(child) : ~AskedBy(s, c)
             /\ \A e \in DOMAIN net' : ~ReplyTo(e, c) /\ (RequestFrom(e, c) => e = d)
  <2>1. CASE Quiet(d)
    <3>1. d \in DOMAIN net /\ net'[d] = 1 /\ \A s \in 1 .. Len(child) : ~AskedBy(s, c)
      BY <1>7, <2>1 DEF Quiet, OneAnswer
    <3>2. ASSUME NEW e \in DOMAIN net', RequestFrom(e, c) PROVE e = d
      <4>1. Quiet(e)
        BY <1>4, <1>7, <3>1, <3>2
      <4> QED
        BY <1>7, <3>1, <3>2, <4>1 DEF Quiet, OneAnswer
    <3>3. ASSUME NEW e \in DOMAIN net', ReplyTo(e, c) PROVE FALSE
      <4>1. Quiet(e)
        BY <1>5, <1>7, <3>1, <3>3
      <4> QED
        BY <1>7, <3>1, <3>3, <4>1 DEF Quiet, OneAnswer
    <3> QED
      BY <3>1, <3>2, <3>3
  <2>2. CASE ~Quiet(d)
    <3>1. /\ net'[d] = 1 /\ \A s \in 1 .. Len(child) : ~AskedBy(s, c)
          /\ \A e \in DOMAIN net : ~ReplyTo(e, c) /\ ~RequestFrom(e, c)
      BY <1>4, <1>7, <2>2
    <3>2. ASSUME NEW e \in DOMAIN net' PROVE ~ReplyTo(e, c) /\ (RequestFrom(e, c) => e = d)
      BY <1>7, <2>2, <3>1, <3>2 DEF Quiet, RequestFrom, ReplyTo, ReplyKind
    <3> QED
      BY <3>1, <3>2
  <2> QED
    BY <2>1, <2>2
<1>8. ASSUME NEW c \in 1 .. Len(child), NEW d \in DOMAIN net', ReplyTo(d, c)
      PROVE  /\ net'[d] = 1
             /\ \A s \in 1 .. Len(child) : AskedBy(s, c) => child'[s].phase \in Final
             /\ \A e \in DOMAIN net' : ReplyTo(e, c) => e = d
  <2>1. CASE Quiet(d)
    <3>1. /\ net'[d] = 1
          /\ \A s \in 1 .. Len(child) : AskedBy(s, c) => child'[s].phase \in Final
      BY <1>1, <1>8, <2>1 DEF Quiet, OneAnswer
    <3>2. ASSUME NEW e \in DOMAIN net', ReplyTo(e, c) PROVE e = d
      <4>1. Quiet(e)
        BY <1>5, <1>8, <2>1, <3>2 DEF Quiet
      <4> QED
        BY <1>8, <2>1, <3>2, <4>1 DEF Quiet, OneAnswer
    <3> QED
      BY <3>1, <3>2
  <2>2. CASE ~Quiet(d)
    <3>1. /\ net'[d] = 1
          /\ \A s \in 1 .. Len(child) : AskedBy(s, c) => child'[s].phase \in Final
          /\ \A e \in DOMAIN net : ~ReplyTo(e, c)
      BY <1>5, <1>8, <2>2
    <3>2. ASSUME NEW e \in DOMAIN net', ReplyTo(e, c) PROVE e = d
      BY <2>2, <3>1, <3>2 DEF Quiet
    <3> QED
      BY <3>1, <3>2
  <2> QED
    BY <2>1, <2>2
<1>9. ASSUME NEW d \in DOMAIN net', d.kind \in ReplyKind
      PROVE  d.dst.port \in 1 .. Len(child) \cup {BuildPort}
  <2>1. CASE Quiet(d)
    BY <1>9, <2>1 DEF Quiet, OneAnswer
  <2>2. CASE ~Quiet(d)
    <3>1. PICK c \in 1 .. Len(child) : d.dst = child[c].their_addr
      BY <1>9, <2>2 DEF ReplyKind
    <3> QED
      BY <1>1, <3>1, Asker DEF AskedBy
  <2> QED
    BY <2>1, <2>2
<1>10. \A s, q, c \in 1 .. Len(child) : AskedBy(s, c) /\ AskedBy(q, c) => s = q
  BY DEF OneAnswer
<1> QED
  BY <1>2, <1>3, <1>6, <1>7, <1>8, <1>9, <1>10 DEF OneAnswer, BuildPort, ReplyKind, Final

LEMMA RequestedBy ==
  ASSUME NEW d, Requested(d)
  PROVE  \/ d.src.port = BuildPort
         \/ \E c \in 1 .. Len(child) : d.src = Self(c)
<1>1. CASE \E u \in Users : d.src = At(u, BuildPort)
  BY <1>1 DEF At
<1>2. CASE \E c \in 1 .. Len(child) : d.src = Self(c)
  BY <1>2
<1> QED
  BY <1>1, <1>2 DEF Requested

\* The child forked for a request is owed nothing, and is the only one the request
\* is answered by.
LEMMA ForkAnswer ==
  ASSUME IInv, OneAnswer, NEW host \in Routers \cup Tunnels, NEW r \in Seq(Hosts),
         NEW d \in DOMAIN net, Fork(host, r, d.src), d.kind = "request", Requested(d),
         net' = Take(net, d), UNCHANGED <<phase, typed>>
  PROVE  OneAnswer'
<1>0. PICK new : new = Len(child) + 1
  OBVIOUS
<1>1. /\ Types /\ d.src \in Address /\ Len(child) \in Nat
      /\ \A c \in 1 .. Len(child) : c # BuildPort /\ Self(c).port = c
  BY ChildTypes, NetFacts, SelfFacts DEF IInv
<1>2. /\ Keeps /\ new \in Nat /\ Len(child') = new
      /\ \A c \in 1 .. Len(child) : child'[c] = child[c]
      /\ \A c \in 1 .. Len(child') : c # new => c \in 1 .. Len(child)
      /\ child'[new].their_addr = d.src
      /\ new <= MaxChildren
  BY <1>0, <1>1, Forked
<1>3. \A c \in 1 .. Len(child) : /\ Self(c)' = Self(c)
                                 /\ Expects(c)' <=> Expects(c)
  BY <1>2 DEF Self, Expects
<1>4. /\ new # BuildPort /\ Self(new)'.port = new
      /\ \A c \in 1 .. Len(child) : c # new
  BY <1>0, <1>1, <1>2, ConstantFacts DEF Self, At
<1>5. \A e \in DOMAIN net' : e \in DOMAIN net /\ (net[e] = 1 => net'[e] = 1 /\ e # d)
  BY QuietFacts
\* The one who asked.
<1>6. \/ d.src.port = BuildPort
      \/ \E p \in 1 .. Len(child) : RequestFrom(d, p)
  BY RequestedBy DEF RequestFrom
<1>7. \A s \in 1 .. Len(child) : ~AskedBy(s, new)'
  <2> SUFFICES ASSUME NEW s \in 1 .. Len(child), AskedBy(s, new)' PROVE FALSE
    OBVIOUS
  <2>1. child[s].their_addr.port = new
    BY <1>2, <1>4 DEF AskedBy
  <2>2. PICK p \in 1 .. s - 1 : p \in 1 .. Len(child) /\ AskedBy(s, p)
    BY <1>4, <2>1, Asker
  <2> QED
    BY <1>1, <1>4, <2>1, <2>2 DEF AskedBy
<1>8. ~AskedBy(new, new)'
  BY <1>1, <1>2, <1>4, <1>6 DEF AskedBy, RequestFrom
<1>9. \A e \in DOMAIN net' : ~RequestFrom(e, new)' /\ ~ReplyTo(e, new)'
  <2> SUFFICES ASSUME NEW e \in DOMAIN net', RequestFrom(e, new)' \/ ReplyTo(e, new)' PROVE FALSE
    OBVIOUS
  <2>1. CASE RequestFrom(e, new)'
    <3>1. Requested(e) /\ e.src.port = new
      BY <1>4, <1>5, <2>1 DEF RequestFrom, IInv, DatagramOK
    <3>2. \/ e.src.port = BuildPort
          \/ \E p \in 1 .. Len(child) : e.src = Self(p)
      BY <3>1, RequestedBy
    <3> QED
      BY <1>1, <1>4, <3>1, <3>2
  <2>2. CASE ReplyTo(e, new)'
    <3>1. e.dst.port = new /\ e.kind \in ReplyKind
      BY <1>4, <2>2 DEF ReplyTo, ReplyKind
    <3>2. e.dst.port \in 1 .. Len(child) \cup {BuildPort}
      BY <1>5, <3>1 DEF OneAnswer
    <3> QED
      BY <1>4, <3>1, <3>2
  <2> QED
    BY <2>1, <2>2
<1>10. ASSUME NEW c \in 1 .. Len(child)
       PROVE  /\ \A s \in 1 .. Len(child) : AskedBy(s, c)' <=> AskedBy(s, c)
              /\ \A e : /\ RequestFrom(e, c)' <=> RequestFrom(e, c)
                        /\ ReplyTo(e, c)' <=> ReplyTo(e, c)
              /\ AskedBy(new, c)' => RequestFrom(d, c)
  BY <1>2, <1>3 DEF AskedBy, RequestFrom, ReplyTo, ReplyKind
<1>11. ASSUME NEW c \in 1 .. Len(child), AskedBy(new, c)'
       PROVE  /\ Expects(c)
              /\ \A s \in 1 .. Len(child) : ~AskedBy(s, c)
              /\ \A e \in DOMAIN net' : ~RequestFrom(e, c) /\ ~ReplyTo(e, c)
  <2>1. RequestFrom(d, c)
    BY <1>10, <1>11
  <2> QED
    BY <1>5, <2>1 DEF OneAnswer
<1>12. ASSUME NEW c \in 1 .. Len(child'), NEW s \in 1 .. Len(child'), AskedBy(s, c)'
       PROVE  /\ c \in 1 .. Len(child)
              /\ child'[s].phase \notin Final => Expects(c)'
              /\ \A q \in 1 .. Len(child') : AskedBy(q, c)' => s = q
              /\ \A e \in DOMAIN net' : ~RequestFrom(e, c)'
              /\ \A e \in DOMAIN net' : ReplyTo(e, c)' => child'[s].phase \in Final
  <2>1. c \in 1 .. Len(child)
    BY <1>2, <1>7, <1>8, <1>12
  <2>2. CASE s = new
    <3>1. /\ Expects(c)
          /\ \A q \in 1 .. Len(child) : ~AskedBy(q, c)
          /\ \A e \in DOMAIN net' : ~RequestFrom(e, c) /\ ~ReplyTo(e, c)
      BY <1>11, <1>12, <2>1, <2>2
    <3> QED
      BY <1>2, <1>3, <1>10, <2>1, <2>2, <3>1
  <2>3. CASE s # new
    <3>1. s \in 1 .. Len(child) /\ AskedBy(s, c) /\ child'[s] = child[s]
      BY <1>2, <1>10, <1>12, <2>1, <2>3
    <3>2. \A q \in 1 .. Len(child') : AskedBy(q, c)' => s = q
      BY <1>2, <1>10, <1>11, <2>1, <3>1 DEF OneAnswer
    <3>3. \A e \in DOMAIN net' : ~RequestFrom(e, c)'
      BY <1>5, <1>10, <2>1, <3>1 DEF OneAnswer
    <3>4. \A e \in DOMAIN net' : ReplyTo(e, c)' => child'[s].phase \in Final
      BY <1>5, <1>10, <2>1, <3>1 DEF OneAnswer
    <3> QED
      BY <1>3, <2>1, <3>1, <3>2, <3>3, <3>4 DEF OneAnswer
  <2> QED
    BY <2>2, <2>3
<1>13. ASSUME NEW c \in 1 .. Len(child'), NEW e \in DOMAIN net', RequestFrom(e, c)'
       PROVE  /\ Expects(c)' /\ net'[e] = 1
              /\ \A f \in DOMAIN net' : ~ReplyTo(f, c)' /\ (RequestFrom(f, c)' => f = e)
  <2>1. c \in 1 .. Len(child) /\ RequestFrom(e, c)
    BY <1>2, <1>9, <1>10, <1>13
  <2> QED
    BY <1>3, <1>5, <1>10, <2>1 DEF OneAnswer
<1>14. ASSUME NEW c \in 1 .. Len(child'), NEW e \in DOMAIN net', ReplyTo(e, c)'
       PROVE  /\ Expects(c)' /\ net'[e] = 1
              /\ \A f \in DOMAIN net' : ReplyTo(f, c)' => f = e
  <2>1. c \in 1 .. Len(child) /\ ReplyTo(e, c)
    BY <1>2, <1>9, <1>10, <1>14
  <2> QED
    BY <1>3, <1>5, <1>10, <2>1 DEF OneAnswer
<1>15. \A e \in DOMAIN net' :
         e.kind \in ReplyKind => e.dst.port \in 1 .. Len(child') \cup {BuildPort}
  BY <1>0, <1>1, <1>2, <1>5 DEF OneAnswer
<1> QED
  BY ONLY <1>12, <1>13, <1>14, <1>15 DEF OneAnswer, BuildPort, ReplyKind, Final

-----------------------------------------------------------------------------
\* The way of the questions and answers.

LEMMA LanesFrame ==
  ASSUME IInv, Keeps, KeepsClients, Len(child') = Len(child), NEW owner, Lanes(owner),
         \A c \in 1 .. Len(child) :
           child[c].phase # "relay" /\ child'[c].phase = "relay" => ServerOK(c)',
         \A c \in 1 .. Len(child) :
           child'[c].relay.client = child[c].relay.client \/ ClientOK(owner, c)',
         \A d \in DOMAIN net' :
           d \in DOMAIN net \/ (/\ d.kind = "ask" => AskOK(owner, d)'
                                /\ d.kind = "answer" => AnswerOK(owner, d)'),
         \A u \in Users : phase'[u] = "told" =>
           \/ phase[u] = "told" /\ told'[u] = told[u]
           \/ child'[told'[u]].their_addr = At(u, BuildPort)'
  PROVE  Lanes(owner)'
<1>1. Types /\ \A c \in 1 .. Len(child) : Owned(owner, c) /\ ServerOK(c) /\ ClientOK(owner, c)
  BY DEF IInv, Lanes
<1>2. ASSUME NEW c \in 1 .. Len(child)
      PROVE  Owned(owner, c)' /\ ServerOK(c)' /\ ClientOK(owner, c)'
  <2>1. Owned(owner, c)'
    BY <1>1, KeepsOwned
  <2>2. ServerOK(c)'
    <3>1. CASE child[c].phase = "relay"
      BY <1>1, <3>1, KeepsServer
    <3>2. CASE child[c].phase # "relay"
      BY <3>2 DEF ServerOK
    <3> QED
      BY <3>1, <3>2
  <2>3. ClientOK(owner, c)'
    BY <1>1, KeepsClient
  <2> QED
    BY <2>1, <2>2, <2>3
<1>3. ASSUME NEW d \in DOMAIN net'
      PROVE  /\ d.kind = "ask" => AskOK(owner, d)'
             /\ d.kind = "answer" => AnswerOK(owner, d)'
  BY <1>1, KeepsAsk, KeepsAnswer DEF Lanes
<1>4. ASSUME NEW u \in Users, phase'[u] = "told"
      PROVE  child'[told'[u]].their_addr = At(u, BuildPort)'
  BY <1>4, KeepsTold DEF Lanes
<1> QED
  BY <1>2, <1>3, <1>4 DEF Lanes

\* Whom the children work for, while nothing is duplicated.
WayHome == OneAnswer /\ \E owner \in [1 .. Len(child) -> Users] : Lanes(owner)

\* A step that leaves the children alone.
LEMMA StillHome ==
  ASSUME IInv, OneAnswer, NEW owner, Lanes(owner),
         UNCHANGED <<child, timers>>,
         \A u \in Users : phase[u] # "start" => phase'[u] # "start" /\ typed'[u] = typed[u],
         NEW new, \A e \in DOMAIN net' : Quiet(e) \/ e = new,
         \/ new \notin DOMAIN net'
         \/ new.kind = "request" /\ new.src.port = BuildPort
         \/ new.kind = "ask" /\ AskOK(owner, new)
         \/ new.kind = "answer" /\ AnswerOK(owner, new),
         \A u \in Users : phase'[u] = "told" =>
           \/ phase[u] = "told" /\ told'[u] = told[u]
           \/ child[told'[u]].their_addr = At(u, BuildPort)
  PROVE  OneAnswer' /\ Lanes(owner)'
<1>1. Types
  BY DEF IInv
<1>2. /\ Keeps /\ Len(child') = Len(child)
      /\ \A c \in 1 .. Len(child) : child'[c] = child[c]
  BY <1>1, SameChildren
<1>3. KeepsClients
  BY <1>2 DEF KeepsClients
<1>4. \A b \in 1 .. Len(child) : Expects(b) => Expects(b)'
  BY <1>2 DEF Expects
<1>5. OneAnswer'
  BY <1>2, <1>4, AnswerFrame
<1>6. ASSUME NEW d \in DOMAIN net', d \notin DOMAIN net
      PROVE  /\ d.kind = "ask" => AskOK(owner, d)'
             /\ d.kind = "answer" => AnswerOK(owner, d)'
  <2>1. d = new /\ (d.kind = "ask" => AskOK(owner, d)) /\ (d.kind = "answer" => AnswerOK(owner, d))
    BY <1>6 DEF Quiet
  <2> QED
    BY <1>1, <1>2, <1>3, <2>1, KeepsAsk, KeepsAnswer
<1>7. \A u \in Users : phase'[u] = "told" =>
        \/ phase[u] = "told" /\ told'[u] = told[u]
        \/ child'[told'[u]].their_addr = At(u, BuildPort)'
  BY DEF At, BuildPort
<1>8. \A c \in 1 .. Len(child) : ~(child[c].phase # "relay" /\ child'[c].phase = "relay")
  BY <1>2
<1>9. Lanes(owner)'
  BY <1>2, <1>3, <1>6, <1>7, <1>8, LanesFrame
<1> QED
  BY <1>5, <1>9

\* A step of a child that does not relay.
LEMMA ChildHome ==
  ASSUME IInv, OneAnswer, NEW owner, Lanes(owner), NEW c \in 1 .. Len(child),
         Keeps, Len(child') = Len(child),
         child'[c].relay.client = child[c].relay.client,
         \A e \in 1 .. Len(child) : e # c => child'[e] = child[e],
         UNCHANGED <<phase, told>>,
         child'[c].phase = "relay" => ServerOK(c)',
         Expects(c) =>
           \/ Expects(c)'
           \/ /\ \A e \in DOMAIN net' : ~RequestFrom(e, c) /\ ~ReplyTo(e, c)
              /\ \A s \in 1 .. Len(child) : AskedBy(s, c) => child[s].phase \in Final,
         NEW new, \A e \in DOMAIN net' : Quiet(e) \/ e = new,
         \/ new \notin DOMAIN net'
         \/ /\ new.kind = "request" /\ new.src = Self(c)
            /\ child[c].phase = "new" /\ Expects(c)'
            /\ new \notin DOMAIN net => net'[new] = 1
         \/ /\ new.kind \in ReplyKind /\ new.dst = child[c].their_addr
            /\ child[c].phase \notin Final /\ child'[c].phase \in Final
            /\ new \notin DOMAIN net => net'[new] = 1
  PROVE  OneAnswer' /\ Lanes(owner)'
<1>1. KeepsClients
  BY DEF KeepsClients
<1>2. ASSUME NEW b \in 1 .. Len(child), Expects(b)
      PROVE  \/ Expects(b)'
             \/ /\ \A e \in DOMAIN net' : ~RequestFrom(e, b) /\ ~ReplyTo(e, b)
                /\ \A s \in 1 .. Len(child) : AskedBy(s, b) => child[s].phase \in Final
  <2>1. CASE b = c
    BY <1>2, <2>1
  <2>2. CASE b # c
    BY <1>2, <2>2 DEF Expects
  <2> QED
    BY <2>1, <2>2
<1>3. OneAnswer'
  BY <1>2, AnswerFrame
<1>4. \A d \in DOMAIN net' : d \in DOMAIN net \/ (d.kind # "ask" /\ d.kind # "answer")
  BY DEF Quiet, ReplyKind
<1>5. \A e \in 1 .. Len(child) :
        child[e].phase # "relay" /\ child'[e].phase = "relay" => ServerOK(e)'
  <2> SUFFICES ASSUME NEW e \in 1 .. Len(child),
                      child[e].phase # "relay", child'[e].phase = "relay"
               PROVE  ServerOK(e)'
    OBVIOUS
  <2>1. e = c
    OBVIOUS
  <2> QED
    BY <2>1
<1>6. \A e \in 1 .. Len(child) : child'[e].relay.client = child[e].relay.client
  OBVIOUS
<1>7. Lanes(owner)'
  BY <1>1, <1>4, <1>5, <1>6, LanesFrame
<1> QED
  BY <1>3, <1>7

LEMMA SameOwner ==
  ASSUME NEW owner \in [1 .. Len(child) -> Users], Len(child') = Len(child),
         OneAnswer', Lanes(owner)'
  PROVE  WayHome'
BY DEF WayHome

LEMMA BuilderAskHome ==
  ASSUME IInv, WayHome, NEW u \in Users, BuilderAsk(u) PROVE WayHome'
<1>1. PICK r \in Routes[u] :
        /\ typed' = [typed EXCEPT ![u] = r]
        /\ net' = Put(net, RequestTo(At(u, BuildPort), Last(r), r))
  BY DEF BuilderAsk
<1>2. /\ Types /\ phase[u] = "start" /\ phase' = [phase EXCEPT ![u] = "waiting"]
      /\ UNCHANGED <<child, timers, told>>
      /\ phase \in [Users -> {"start", "waiting", "told", "failed"}]
      /\ typed \in [Users -> Seq(Hosts)]
  BY DEF IInv, BuilderAsk, Types
<1>3. PICK owner \in [1 .. Len(child) -> Users] : OneAnswer /\ Lanes(owner)
  BY DEF WayHome
<1>4. PICK new : new = RequestTo(At(u, BuildPort), Last(r), r)
  OBVIOUS
<1>5. new.kind = "request" /\ new.src.port = BuildPort
  <2>1. At(u, BuildPort) \in Address /\ r \in Seq(Hosts) /\ Last(r) \in Hosts
    BY ConstantFacts, LastFacts DEF At, Address, Hosts
  <2>2. new.src = At(u, BuildPort) /\ new.kind = "request"
    BY <1>4, <2>1, RequestToFacts
  <2> QED
    BY <2>2 DEF At
<1>6. net' = Put(net, new)
  BY <1>1, <1>4
<1>7. \A e \in DOMAIN net' : Quiet(e) \/ e = new
  BY <1>6, QuietFacts DEF Quiet
<1>8. /\ \A v \in Users : phase[v] # "start" => phase'[v] # "start" /\ typed'[v] = typed[v]
      /\ \A v \in Users : phase'[v] = "told" => phase[v] = "told" /\ told'[v] = told[v]
  BY <1>1, <1>2
<1>9. OneAnswer' /\ Lanes(owner)'
  BY <1>2, <1>3, <1>5, <1>7, <1>8, StillHome
<1> QED
  BY <1>2, <1>3, <1>9, SameOwner

\* A step that takes a datagram from the network, or none, and changes no child.
LEMMA TakeHome ==
  ASSUME IInv, WayHome, UNCHANGED <<child, timers, typed>>,
         \A u \in Users : phase[u] # "start" => phase'[u] # "start",
         \A e \in DOMAIN net' : Quiet(e),
         \A u \in Users : phase'[u] = "told" =>
           \/ phase[u] = "told" /\ told'[u] = told[u]
           \/ child[told'[u]].their_addr = At(u, BuildPort)
  PROVE  WayHome'
<1>1. PICK owner \in [1 .. Len(child) -> Users] : OneAnswer /\ Lanes(owner)
  BY DEF WayHome
<1>2. OneAnswer' /\ Lanes(owner)'
  <2>1. PICK new : new \notin DOMAIN net'
    BY NoSetContainsEverything
  <2> QED
    BY <1>1, <2>1, StillHome
<1> QED
  BY <1>1, <1>2, SameOwner

LEMMA BuilderHearHome ==
  ASSUME IInv, WayHome, NEW u \in Users, BuilderHear(u) PROVE WayHome'
<1>1. PICK d \in DOMAIN net :
        /\ d.dst = At(u, BuildPort)
        /\ net' = Take(net, d)
        /\ IF IsPort(d)
             THEN phase' = [phase EXCEPT ![u] = "told"] /\ told' = [told EXCEPT ![u] = d.port]
             ELSE phase' = [phase EXCEPT ![u] = "failed"] /\ UNCHANGED told
  BY DEF BuilderHear
<1>2. /\ UNCHANGED <<child, timers, typed>>
      /\ phase \in [Users -> {"start", "waiting", "told", "failed"}]
      /\ told \in [Users -> Nat]
  BY DEF IInv, BuilderHear, Types
<1>3. \A e \in DOMAIN net' : Quiet(e)
  BY <1>1, QuietFacts DEF Quiet
<1>4. \A v \in Users : phase[v] # "start" => phase'[v] # "start"
  BY <1>1, <1>2
<1>5. IsPort(d) => child[d.port].their_addr = At(u, BuildPort)
  BY <1>1, ToldPort
<1>6. \A v \in Users : phase'[v] = "told" =>
        \/ phase[v] = "told" /\ told'[v] = told[v]
        \/ child[told'[v]].their_addr = At(v, BuildPort)
  <2>1. CASE IsPort(d)
    BY <1>1, <1>2, <1>5, <2>1
  <2>2. CASE ~IsPort(d)
    BY <1>1, <1>2, <2>2
  <2> QED
    BY <2>1, <2>2
<1> QED
  BY <1>2, <1>3, <1>4, <1>6, TakeHome

LEMMA AppHearHome == ASSUME IInv, WayHome, NEW u \in Users, AppHear(u) PROVE WayHome'
<1>1. UNCHANGED <<child, timers, phase, typed, told>>
  BY DEF AppHear
<1>2. \A e \in DOMAIN net' : Quiet(e)
  BY QuietFacts DEF AppHear, Quiet
<1> QED
  BY <1>1, <1>2, TakeHome

LEMMA LoseHome == ASSUME IInv, WayHome, Lose PROVE WayHome'
<1>1. UNCHANGED <<child, timers, phase, typed, told>>
  BY DEF Lose
<1>2. \A e \in DOMAIN net' : Quiet(e)
  BY QuietFacts DEF Lose, Quiet
<1> QED
  BY <1>1, <1>2, TakeHome

\* A question is put to the relay whose port was told.
LEMMA AppAskHome == ASSUME IInv, WayHome, NEW u \in Users, AppAsk(u) PROVE WayHome'
<1> DEFINE src == At(u, AppPort)
           dst == At(Last(typed[u]), told[u])
           plain == Datagram(src, dst, "ask")
<1>1. /\ Types /\ UserOK(u) /\ phase[u] = "told" /\ net' = Put(net, [plain EXCEPT !.user = u])
      /\ UNCHANGED <<child, timers, phase, typed, told>>
  BY DEF IInv, AppAsk
<1>2. /\ told[u] \in 1 .. Len(child) /\ typed[u] \in Routes[u]
      /\ child[told[u]].phase = "relay" /\ child[told[u]].route = typed[u]
      /\ Last(typed[u]) \in Hosts
  BY <1>1, ConstantFacts, LastFacts DEF UserOK
<1>3. dst = Self(told[u])
  <2>1. child[told[u]].host = Last(child[told[u]].route)
    BY <1>2 DEF IInv, RelayOK
  <2> QED
    BY <1>2, <2>1 DEF Self
<1>4. src \in Address /\ dst \in Address
  BY <1>2, ConstantFacts DEF At, Address, Hosts
<1>5. plain \in Message /\ plain.src = src /\ plain.dst = dst /\ plain.kind = "ask"
  BY <1>4, DatagramFacts DEF Kind
<1> HIDE DEF plain
<1>6. PICK new : new = [plain EXCEPT !.user = u]
  OBVIOUS
<1>7. new.src = src /\ new.dst = dst /\ new.kind = "ask" /\ new.user = u
  BY <1>5, <1>6 DEF Message
<1>8. PICK owner \in [1 .. Len(child) -> Users] : OneAnswer /\ Lanes(owner)
  BY DEF WayHome
<1>9. AskOK(owner, new)
  <2>1. child[told[u]].their_addr = At(u, BuildPort)
    BY <1>1, <1>8 DEF Lanes
  <2> QED
    BY <1>2, <1>3, <1>7, <2>1 DEF AskOK
<1>10. net' = Put(net, new)
  BY <1>1, <1>6
<1>11. \A e \in DOMAIN net' : Quiet(e) \/ e = new
  BY <1>10, QuietFacts DEF Quiet
<1>12. OneAnswer' /\ Lanes(owner)'
  BY <1>1, <1>7, <1>8, <1>9, <1>11, StillHome
<1> QED
  BY <1>1, <1>8, <1>12, SameOwner

\* The server answers the relay that asked.
LEMMA DestAnswerHome == ASSUME IInv, WayHome, DestAnswer PROVE WayHome'
<1>1. PICK d \in DOMAIN net :
        /\ d.dst = DestAt /\ d.kind = "ask"
        /\ net' = Put(Take(net, d), [Forwarded(d, DestAt, d.src) EXCEPT !.kind = "answer"])
  BY DEF DestAnswer
<1>2. /\ Types /\ d \in Message /\ UNCHANGED <<child, timers, phase, typed, told>>
  BY NetFacts DEF IInv, DestAnswer
<1>3. PICK new : new = [Forwarded(d, DestAt, d.src) EXCEPT !.kind = "answer"]
  OBVIOUS
<1>4. new.src = DestAt /\ new.dst = d.src /\ new.kind = "answer" /\ new.user = d.user
  BY <1>2, <1>3 DEF Forwarded, Message
<1>5. PICK owner \in [1 .. Len(child) -> Users] : OneAnswer /\ Lanes(owner)
  BY DEF WayHome
<1>6. AnswerOK(owner, new)
  <2>1. AskOK(owner, d)
    BY <1>1, <1>5 DEF Lanes
  <2>2. CASE d.src = At(d.user, AppPort)
    BY <1>4, <2>2 DEF AnswerOK
  <2>3. CASE \E p \in 1 .. Len(child) : /\ Sends(owner, p, d)
                                        /\ d.src = Self(p)
                                        /\ d.dst = child[p].relay.server
    BY <1>1, <1>4, <2>3 DEF AnswerOK, Sends
  <2> QED
    BY <2>1, <2>2, <2>3 DEF AskOK
<1>7. net' = Put(Take(net, d), new)
  BY <1>1, <1>3
<1>8. \A e \in DOMAIN net' : Quiet(e) \/ e = new
  <2>1. PICK rest : rest = Take(net, d)
    OBVIOUS
  <2>2. \A e \in DOMAIN rest : e \in DOMAIN net /\ (net[e] = 1 => rest[e] = 1)
    BY <2>1, QuietFacts
  <2>3. \A e \in DOMAIN net' : (e \in DOMAIN rest /\ net'[e] = rest[e]) \/ e = new
    BY <1>7, <2>1, QuietFacts
  <2> QED
    BY <2>2, <2>3 DEF Quiet
<1>9. OneAnswer' /\ Lanes(owner)'
  BY <1>2, <1>4, <1>5, <1>6, <1>8, StillHome
<1> QED
  BY <1>2, <1>5, <1>9, SameOwner

-----------------------------------------------------------------------------
\* The steps of the children.

\* Child c, with no more to hear, starts to relay and says so.
LEMMA StartsHome ==
  ASSUME IInv, WayHome, NEW c \in 1 .. Len(child), child[c].phase \notin Final,
         NEW sv \in Address, NEW n, StartRelay(c, sv, n),
         \A e \in DOMAIN n : e \in DOMAIN net /\ (net[e] = 1 => n[e] = 1),
         \/ sv = DestAt
         \/ \E s \in c + 1 .. Len(child) : /\ sv = Self(s)
                                           /\ child[s].phase = "relay"
                                           /\ child[s].their_addr = Self(c),
         \A e \in DOMAIN n : ~RequestFrom(e, c) /\ ~ReplyTo(e, c),
         \A s \in 1 .. Len(child) : AskedBy(s, c) => child[s].phase \in Final,
         UNCHANGED <<phase, typed, told>>
  PROVE  WayHome'
<1>1. Types /\ Len(child) \in Nat
  BY ChildTypes DEF IInv
<1>2. /\ Keeps /\ Len(child') = Len(child)
      /\ child'[c].phase = "relay" /\ child'[c].relay.server = sv
      /\ child'[c].relay.client = child[c].relay.client
      /\ \A e \in 1 .. Len(child) : e # c => child'[e] = child[e]
  <2>1. "relay" \in Phase \ {"new"}
    BY DEF Phase
  <2> QED
    BY <1>1, <2>1, Move DEF StartRelay
<1>3. PICK owner \in [1 .. Len(child) -> Users] : OneAnswer /\ Lanes(owner)
  BY DEF WayHome
<1>4. PICK new : new = PortTo(Self(c), child[c].their_addr)
  OBVIOUS
<1>5. /\ new.kind = "port" /\ new.dst = child[c].their_addr
  BY <1>1, <1>4, SelfFacts, PortToFacts
<1>6. net' = Put(n, new)
  BY <1>4 DEF StartRelay
<1>7. \A e \in DOMAIN net' :
        \/ e \in DOMAIN n /\ net'[e] = n[e]
        \/ e = new /\ (new \notin DOMAIN n => net'[e] = 1)
  BY <1>6, QuietFacts
<1>8. \A e \in DOMAIN net' : Quiet(e) \/ e = new
  BY <1>7 DEF Quiet
<1>9. /\ new \in DOMAIN net' => (new \notin DOMAIN net => net'[new] = 1)
      /\ new.kind \in ReplyKind /\ child'[c].phase \in Final
  BY <1>2, <1>5, <1>7 DEF ReplyKind, Final
<1>10. ~AskedBy(c, c)
  <2>1. \A p \in 1 .. Len(child) : AskedBy(c, p) => child[c].their_addr.port = p
    BY <1>1, SelfFacts DEF AskedBy
  <2>2. c # BuildPort /\ c \in Nat
    BY <1>1, SelfFacts
  <2> QED
    BY <2>1, <2>2, Asker
<1>11. \A e \in DOMAIN net' : ~RequestFrom(e, c) /\ ~ReplyTo(e, c)
  BY <1>5, <1>7, <1>10 DEF RequestFrom, ReplyTo, AskedBy
<1>12. ServerOK(c)'
  <2>1. CASE sv = DestAt
    BY <1>2, <2>1 DEF ServerOK, DestAt, At, DestPort
  <2>2. CASE sv # DestAt
    <3>1. PICK s \in c + 1 .. Len(child) : /\ sv = Self(s)
                                           /\ child[s].phase = "relay"
                                           /\ child[s].their_addr = Self(c)
      BY <2>2
    <3>2. s \in 1 .. Len(child) /\ s # c
      BY <1>1
    <3>3. /\ Self(s)' = Self(s) /\ Self(c)' = Self(c)
          /\ child'[s] = child[s] /\ s \in c + 1 .. Len(child')
      BY <1>1, <1>2, <3>2, KeepsAddress
    <3> QED
      BY <1>2, <3>1, <3>3 DEF ServerOK
  <2> QED
    BY <2>1, <2>2
<1>13. OneAnswer' /\ Lanes(owner)'
  <2>1. CASE new \in DOMAIN net'
    BY <1>2, <1>3, <1>5, <1>8, <1>9, <1>11, <1>12, <2>1, ChildHome
  <2>2. CASE new \notin DOMAIN net'
    BY <1>2, <1>3, <1>8, <1>11, <1>12, <2>2, ChildHome
  <2> QED
    BY <2>1, <2>2
<1> QED
  BY <1>2, <1>3, <1>13, SameOwner

\* Child c ends or waits, and says so or not.
LEMMA StopsHome ==
  ASSUME IInv, WayHome, NEW c \in 1 .. Len(child), child[c].phase \notin Final,
         NEW p \in Phase \ {"new", "relay"}, child' = [child EXCEPT ![c].phase = p],
         NEW kind \in {"A", "-1"}, NEW new,
         \/ net' = net
         \/ p \in Final /\ new = Datagram(Self(c), child[c].their_addr, kind)
            /\ net' = Put(net, new)
         \/ \E d \in DOMAIN net : net' = Take(net, d),
         Expects(c) =>
           \/ p \in {"sent", "wait", "expired"}
           \/ /\ \A e \in DOMAIN net' : ~RequestFrom(e, c) /\ ~ReplyTo(e, c)
              /\ \A s \in 1 .. Len(child) : AskedBy(s, c) => child[s].phase \in Final,
         UNCHANGED <<phase, typed, told>>
  PROVE  WayHome'
<1>1. Types
  BY DEF IInv
<1>2. /\ Keeps /\ Len(child') = Len(child)
      /\ child'[c].phase = p
      /\ child'[c].relay.client = child[c].relay.client
      /\ \A e \in 1 .. Len(child) : e # c => child'[e] = child[e]
  BY <1>1, Stop
<1>3. PICK owner \in [1 .. Len(child) -> Users] : OneAnswer /\ Lanes(owner)
  BY DEF WayHome
<1>4. Expects(c) =>
        \/ Expects(c)'
        \/ /\ \A e \in DOMAIN net' : ~RequestFrom(e, c) /\ ~ReplyTo(e, c)
           /\ \A s \in 1 .. Len(child) : AskedBy(s, c) => child[s].phase \in Final
  BY <1>2 DEF Expects
<1>5. ASSUME \A e \in DOMAIN net' : Quiet(e) PROVE OneAnswer' /\ Lanes(owner)'
  <2>1. PICK none : none \notin DOMAIN net'
    BY NoSetContainsEverything
  <2> QED
    BY <1>2, <1>3, <1>4, <1>5, <2>1, ChildHome
<1>6. OneAnswer' /\ Lanes(owner)'
  <2>1. CASE net' = net
    BY <1>5, <2>1 DEF Quiet
  <2>2. CASE \E d \in DOMAIN net : net' = Take(net, d)
    BY <1>5, <2>2, QuietFacts DEF Quiet
  <2>3. CASE p \in Final /\ new = Datagram(Self(c), child[c].their_addr, kind) /\ net' = Put(net, new)
    <3>1. kind \in Kind /\ kind \in ReplyKind
      BY DEF Kind, ReplyKind
    <3>2. new.kind \in ReplyKind /\ new.dst = child[c].their_addr
      BY <1>1, <2>3, <3>1, SelfFacts, DatagramFacts
    <3>3. /\ \A e \in DOMAIN net' : Quiet(e) \/ e = new
          /\ new \notin DOMAIN net => net'[new] = 1
      <4>1. net' = Put(net, new) /\ DOMAIN net' = DOMAIN net \cup {new}
        BY <2>3, PutDomain
      <4>2. \A e \in DOMAIN net' :
              \/ e \in DOMAIN net /\ net'[e] = net[e]
              \/ e = new /\ (new \notin DOMAIN net => net'[e] = 1)
        BY <4>1, QuietFacts
      <4> QED
        BY <4>1, <4>2 DEF Quiet
    <3>4. child'[c].phase \in Final /\ child'[c].phase # "relay"
      BY <1>2, <2>3
    <3> QED
      BY <1>2, <1>3, <1>4, <3>2, <3>3, <3>4, ChildHome
  <2> QED
    BY <2>1, <2>2, <2>3
<1> QED
  BY <1>2, <1>3, <1>6, SameOwner

LEMMA LastHopHome == ASSUME IInv, WayHome, NEW c \in 1 .. Len(child), LastHop(c) PROVE WayHome'
<1>1. /\ child[c].phase = "new" /\ child[c].phase \notin Final /\ ~Expects(c)
      /\ UNCHANGED <<phase, typed, told>>
  BY DEF LastHop, Final, Expects
<1>2. CASE StartRelay(c, DestAt, net)
  <2>1. DestAt \in Address
    BY ConstantFacts DEF DestAt, At, Address, Hosts
  <2>2. /\ \A e \in DOMAIN net : ~RequestFrom(e, c) /\ ~ReplyTo(e, c)
        /\ \A s \in 1 .. Len(child) : ~AskedBy(s, c)
    BY <1>1, Fresh DEF WayHome
  <2> QED
    BY <1>1, <1>2, <2>1, <2>2, StartsHome
<1>3. CASE child' = [child EXCEPT ![c].phase = "unresolved"] /\ UNCHANGED net
  <2>1. "unresolved" \in Phase \ {"new", "relay"} /\ "A" \in {"A", "-1"}
    BY DEF Phase
  <2> QED
    BY <1>1, <1>3, <2>1, StopsHome
<1> QED
  BY <1>2, <1>3 DEF LastHop

LEMMA TunnelHopHome ==
  ASSUME IInv, WayHome, NEW c \in 1 .. Len(child), TunnelHop(c) PROVE WayHome'
<1>1. /\ child[c].phase = "new" /\ child[c].phase \notin Final /\ ~Expects(c)
      /\ UNCHANGED <<phase, typed, told>>
  BY DEF TunnelHop, Final, Expects
<1>2. CASE StartRelay(c, DestAt, net)
  <2>1. DestAt \in Address
    BY ConstantFacts DEF DestAt, At, Address, Hosts
  <2>2. /\ \A e \in DOMAIN net : ~RequestFrom(e, c) /\ ~ReplyTo(e, c)
        /\ \A s \in 1 .. Len(child) : ~AskedBy(s, c)
    BY <1>1, Fresh DEF WayHome
  <2> QED
    BY <1>1, <1>2, <2>1, <2>2, StartsHome
<1>3. CASE /\ child' = [child EXCEPT ![c].phase = "unresolved"]
           /\ net' = Put(net, Datagram(Self(c), child[c].their_addr, "-1"))
  <2>1. "unresolved" \in Phase \ {"new", "relay"} /\ "-1" \in {"A", "-1"}
        /\ "unresolved" \in Final
    BY DEF Phase, Final
  <2> QED
    BY <1>1, <1>3, <2>1, StopsHome
<1> QED
  BY <1>2, <1>3 DEF TunnelHop

LEMMA ForwardHome == ASSUME IInv, WayHome, NEW c \in 1 .. Len(child), Forward(c) PROVE WayHome'
<1>1. /\ Types /\ child[c].phase = "new" /\ child[c].phase \notin Final /\ ~Expects(c)
      /\ child' = [child EXCEPT ![c].phase = "sent"]
      /\ UNCHANGED <<phase, typed, told>>
      /\ child[c].route \in Seq(Hosts) /\ Len(child[c].route) > 1
  BY ChildTypes DEF IInv, Forward, Final, Expects
<1>2. PICK new : new = RequestTo(Self(c), NextHop(c), Front(child[c].route))
  OBVIOUS
<1>3. new.kind = "request" /\ new.src = Self(c)
  <2>1. Front(child[c].route) \in Seq(Hosts) /\ Front(child[c].route) # <<>>
    BY <1>1, FrontFacts
  <2>2. NextHop(c) \in Hosts
    BY <2>1, LastFacts DEF NextHop
  <2> QED
    BY <1>1, <1>2, <2>1, <2>2, SelfFacts, RequestToFacts
<1>4. net' = Put(net, new)
  BY <1>2 DEF Forward
<1>5. /\ Keeps /\ Len(child') = Len(child)
      /\ child'[c].phase = "sent"
      /\ child'[c].relay.client = child[c].relay.client
      /\ \A e \in 1 .. Len(child) : e # c => child'[e] = child[e]
  <2>1. "sent" \in Phase \ {"new"}
    BY DEF Phase
  <2> QED
    BY <1>1, <2>1, Stop
<1>6. PICK owner \in [1 .. Len(child) -> Users] : OneAnswer /\ Lanes(owner)
  BY DEF WayHome
<1>7. /\ \A e \in DOMAIN net' : Quiet(e) \/ e = new
      /\ new \notin DOMAIN net => net'[new] = 1
  <2>1. DOMAIN net' = DOMAIN net \cup {new}
    BY <1>4, PutDomain
  <2>2. \A e \in DOMAIN net' :
          \/ e \in DOMAIN net /\ net'[e] = net[e]
          \/ e = new /\ (new \notin DOMAIN net => net'[e] = 1)
    BY <1>4, QuietFacts
  <2> QED
    BY <2>1, <2>2 DEF Quiet
<1>8. Expects(c)' /\ child'[c].phase # "relay"
  BY <1>5 DEF Expects
<1>9. OneAnswer' /\ Lanes(owner)'
  BY <1>1, <1>3, <1>5, <1>6, <1>7, <1>8, ChildHome
<1> QED
  BY <1>5, <1>6, <1>9, SameOwner

LEMMA WaitHome == ASSUME IInv, WayHome, NEW c \in 1 .. Len(child), Wait(c) PROVE WayHome'
<1>1. /\ child[c].phase \notin Final
      /\ child' = [child EXCEPT ![c].phase = "wait"] /\ net' = net
      /\ UNCHANGED <<phase, typed, told>>
  BY DEF Wait, Final
<1>2. "wait" \in Phase \ {"new", "relay"} /\ "A" \in {"A", "-1"}
  BY DEF Phase
<1> QED
  BY <1>1, <1>2, StopsHome

LEMMA TimeoutHome == ASSUME IInv, WayHome, Timeout PROVE WayHome'
<1>1. /\ timers # <<>> /\ TimersOK /\ UNCHANGED <<phase, typed, told>>
  BY DEF IInv, Types, Timeout
<1>2. PICK c \in 1 .. Len(child) : c = Head(timers) /\ child[c].phase = "wait"
  BY <1>1 DEF TimersOK
<1>3. PICK new : new = Datagram(Self(c), child[c].their_addr, "A")
  OBVIOUS
<1>4. child' = [child EXCEPT ![c].phase = "expired"] /\ net' = Put(net, new)
  BY <1>2, <1>3 DEF Timeout, Expire
<1>5. /\ "expired" \in Phase \ {"new", "relay"} /\ "A" \in {"A", "-1"} /\ "expired" \in Final
      /\ child[c].phase \notin Final
  BY <1>2 DEF Phase, Final
<1> QED
  BY <1>1, <1>3, <1>4, <1>5, StopsHome

\* A child that waits hears replies only, and nothing more after the first.
LEMMA HeardLast ==
  ASSUME IInv, WayHome, NEW c \in 1 .. Len(child), child[c].phase = "wait",
         NEW d \in DOMAIN net, d.dst = Self(c)
  PROVE  /\ \A e \in DOMAIN Take(net, d) :
              e \in DOMAIN net /\ (net[e] = 1 => Take(net, d)[e] = 1)
         /\ \A e \in DOMAIN Take(net, d) : ~RequestFrom(e, c) /\ ~ReplyTo(e, c)
         /\ \A s \in 1 .. Len(child) : AskedBy(s, c) => child[s].phase \in Final
<1>1. /\ Types /\ OneAnswer /\ d \in Message /\ DatagramOK(d)
      /\ Self(c).port = c /\ c # KnownPort /\ c # AppPort /\ c # DestPort
  BY NetFacts, SelfFacts DEF IInv, WayHome
<1>2. PICK owner \in [1 .. Len(child) -> Users] : Lanes(owner)
  BY DEF WayHome
<1>3. d.kind # "request"
  <2>1. ~Requested(d)
    BY <1>1 DEF Requested, At
  <2> QED
    BY <1>1, <2>1 DEF DatagramOK
\* A relay sends to relays only.
<1>4. \A p \in 1 .. Len(child) : child[p].phase = "relay" => child[p].relay.server # Self(c)
  <2> SUFFICES ASSUME NEW p \in 1 .. Len(child), child[p].phase = "relay",
                      child[p].relay.server = Self(c)
               PROVE  FALSE
    OBVIOUS
  <2>1. child[p].relay.server # DestAt
    BY <1>1 DEF DestAt, At
  <2>2. PICK s \in p + 1 .. Len(child) : Self(c) = Self(s) /\ child[s].phase = "relay"
    BY <1>2, <2>1 DEF Lanes, ServerOK
  <2> QED
    BY <2>2, SameSelf
<1>5. d.kind # "ask"
  <2> SUFFICES ASSUME d.kind = "ask" PROVE FALSE
    OBVIOUS
  <2>1. AskOK(owner, d)
    BY <1>2 DEF Lanes
  <2>2. ~\E e \in 1 .. Len(child) : d.dst = Self(e) /\ child[e].phase = "relay"
    BY SameSelf
  <2>3. \E p \in 1 .. Len(child) : child[p].phase = "relay" /\ d.dst = child[p].relay.server
    BY <2>1, <2>2 DEF AskOK, Sends
  <2> QED
    BY <1>4, <2>3
<1>6. d.kind # "answer"
  <2> SUFFICES ASSUME d.kind = "answer" PROVE FALSE
    OBVIOUS
  <2>1. AnswerOK(owner, d)
    BY <1>2 DEF Lanes
  <2>2. d.dst # At(d.user, AppPort)
    BY <1>1 DEF At
  <2>3. \E e \in 1 .. Len(child) : d.dst = Self(e) /\ child[e].phase = "relay"
    BY <2>1, <2>2 DEF AnswerOK, Sends
  <2> QED
    BY <2>3, SameSelf
<1>7. ReplyTo(d, c)
  BY <1>1, <1>3, <1>5, <1>6 DEF ReplyTo, ReplyKind, Message, Kind
<1>8. \A e \in DOMAIN net : ~RequestFrom(e, c) /\ (ReplyTo(e, c) => e = d)
  BY <1>1, <1>7 DEF OneAnswer
<1>9. \A s \in 1 .. Len(child) : AskedBy(s, c) => child[s].phase \in Final
  BY <1>1, <1>7 DEF OneAnswer
<1>10. net[d] = 1
  BY <1>1, <1>7 DEF OneAnswer
<1>11. \A e \in DOMAIN Take(net, d) :
         e \in DOMAIN net /\ (net[e] = 1 => Take(net, d)[e] = 1 /\ e # d)
  BY QuietFacts
<1> QED
  BY <1>8, <1>9, <1>10, <1>11

LEMMA HearReplyHome ==
  ASSUME IInv, WayHome, NEW c \in 1 .. Len(child), HearReply(c) PROVE WayHome'
<1>1. /\ child[c].phase = "wait" /\ child[c].phase \notin Final
      /\ UNCHANGED <<phase, typed, told>>
  BY DEF HearReply, Final
<1>2. PICK d \in DOMAIN net :
        /\ d.dst = Self(c)
        /\ IF IsPort(d)
             THEN StartRelay(c, At(NextHop(c), d.port), Take(net, d))
             ELSE /\ child' = [child EXCEPT ![c].phase = "refused"]
                  /\ net' = Take(net, d)
  BY DEF HearReply
<1>3. PICK rest : rest = Take(net, d)
  OBVIOUS
<1>4. /\ \A e \in DOMAIN rest : e \in DOMAIN net /\ (net[e] = 1 => rest[e] = 1)
      /\ \A e \in DOMAIN rest : ~RequestFrom(e, c) /\ ~ReplyTo(e, c)
      /\ \A s \in 1 .. Len(child) : AskedBy(s, c) => child[s].phase \in Final
  BY <1>1, <1>2, <1>3, HeardLast
<1>5. CASE IsPort(d)
  <2>1. PICK sv : sv = At(NextHop(c), d.port)
    OBVIOUS
  <2>2. /\ sv \in Address
        /\ \E s \in c + 1 .. Len(child) : /\ sv = Self(s)
                                          /\ child[s].phase = "relay"
                                          /\ child[s].their_addr = Self(c)
    BY <1>1, <1>2, <1>5, <2>1, HeardPort
  <2>3. StartRelay(c, sv, rest)
    BY <1>2, <1>3, <1>5, <2>1
  <2> QED
    BY <1>1, <1>4, <2>2, <2>3, StartsHome
<1>6. CASE ~IsPort(d)
  <2>1. child' = [child EXCEPT ![c].phase = "refused"] /\ net' = Take(net, d) /\ net' = rest
    BY <1>2, <1>3, <1>6
  <2>2. "refused" \in Phase \ {"new", "relay"} /\ "A" \in {"A", "-1"}
    BY DEF Phase
  <2> QED
    BY <1>1, <1>4, <2>1, <2>2, StopsHome
<1> QED
  BY <1>5, <1>6

-----------------------------------------------------------------------------
\* A round of a relay.

\* What child p relays to is the server or a child that p asked for, so the two
\* sides of a relay differ in their ports.
LEMMA ServerSide ==
  ASSUME IInv, NEW owner, Lanes(owner), NEW p \in 1 .. Len(child), NEW c \in 1 .. Len(child),
         child[p].phase = "relay", child[p].relay.server = Self(c)
  PROVE  p < c /\ child[c].phase = "relay" /\ child[c].their_addr = Self(p) /\ owner[c] = owner[p]
<1>1. /\ Types /\ Len(child) \in Nat /\ ServerOK(p) /\ Owned(owner, c)
      /\ c # DestPort /\ Self(c).port = c /\ Self(p).port = p /\ p # BuildPort
  BY ChildTypes, SelfFacts DEF IInv, Lanes
<1>2. child[p].relay.server # DestAt
  BY <1>1 DEF DestAt, At
<1>3. PICK s \in p + 1 .. Len(child) : /\ child[p].relay.server = Self(s)
                                       /\ child[s].phase = "relay"
                                       /\ child[s].their_addr = Self(p)
  BY <1>1, <1>2 DEF ServerOK
<1>4. s = c
  BY <1>3, SameSelf
<1>5. child[c].their_addr # At(owner[c], BuildPort)
  BY <1>1, <1>3, <1>4 DEF At
<1>6. PICK q \in 1 .. c - 1 : child[c].their_addr = Self(q) /\ owner[q] = owner[c]
  BY <1>1, <1>5 DEF Owned
<1>7. q = p
  BY <1>3, <1>4, <1>6, SameSelf
<1> QED
  BY <1>1, <1>3, <1>4, <1>6, <1>7

\* A question comes from the side of the client, who is the first to send.
LEMMA AskAtRelay ==
  ASSUME IInv, NEW owner, Lanes(owner), NEW c \in 1 .. Len(child), child[c].phase = "relay",
         NEW d \in DOMAIN net, d.dst = Self(c), d.kind = "ask"
  PROVE  /\ owner[c] = d.user
         /\ d.src.port # child[c].relay.server.port
         /\ \/ d.src = At(owner[c], AppPort) /\ child[c].their_addr = At(owner[c], BuildPort)
            \/ \E p \in 1 .. c - 1 : /\ d.src = Self(p)
                                     /\ child[p].phase = "relay"
                                     /\ child[p].relay.server = Self(c)
                                     /\ child[p].relay.client # NoAddress
<1>1. /\ Types /\ Len(child) \in Nat /\ Len(child) <= MaxChildren
      /\ ServerOK(c) /\ Owned(owner, c) /\ AskOK(owner, d)
      /\ \A e \in 1 .. Len(child) :
           e \in Nat /\ Self(e).port = e /\ e # BuildPort /\ e # AppPort /\ e # DestPort
  BY ChildTypes, SelfFacts DEF IInv, Lanes, Types
<1>2. child[c].relay.server.port = DestPort \/ child[c].relay.server.port \in c + 1 .. Len(child)
  <2>1. CASE child[c].relay.server = DestAt
    BY <2>1 DEF DestAt, At
  <2>2. CASE child[c].relay.server # DestAt
    <3>1. PICK s \in c + 1 .. Len(child) : child[c].relay.server = Self(s)
      BY <1>1, <2>2 DEF ServerOK
    <3>2. s \in 1 .. Len(child)
      BY <1>1
    <3> QED
      BY <1>1, <3>1, <3>2
  <2> QED
    BY <2>1, <2>2
<1>3. CASE /\ d.src = At(d.user, AppPort)
           /\ \E e \in 1 .. Len(child) : /\ d.dst = Self(e)
                                         /\ child[e].phase = "relay"
                                         /\ child[e].their_addr = At(d.user, BuildPort)
  <2>1. child[c].their_addr = At(d.user, BuildPort)
    BY <1>3, SameSelf
  <2>2. \A p \in 1 .. Len(child) : child[c].their_addr # Self(p)
    BY <1>1, <2>1 DEF At
  <2>3. child[c].their_addr = At(owner[c], BuildPort)
    BY <1>1, <2>2 DEF Owned
  <2>4. owner[c] = d.user
    BY <2>1, <2>3 DEF At
  <2>5. d.src.port = AppPort
    BY <1>3 DEF At
  <2>6. AppPort # DestPort /\ \A e \in 1 .. Len(child) : e # AppPort
    BY <1>1, ConstantFacts
  <2> QED
    BY <1>1, <1>2, <1>3, <2>3, <2>4, <2>5, <2>6
<1>4. CASE \E p \in 1 .. Len(child) : /\ Sends(owner, p, d)
                                      /\ d.src = Self(p)
                                      /\ d.dst = child[p].relay.server
  <2>1. PICK p \in 1 .. Len(child) : /\ Sends(owner, p, d)
                                     /\ d.src = Self(p)
                                     /\ Self(c) = child[p].relay.server
    BY <1>4
  <2>2. /\ child[p].phase = "relay" /\ child[p].relay.client # NoAddress
        /\ owner[p] = d.user
    BY <2>1 DEF Sends
  <2>3. p < c /\ owner[c] = owner[p]
    BY <2>1, <2>2, ServerSide
  <2>4. p \in 1 .. c - 1 /\ d.src.port = p /\ p # DestPort
    BY <1>1, <2>1, <2>3
  <2> QED
    BY <1>1, <1>2, <2>1, <2>2, <2>3, <2>4
<1> QED
  BY <1>1, <1>3, <1>4 DEF AskOK

\* An answer comes from the server, when the client is known.
LEMMA AnswerAtRelay ==
  ASSUME IInv, NEW owner, Lanes(owner), NEW c \in 1 .. Len(child),
         NEW d \in DOMAIN net, d.dst = Self(c), d.kind = "answer"
  PROVE  Sends(owner, c, d) /\ d.src = child[c].relay.server
<1>1. AnswerOK(owner, d) /\ Self(c).port = c /\ c # AppPort
  BY SelfFacts DEF IInv, Lanes
<1>2. d.dst # At(d.user, AppPort)
  BY <1>1 DEF At
<1> QED
  BY <1>1, <1>2, SameSelf DEF AnswerOK

LEMMA RelayOneHome ==
  ASSUME IInv, WayHome, NEW c \in 1 .. Len(child), RelayOne(c) PROVE WayHome'
<1> DEFINE relay == child[c].relay
<1>1. PICK d \in DOMAIN net :
        LET dst == Onward(relay, d.src)
        IN /\ d.dst = Self(c)
           /\ child' = [child EXCEPT ![c].relay = [relay EXCEPT !.client = Learn(relay, d.src)]]
           /\ net' = IF dst = NoAddress THEN Take(net, d)
                     ELSE Put(Take(net, d), Forwarded(d, Self(c), dst))
  BY DEF RelayOne
<1>2. /\ Types /\ child[c].phase = "relay" /\ Len(child) \in Nat
      /\ UNCHANGED <<phase, typed, told>>
      /\ child[c] \in Record /\ d \in Message /\ d.src \in Address
      /\ DatagramOK(d) /\ Self(c).port = c /\ c # KnownPort
  BY ChildTypes, NetFacts, SelfFacts DEF IInv, RelayOne
<1>3. PICK owner \in [1 .. Len(child) -> Users] : OneAnswer /\ Lanes(owner)
  BY DEF WayHome
<1>4. d.kind \in {"ask", "answer"}
  <2>1. d.kind # "request"
    <3>1. ~Requested(d)
      BY <1>1, <1>2 DEF Requested, At
    <3> QED
      BY <1>2, <3>1 DEF DatagramOK
  <2>2. ~ReplyTo(d, c)
    BY <1>2, <1>3 DEF OneAnswer, Expects
  <2> QED
    BY <1>1, <1>2, <2>1, <2>2 DEF ReplyTo, ReplyKind, Message, Kind
<1>5. NoAddress \notin Address
  BY OverlayAssumption DEF Address, Hosts
<1> DEFINE client == Learn(relay, d.src)
           rec == [child[c] EXCEPT !.relay.client = client]
<1>6. /\ relay.client \in Address \cup {NoAddress}
      /\ client \in Address \cup {NoAddress} /\ client # NoAddress
      /\ relay.client # NoAddress => client = relay.client
      /\ relay.client = NoAddress => client = d.src
  BY <1>2, <1>5 DEF Record, Learn
<1> HIDE DEF client
<1>7. /\ rec \in Record
      /\ rec.host = child[c].host /\ rec.route = child[c].route
      /\ rec.their_addr = child[c].their_addr
      /\ rec.phase = child[c].phase /\ rec.relay.server = relay.server
      /\ rec.relay.client = client
  BY <1>2, <1>6 DEF Record
<1>8. child' = [child EXCEPT ![c] = rec]
  BY <1>1, <1>2 DEF Types, Record, client
<1> HIDE DEF rec
<1>9. /\ Keeps /\ Len(child') = Len(child)
      /\ child'[c] = rec
      /\ \A e \in 1 .. Len(child) : e # c => child'[e] = child[e]
  BY <1>2, <1>7, <1>8, Replace
<1>10. KeepsClients
  BY <1>6, <1>7, <1>9 DEF KeepsClients
\* The client.
<1>11. \A e \in 1 .. Len(child) :
         child'[e].relay.client = child[e].relay.client \/ ClientOK(owner, e)'
  <2>1. ASSUME relay.client = NoAddress PROVE ClientOK(owner, c)'
    <3>1. d.kind = "ask"
      BY <1>1, <1>3, <1>4, <2>1, AnswerAtRelay DEF Sends
    <3>2. CASE d.src = At(owner[c], AppPort) /\ child[c].their_addr = At(owner[c], BuildPort)
      BY <1>6, <1>7, <1>9, <2>1, <3>2 DEF ClientOK, At, AppPort, BuildPort
    <3>3. CASE \E p \in 1 .. c - 1 : /\ d.src = Self(p)
                                     /\ child[p].phase = "relay"
                                     /\ child[p].relay.server = Self(c)
                                     /\ child[p].relay.client # NoAddress
      <4>1. PICK p \in 1 .. c - 1 : /\ d.src = Self(p)
                                    /\ child[p].phase = "relay"
                                    /\ child[p].relay.server = Self(c)
                                    /\ child[p].relay.client # NoAddress
        BY <3>3
      <4>2. p \in 1 .. Len(child) /\ p # c
        BY <1>2
      <4>3. child'[p] = child[p] /\ Self(p)' = Self(p) /\ Self(c)' = Self(c)
        BY <1>2, <1>9, <4>2, KeepsAddress
      <4>4. child'[c].relay.client = Self(p)
        BY <1>6, <1>7, <1>9, <2>1, <4>1
      <4> QED
        BY <4>1, <4>3, <4>4 DEF ClientOK
    <3> QED
      BY <1>1, <1>2, <1>3, <3>1, <3>2, <3>3, AskAtRelay
  <2> QED
    BY <1>6, <1>7, <1>9, <2>1
\* The datagram that goes on.
<1>12. PICK dst : dst = Onward(relay, d.src)
  OBVIOUS
<1>13. PICK new : new = Forwarded(d, Self(c), dst)
  OBVIOUS
<1>14. new.src = Self(c) /\ new.dst = dst /\ new.kind = d.kind /\ new.user = d.user
  BY <1>2, <1>13 DEF Forwarded, Message
<1>15. Self(c)' = Self(c) /\ c \in 1 .. Len(child')
  BY <1>2, <1>9, KeepsAddress
<1>16. d.kind = "ask" => AskOK(owner, new)'
  <2> SUFFICES ASSUME d.kind = "ask" PROVE AskOK(owner, new)'
    OBVIOUS
  <2>1. owner[c] = d.user /\ d.src.port # relay.server.port
    BY <1>1, <1>2, <1>3, AskAtRelay
  <2>2. dst = relay.server
    BY <1>12, <2>1 DEF Onward, FromServer
  <2>3. Sends(owner, c, new)'
    BY <1>2, <1>6, <1>7, <1>9, <1>14, <2>1 DEF Sends
  <2> QED
    BY <1>7, <1>9, <1>14, <1>15, <2>2, <2>3 DEF AskOK
<1>17. d.kind = "answer" /\ dst # NoAddress => AnswerOK(owner, new)'
  <2> SUFFICES ASSUME d.kind = "answer" PROVE AnswerOK(owner, new)'
    OBVIOUS
  <2>1. owner[c] = d.user /\ relay.client # NoAddress /\ d.src = relay.server
    BY <1>1, <1>3, AnswerAtRelay DEF Sends
  <2>2. dst = relay.client
    BY <1>12, <2>1 DEF Onward, FromServer
  <2>3. ClientOK(owner, c)
    BY <1>3 DEF Lanes
  <2>4. CASE relay.client = At(owner[c], AppPort)
    BY <1>14, <2>1, <2>2, <2>4 DEF AnswerOK, At, AppPort
  <2>5. CASE \E p \in 1 .. c - 1 : /\ relay.client = Self(p)
                                   /\ child[p].phase = "relay"
                                   /\ child[p].relay.server = Self(c)
                                   /\ child[p].relay.client # NoAddress
    <3>1. PICK p \in 1 .. c - 1 : /\ relay.client = Self(p)
                                  /\ child[p].phase = "relay"
                                  /\ child[p].relay.server = Self(c)
                                  /\ child[p].relay.client # NoAddress
      BY <2>5
    <3>2. p \in 1 .. Len(child) /\ p # c
      BY <1>2
    <3>3. /\ child'[p] = child[p] /\ Self(p)' = Self(p) /\ p \in 1 .. Len(child')
      BY <1>2, <1>9, <3>2, KeepsAddress
    <3>4. owner[p] = owner[c]
      BY <1>3, <3>1, <3>2, ServerSide
    <3>5. Sends(owner, p, new)'
      BY <1>14, <2>1, <3>1, <3>3, <3>4 DEF Sends
    <3> QED
      BY <1>14, <2>2, <3>1, <3>3, <3>5 DEF AnswerOK
  <2> QED
    BY <2>1, <2>3, <2>4, <2>5 DEF ClientOK
<1>18. \A e \in DOMAIN net' : Quiet(e) \/ (e = new /\ dst # NoAddress)
  <2>1. PICK rest : rest = Take(net, d)
    OBVIOUS
  <2>2. \A e \in DOMAIN rest : e \in DOMAIN net /\ (net[e] = 1 => rest[e] = 1)
    BY <2>1, QuietFacts
  <2>3. CASE dst = NoAddress
    BY <1>1, <1>12, <2>1, <2>2, <2>3 DEF Quiet
  <2>4. CASE dst # NoAddress
    <3>1. net' = Put(rest, new)
      BY <1>1, <1>12, <1>13, <2>1, <2>4
    <3>2. \A e \in DOMAIN net' : (e \in DOMAIN rest /\ net'[e] = rest[e]) \/ e = new
      BY <3>1, QuietFacts
    <3> QED
      BY <2>2, <2>4, <3>2 DEF Quiet
  <2> QED
    BY <2>3, <2>4
<1>19. OneAnswer'
  <2>1. \A b \in 1 .. Len(child) : Expects(b) => Expects(b)'
    BY <1>7, <1>9 DEF Expects
  <2>2. new.kind \in {"ask", "answer"}
    BY <1>4, <1>14
  <2> QED
    BY <1>3, <1>9, <1>18, <2>1, <2>2, AnswerFrame
<1>20. Lanes(owner)'
  <2>1. \A e \in 1 .. Len(child) : ~(child[e].phase # "relay" /\ child'[e].phase = "relay")
    BY <1>7, <1>9
  <2>2. \A e \in DOMAIN net' : e \in DOMAIN net \/ (/\ e.kind = "ask" => AskOK(owner, e)'
                                                    /\ e.kind = "answer" => AnswerOK(owner, e)')
    BY <1>14, <1>16, <1>17, <1>18 DEF Quiet
  <2>3. \A u \in Users : phase'[u] = "told" => phase[u] = "told" /\ told'[u] = told[u]
    BY <1>2
  <2> QED
    BY <1>3, <1>9, <1>10, <1>11, <2>1, <2>2, <2>3, LanesFrame
<1> QED
  BY <1>3, <1>9, <1>19, <1>20, SameOwner

-----------------------------------------------------------------------------
\* The child forked for a request works for the one the request is from.
LEMMA ForkHome ==
  ASSUME IInv, WayHome, NEW host \in Routers \cup Tunnels, NEW r \in Seq(Hosts),
         NEW d \in DOMAIN net, d.dst = At(host, KnownPort), Fork(host, r, d.src),
         net' = Take(net, d), UNCHANGED <<phase, typed, told>>
  PROVE  WayHome'
<1>0. PICK new : new = Len(child) + 1
  OBVIOUS
<1>1. /\ Types /\ d.src \in Address /\ Len(child) \in Nat /\ Requested(d) /\ DatagramOK(d)
  BY ChildTypes, NetFacts, Asked DEF IInv
<1>2. d.kind = "request"
  BY <1>1 DEF DatagramOK, At
<1>3. PICK old \in [1 .. Len(child) -> Users] : OneAnswer /\ Lanes(old)
  BY DEF WayHome
<1>4. OneAnswer'
  BY <1>1, <1>2, <1>3, ForkAnswer
<1>5. /\ Keeps /\ new \in Nat /\ Len(child') = new
      /\ \A c \in 1 .. Len(child) : child'[c] = child[c]
      /\ \A c \in 1 .. Len(child') : c # new => c \in 1 .. Len(child)
      /\ child'[new].their_addr = d.src /\ child'[new].phase = "new"
      /\ child'[new].relay.client = NoAddress
  BY <1>0, <1>1, Forked
<1>6. KeepsClients
  BY <1>5 DEF KeepsClients
<1>7. PICK w \in Users :
        \/ d.src = At(w, BuildPort)
        \/ \E p \in 1 .. Len(child) : d.src = Self(p) /\ old[p] = w
  <2>1. CASE \E u \in Users : d.src = At(u, BuildPort)
    BY <2>1
  <2>2. CASE \E p \in 1 .. Len(child) : d.src = Self(p)
    BY <2>2
  <2> QED
    BY <1>1, <2>1, <2>2 DEF Requested
<1>8. PICK owner : owner = [e \in 1 .. new |-> IF e = new THEN w ELSE old[e]]
  OBVIOUS
<1>9. /\ owner \in [1 .. Len(child') -> Users] /\ owner[new] = w
      /\ \A e \in 1 .. Len(child) : owner[e] = old[e] /\ e # new
  BY <1>0, <1>1, <1>5, <1>8
<1>10. Owned(owner, new)'
  <2>1. CASE d.src = At(w, BuildPort)
    BY <1>5, <1>9, <2>1 DEF Owned, At, BuildPort
  <2>2. CASE \E p \in 1 .. Len(child) : d.src = Self(p) /\ old[p] = w
    <3>1. PICK p \in 1 .. Len(child) : d.src = Self(p) /\ old[p] = w
      BY <2>2
    <3>2. p \in 1 .. new - 1 /\ owner[p] = owner[new] /\ Self(p)' = Self(p)
      BY <1>0, <1>1, <1>5, <1>9, <3>1, KeepsAddress
    <3> QED
      BY <1>5, <3>1, <3>2 DEF Owned
  <2> QED
    BY <1>7, <2>1, <2>2
<1>11. ASSUME NEW c \in 1 .. Len(child')
       PROVE  Owned(owner, c)' /\ ServerOK(c)' /\ ClientOK(owner, c)'
  <2>1. CASE c = new
    BY <1>5, <1>10, <2>1 DEF ServerOK, ClientOK
  <2>2. CASE c # new
    <3>1. /\ c \in 1 .. Len(child) /\ child'[c] = child[c]
          /\ Owned(old, c) /\ ServerOK(c) /\ ClientOK(old, c)
      BY <1>3, <1>5, <2>2 DEF Lanes
    <3>2. Owned(owner, c)' /\ ClientOK(owner, c)'
      BY <1>1, <1>5, <1>6, <1>9, <3>1, KeepsOwned, KeepsClient
    <3>3. ServerOK(c)'
      <4>1. CASE child[c].phase = "relay"
        BY <1>1, <1>5, <3>1, <4>1, KeepsServer
      <4>2. CASE child[c].phase # "relay"
        BY <3>1, <4>2 DEF ServerOK
      <4> QED
        BY <4>1, <4>2
    <3> QED
      BY <3>2, <3>3
  <2> QED
    BY <2>1, <2>2
<1>12. ASSUME NEW e \in DOMAIN net'
       PROVE  /\ e.kind = "ask" => AskOK(owner, e)'
              /\ e.kind = "answer" => AnswerOK(owner, e)'
  <2>1. e \in DOMAIN net
    BY TakeDomain
  <2> QED
    BY <1>1, <1>3, <1>5, <1>6, <1>9, <2>1, KeepsAsk, KeepsAnswer DEF Lanes
<1>13. ASSUME NEW u \in Users, phase'[u] = "told"
       PROVE  child'[told'[u]].their_addr = At(u, BuildPort)'
  BY <1>3, <1>5, <1>13, KeepsTold DEF Lanes
<1>14. Lanes(owner)'
  BY <1>11, <1>12, <1>13 DEF Lanes
<1> QED
  BY <1>4, <1>9, <1>14 DEF WayHome

LEMMA TunnelForkHome == ASSUME IInv, WayHome, NEW t \in Tunnels, TunnelFork(t) PROVE WayHome'
<1>1. PICK d \in DOMAIN net : /\ d.dst = At(t, KnownPort)
                              /\ net' = Take(net, d)
                              /\ Fork(t, d.route, d.src)
  BY DEF TunnelFork
<1>2. d.route \in Seq(Hosts) /\ UNCHANGED <<phase, typed, told>>
  BY NetFacts DEF IInv, TunnelFork
<1> QED
  BY <1>1, <1>2, ForkHome

LEMMA RouterForkHome ==
  ASSUME IInv, WayHome, NEW host \in Routers, RouterFork(host) PROVE WayHome'
<1>1. PICK d \in DOMAIN net : /\ d.dst = At(host, KnownPort)
                              /\ net' = Take(net, d)
                              /\ buffer' = [buffer EXCEPT ![host] = Received(d.route, @)]
                              /\ Fork(host, buffer'[host], d.src)
  BY DEF RouterFork
<1>2. /\ buffer \in [Routers -> Seq(Names)] /\ UNCHANGED <<phase, typed, told>>
  BY DEF IInv, Types, RouterFork
<1>3. PICK r : r = Received(d.route, buffer[host])
  OBVIOUS
<1>4. r \in Seq(Hosts) /\ Fork(host, r, d.src)
  <2>1. d.route \in Seq(Names) /\ d.route # <<>>
    BY <1>1, Asked, ConstantFacts
  <2>2. r \in Seq(Names)
    BY <1>2, <1>3, <2>1, ReceivedFacts
  <2>3. r \in Seq(Hosts)
    BY <2>2, SeqMono DEF Hosts, Names
  <2> QED
    BY <1>1, <1>2, <1>3, <2>3
<1> QED
  BY <1>1, <1>2, <1>4, ForkHome

LEMMA InitHome == ASSUME Init PROVE WayHome
<1>1. Len(child) = 0 /\ DOMAIN net = {} /\ \A u \in Users : phase[u] # "told"
  BY DEF Init, NoDatagrams
<1>2. OneAnswer
  BY <1>1 DEF OneAnswer
<1>3. \E owner \in [1 .. Len(child) -> Users] : Lanes(owner)
  <2>1. PICK owner : owner = [c \in {} |-> DestHost]
    OBVIOUS
  <2>2. owner \in [1 .. Len(child) -> Users]
    BY <1>1, <2>1
  <2>3. Lanes(owner)
    BY <1>1 DEF Lanes
  <2> QED
    BY <2>2, <2>3
<1> QED
  BY <1>2, <1>3 DEF WayHome

LEMMA StepHome ==
  ASSUME IInv, WayHome, [Next]_vars, dups' = 0, dups \in Nat PROVE WayHome'
<1>1. ASSUME NEW u \in Users, BuilderAsk(u) \/ BuilderHear(u) \/ AppAsk(u) \/ AppHear(u)
      PROVE  WayHome'
  BY <1>1, BuilderAskHome, BuilderHearHome, AppAskHome, AppHearHome
<1>2. ASSUME NEW r \in Routers, RouterFork(r) PROVE WayHome'
  BY <1>2, RouterForkHome
<1>3. ASSUME NEW t \in Tunnels, TunnelFork(t) PROVE WayHome'
  BY <1>3, TunnelForkHome
<1>4. ASSUME NEW c \in 1 .. Len(child),
             \/ LastHop(c) \/ TunnelHop(c)
             \/ Forward(c) \/ Wait(c) \/ HearReply(c)
             \/ RelayOne(c)
      PROVE  WayHome'
  BY <1>4, LastHopHome, TunnelHopHome, ForwardHome, WaitHome, HearReplyHome, RelayOneHome
<1>5. CASE Timeout
  BY <1>5, TimeoutHome
<1>6. CASE DestAnswer
  BY <1>6, DestAnswerHome
<1>7. CASE Lose
  BY <1>7, LoseHome
<1>8. CASE Duplicate
  BY <1>8 DEF Duplicate
<1>9. CASE UNCHANGED vars
  <2>1. /\ UNCHANGED <<child, timers, phase, typed, told>>
        /\ \A e \in DOMAIN net' : Quiet(e)
    BY <1>9 DEF vars, Quiet
  <2> QED
    BY <2>1, TakeHome
<1> QED
  BY <1>1, <1>2, <1>3, <1>4, <1>5, <1>6, <1>7, <1>8, <1>9 DEF Next

\* The duplicates only ever get more.
LEMMA Doubled ==
  ASSUME [Next]_vars, dups \in Nat PROVE dups' \in Nat /\ (dups' = 0 => dups = 0)
<1>1. dups' = dups \/ dups' = dups + 1
  BY DEF Next, vars, BuilderAsk, BuilderHear, AppAsk, AppHear, RouterFork, TunnelFork,
         LastHop, TunnelHop, Forward, Wait, HearReply, RelayOne, Timeout, DestAnswer,
         Lose, Duplicate
<1> QED
  BY <1>1

-----------------------------------------------------------------------------
\* The invariant of the way home: IInv, and WayHome until something is duplicated.
HInv == IInv /\ dups \in Nat /\ (dups = 0 => WayHome)

\* HInv holds in every state.
THEOREM HInvAlways == Spec => []HInv
<1>1. Init => HInv
  BY InitInv, InitHome DEF HInv, Init
<1>2. HInv /\ [Next]_vars => HInv'
  <2> SUFFICES ASSUME HInv, [Next]_vars PROVE HInv'
    OBVIOUS
  <2>1. IInv' /\ dups' \in Nat /\ (dups' = 0 => dups = 0)
    BY StepInv, Doubled DEF HInv
  <2>2. dups' = 0 => WayHome'
    BY <2>1, StepHome DEF HInv
  <2> QED
    BY <2>1, <2>2 DEF HInv
<1> QED
  BY <1>1, <1>2, PTL DEF Spec

\* AnswersGoHome holds in every state: without duplicates, an answer goes from a
\* relay's server side to the relay and from the first relay to the application
\* that asked (send_socket_data in overlayrouter.c and tunneld.c, which tells the
\* two sides apart by their ports alone).
THEOREM AnswersGoHomeAlways == Spec => []AnswersGoHome
<1>1. ASSUME HInv PROVE AnswersGoHome
  <2> SUFFICES ASSUME dups = 0, NEW d \in DOMAIN net, d.kind = "answer"
               PROVE  \/ d.dst = At(d.user, AppPort)
                      \/ /\ d.dst.port \in 1 .. Len(child)
                         /\ child[d.dst.port].relay.server = d.src
    BY DEF AnswersGoHome
  <2>1. PICK owner \in [1 .. Len(child) -> Users] : Lanes(owner)
    BY <1>1 DEF HInv, WayHome
  <2>2. AnswerOK(owner, d)
    BY <2>1 DEF Lanes
  <2>3. \A p \in 1 .. Len(child) : d.dst = Self(p) => d.dst.port = p
    BY <1>1, SelfFacts DEF HInv, IInv
  <2> QED
    BY <2>2, <2>3 DEF AnswerOK
<1> QED
  BY <1>1, HInvAlways, PTL

\* Without duplicates no relay takes its server for its client, though it takes
\* whoever sends first: the server is not spoken to before a client is known, and
\* no reply is late (client_addr in send_socket_data of overlayrouter.c and tunneld.c).
THEOREM ServerIsNoClientUndoubled == Spec => [](dups = 0 => ServerIsNoClient)
<1>1. ASSUME HInv, dups = 0 PROVE ServerIsNoClient
  <2> SUFFICES ASSUME NEW c \in 1 .. Len(child), child[c].phase = "relay"
               PROVE  child[c].relay.client # child[c].relay.server
    BY DEF ServerIsNoClient
  <2>1. PICK owner \in [1 .. Len(child) -> Users] : Lanes(owner)
    BY <1>1 DEF HInv, WayHome
  <2>2. /\ ServerOK(c) /\ ClientOK(owner, c) /\ NoAddress \notin Address /\ Len(child) \in Nat
        /\ DestAt \in Address
        /\ \A e \in 1 .. Len(child) :
             Self(e) \in Address /\ Self(e).port = e /\ e # AppPort /\ e # DestPort
    BY <1>1, <2>1, SelfFacts, ConstantFacts, ChildTypes, OverlayAssumption
    DEF HInv, IInv, Lanes, Address, Hosts, DestAt, At
  <2>3. PICK server : server = child[c].relay.server
    OBVIOUS
  <2>4. server \in Address /\ (server.port = DestPort \/ server.port \in c + 1 .. Len(child))
    <3>1. CASE server = DestAt
      BY <2>2, <3>1 DEF DestAt, At
    <3>2. CASE server # DestAt
      <4>1. PICK s \in c + 1 .. Len(child) : server = Self(s)
        BY <2>2, <2>3, <3>2 DEF ServerOK
      <4>2. s \in 1 .. Len(child)
        BY <2>2
      <4> QED
        BY <2>2, <4>1, <4>2
    <3> QED
      BY <3>1, <3>2
  <2>5. CASE child[c].relay.client = NoAddress
    BY <2>2, <2>3, <2>4, <2>5
  <2>6. CASE child[c].relay.client = At(owner[c], AppPort)
    <3>1. child[c].relay.client.port = AppPort
      BY <2>6 DEF At
    <3>2. AppPort # DestPort /\ \A e \in 1 .. Len(child) : e # AppPort
      BY <2>2, ConstantFacts
    <3> QED
      BY <2>2, <2>3, <2>4, <3>1, <3>2
  <2>7. CASE \E p \in 1 .. c - 1 : child[c].relay.client = Self(p)
    <3>1. PICK p \in 1 .. c - 1 : child[c].relay.client = Self(p)
      BY <2>7
    <3>2. p \in 1 .. Len(child) /\ p \notin c + 1 .. Len(child)
      BY <2>2
    <3> QED
      BY <2>2, <2>3, <2>4, <3>1, <3>2
  <2> QED
    BY <2>2, <2>5, <2>6, <2>7 DEF ClientOK
<1> QED
  BY <1>1, HInvAlways, PTL

-----------------------------------------------------------------------------
(* Types: what the variables hold, and how long a buffer can get. *)

\* A request can have n names.
LenBound(n) == \E u \in Users : \E route \in Routes[u] : n <= Len(route)

\* What stands in a buffer or a route and is no junk, a request has brought there.
Measured(s) == \A k \in 1 .. Len(s) : s[k] \notin Junk => LenBound(k)

Lengths ==
  /\ \A r \in Routers :
       /\ (\E stack \in Stacks : Len(buffer[r]) <= Len(stack[r])) \/ LenBound(Len(buffer[r]))
       /\ Measured(buffer[r])
  /\ \A c \in 1 .. Len(child) : Measured(child[c].route)

\* Who sends datagrams that are no requests.
Sender ==
  [host : Routers \cup Tunnels \cup Users \cup {DestHost},
   port : Child \cup {AppPort, DestPort}]

Sides(c) ==
  /\ child[c].phase # "relay" => child[c].relay.server = NoAddress
  /\ child[c].relay.client \in Sender \cup {NoAddress}

Sent(d) == d.kind = "request" \/ d.src \in Sender

Timed(c) == child[c].phase = "wait" => \E i \in 1 .. Len(timers) : timers[i] = c

Counts ==
  /\ \A u \in Users : phase[u] # "told" => told[u] = 0
  /\ asked \subseteq Users /\ answered \subseteq Users
  /\ lost \in 0 .. MaxLost /\ dups \in 0 .. MaxDup

TInv ==
  /\ IInv /\ Lengths /\ Counts
  /\ \A c \in 1 .. Len(child) : Sides(c) /\ Timed(c)
  /\ \A d \in DOMAIN net : Sent(d)

\* What one child does to the children.
LEMMA Updated ==
  ASSUME Types, NEW c \in 1 .. Len(child), NEW rec, child' = [child EXCEPT ![c] = rec]
  PROVE  /\ Len(child') = Len(child) /\ child'[c] = rec
         /\ \A e \in 1 .. Len(child) : e # c => child'[e] = child[e]
<1>1. child \in Seq(Record)
  BY DEF Types
<1> QED
  BY <1>1

OneChild(c) ==
  /\ Len(child') = Len(child)
  /\ \A e \in 1 .. Len(child) : e # c => child'[e] = child[e]
  /\ child'[c].route = child[c].route /\ child'[c].their_addr = child[c].their_addr

LEMMA MovedOn ==
  ASSUME Types, NEW c \in 1 .. Len(child), NEW p, child' = [child EXCEPT ![c].phase = p]
  PROVE  OneChild(c) /\ child'[c].phase = p /\ child'[c].relay = child[c].relay
<1> DEFINE rec == [child[c] EXCEPT !.phase = p]
<1>1. child[c] \in Record
  BY ChildTypes
<1>2. /\ rec.phase = p /\ rec.route = child[c].route /\ rec.relay = child[c].relay
      /\ rec.their_addr = child[c].their_addr
  BY <1>1 DEF Record
<1>3. child' = [child EXCEPT ![c] = rec]
  BY <1>1 DEF Types, Record
<1> HIDE DEF rec
<1>4. /\ Len(child') = Len(child) /\ child'[c] = rec
      /\ \A e \in 1 .. Len(child) : e # c => child'[e] = child[e]
  BY <1>3, Updated
<1> QED
  BY <1>2, <1>4 DEF OneChild

LEMMA Started ==
  ASSUME Types, NEW c \in 1 .. Len(child), NEW sv, NEW network, StartRelay(c, sv, network)
  PROVE  /\ OneChild(c) /\ child'[c].phase = "relay"
         /\ child'[c].relay.client = child[c].relay.client
<1> DEFINE rec == [child[c] EXCEPT !.phase = "relay", !.relay.server = sv]
<1>1. child[c] \in Record
  BY ChildTypes
<1>2. /\ rec.phase = "relay" /\ rec.route = child[c].route
      /\ rec.relay.client = child[c].relay.client /\ rec.their_addr = child[c].their_addr
  BY <1>1 DEF Record
<1>3. child' = [child EXCEPT ![c] = rec]
  BY <1>1 DEF Types, Record, StartRelay
<1> HIDE DEF rec
<1>4. /\ Len(child') = Len(child) /\ child'[c] = rec
      /\ \A e \in 1 .. Len(child) : e # c => child'[e] = child[e]
  BY <1>3, Updated
<1> QED
  BY <1>2, <1>4 DEF OneChild

LEMMA Relayed ==
  ASSUME Types, NEW c \in 1 .. Len(child), NEW r, child' = [child EXCEPT ![c].relay = r]
  PROVE  /\ OneChild(c) /\ child'[c].phase = child[c].phase /\ child'[c].relay = r
<1> DEFINE rec == [child[c] EXCEPT !.relay = r]
<1>1. child[c] \in Record
  BY ChildTypes
<1>2. /\ rec.phase = child[c].phase /\ rec.route = child[c].route /\ rec.relay = r
      /\ rec.their_addr = child[c].their_addr
  BY <1>1 DEF Record
<1>3. child' = [child EXCEPT ![c] = rec]
  BY <1>1 DEF Types, Record
<1> HIDE DEF rec
<1>4. /\ Len(child') = Len(child) /\ child'[c] = rec
      /\ \A e \in 1 .. Len(child) : e # c => child'[e] = child[e]
  BY <1>3, Updated
<1> QED
  BY <1>2, <1>4 DEF OneChild

LEMMA SelfSends == ASSUME Types, NEW c \in 1 .. Len(child) PROVE Self(c) \in Sender
<1>1. child[c] \in Record /\ Len(child) \in Nat /\ Len(child) <= MaxChildren /\ MaxChildren \in Nat
  BY ChildTypes, ConstantFacts DEF Types
<1> QED
  BY <1>1 DEF Self, At, Sender, Record, Child

\* A request that a parent reads.
LEMMA AskedMeasured ==
  ASSUME IInv, Lengths, NEW host \in Routers \cup Tunnels, NEW d \in DOMAIN net,
         d.dst = At(host, KnownPort)
  PROVE  Measured(d.route) /\ LenBound(Len(d.route)) /\ d.route \in Seq(Hosts)
<1>1. /\ Requested(d) /\ d.route # <<>> /\ Last(d.route) = host /\ d.route \in Seq(Hosts)
  BY Asked
<1>2. Last(d.route) = d.route[Len(d.route)] /\ Len(d.route) \in Nat /\ Len(d.route) >= 1
  BY <1>1, LastFacts
<1>3. host \notin Junk
  BY OverlayAssumption
<1>4. CASE \E u \in Users : phase[u] # "start" /\ d.route = typed[u]
  <2>1. PICK u \in Users : phase[u] # "start" /\ d.route = typed[u]
    BY <1>4
  <2>2. d.route \in Routes[u]
    BY <2>1 DEF IInv, UserOK
  <2>3. \A k \in 1 .. Len(d.route) : LenBound(k)
    BY <1>2, <2>2 DEF LenBound
  <2> QED
    BY <1>1, <1>2, <2>3 DEF Measured
<1>5. CASE \E c \in 1 .. Len(child) : Asks(c) /\ d.route = Front(child[c].route)
  <2>1. PICK c \in 1 .. Len(child) : Asks(c) /\ d.route = Front(child[c].route)
    BY <1>5
  <2>2. child[c].route \in Seq(Hosts) /\ Len(child[c].route) > 1
    BY <2>1, ChildTypes DEF IInv, Asks
  <2>3. /\ Len(d.route) = Len(child[c].route) - 1
        /\ \A i \in 1 .. Len(d.route) : d.route[i] = child[c].route[i]
    BY <2>1, <2>2, FrontFacts
  <2>4. Measured(child[c].route)
    BY DEF Lengths
  <2>5. \A k \in 1 .. Len(d.route) : k \in 1 .. Len(child[c].route)
    BY <1>2, <2>2, <2>3
  <2>6. Measured(d.route)
    BY <2>3, <2>4, <2>5 DEF Measured
  <2>7. Len(d.route) \in 1 .. Len(d.route) /\ d.route[Len(d.route)] \notin Junk
    BY <1>1, <1>2, <1>3
  <2>8. LenBound(Len(d.route))
    BY <2>6, <2>7 DEF Measured
  <2> QED
    BY <1>1, <2>6, <2>8
<1> QED
  BY <1>1, <1>4, <1>5 DEF Requested

\* The buffer is as long as the longer of what was in it and what has come.
LEMMA ReceivedLength ==
  ASSUME NEW route \in Seq(Names), NEW old \in Seq(Names),
         Measured(route), LenBound(Len(route)), Measured(old)
  PROVE  /\ Measured(Received(route, old))
         /\ \/ Len(Received(route, old)) = Len(old)
            \/ LenBound(Len(Received(route, old)))
<1> DEFINE rest == SubSeq(old, Len(route) + 1, Len(old))
           all == Received(route, old)
<1>1. /\ Len(route) \in Nat /\ Len(old) \in Nat
      /\ \A i \in Len(route) + 1 .. Len(old) : old[i] \in Names
  OBVIOUS
<1>2. /\ rest \in Seq(Names)
      /\ Len(rest) = IF Len(route) + 1 <= Len(old) THEN Len(old) - (Len(route) + 1) + 1 ELSE 0
      /\ \A i \in 1 .. Len(old) - (Len(route) + 1) + 1 : rest[i] = old[Len(route) + 1 + i - 1]
  BY <1>1, SubSeqProperties
<1> HIDE DEF rest
<1>3. /\ Len(route \o rest) = Len(route) + Len(rest)
      /\ \A i \in 1 .. Len(route) + Len(rest) :
           (route \o rest)[i] = IF i <= Len(route) THEN route[i] ELSE rest[i - Len(route)]
  BY <1>2, ConcatProperties
<1>4. all = route \o rest
  BY DEF rest, Received
<1>5. Len(rest) \in Nat
  BY <1>1, <1>2
<1>6. /\ Len(all) = Len(route) + Len(rest)
      /\ \A i \in 1 .. Len(all) :
           all[i] = IF i <= Len(route) THEN route[i] ELSE rest[i - Len(route)]
  BY <1>3, <1>4
<1> HIDE DEF all
<1>7. ASSUME NEW k \in 1 .. Len(all)
      PROVE  \/ k \in 1 .. Len(route) /\ all[k] = route[k]
             \/ k \in 1 .. Len(old) /\ all[k] = old[k]
  <2>1. CASE k <= Len(route)
    BY <1>1, <1>6, <2>1
  <2>2. CASE k > Len(route)
    <3> DEFINE i == k - Len(route)
    <3>1. /\ i \in 1 .. Len(old) - (Len(route) + 1) + 1 /\ Len(route) + 1 + i - 1 = k
          /\ k \in 1 .. Len(old)
      BY <1>1, <1>2, <1>5, <1>6, <2>2
    <3>2. all[k] = rest[i]
      BY <1>1, <1>5, <1>6, <2>2
    <3> HIDE DEF i
    <3> QED
      BY <1>2, <3>1, <3>2
  <2> QED
    BY <1>1, <1>5, <1>6, <2>1, <2>2
<1>8. Measured(all)
  BY <1>7 DEF Measured
<1>9. Len(all) = Len(old) \/ Len(all) = Len(route)
  BY <1>1, <1>2, <1>5, <1>6
<1> QED
  BY <1>8, <1>9 DEF all

\* What a step of a child leaves alone: the buffers, and all other children.
LEMMA ChildStepFacts ==
  ASSUME Types, NEW c \in 1 .. Len(child), ChildStep(c) \/ (Timeout /\ c = Head(timers))
  PROVE  /\ OneChild(c) /\ UNCHANGED <<buffer, phase, told, asked, answered, lost, dups>>
         /\ child'[c].phase # "relay" =>
              child'[c].relay = child[c].relay /\ child[c].phase # "relay"
         /\ RelayOne(c) \/ child'[c].relay.client = child[c].relay.client
<1>1. UNCHANGED <<buffer, phase, told, asked, answered, lost, dups>>
  BY DEF ChildStep, LastHop, TunnelHop, Forward, Wait, HearReply, RelayOne, Timeout
<1>2. ASSUME NEW p, child' = [child EXCEPT ![c].phase = p], child[c].phase # "relay"
      PROVE  /\ OneChild(c)
             /\ child'[c].phase # "relay" =>
                  child'[c].relay = child[c].relay /\ child[c].phase # "relay"
             /\ child'[c].relay.client = child[c].relay.client
  BY <1>2, MovedOn
<1>3. ASSUME NEW sv, NEW network, StartRelay(c, sv, network)
      PROVE  /\ OneChild(c)
             /\ child'[c].phase # "relay" =>
                  child'[c].relay = child[c].relay /\ child[c].phase # "relay"
             /\ child'[c].relay.client = child[c].relay.client
  BY <1>3, Started
<1>4. CASE RelayOne(c)
  <2>1. PICK r : child' = [child EXCEPT ![c].relay = r]
    BY <1>4 DEF RelayOne
  <2>2. child[c].phase = "relay"
    BY <1>4 DEF RelayOne
  <2> QED
    BY <1>1, <1>4, <2>1, <2>2, Relayed
<1>5. CASE LastHop(c) \/ TunnelHop(c) \/ Forward(c) \/ Wait(c) \/ HearReply(c)
  <2>1. child[c].phase # "relay"
    BY <1>5 DEF LastHop, TunnelHop, Forward, Wait, HearReply
  <2>2. \/ \E p : child' = [child EXCEPT ![c].phase = p]
        \/ \E sv, network : StartRelay(c, sv, network)
    BY <1>5 DEF LastHop, TunnelHop, Forward, Wait, HearReply
  <2> QED
    BY <1>1, <1>2, <1>3, <2>1, <2>2
<1>6. CASE Timeout /\ c = Head(timers)
  <2>1. c = timers[1] /\ 1 \in 1 .. Len(timers)
    BY <1>6 DEF Timeout, Types, TimersOK
  <2>2. child[c].phase = "wait"
    BY <2>1 DEF Types, TimersOK
  <2>3. child' = [child EXCEPT ![c].phase = "expired"]
    BY <1>6 DEF Timeout
  <2> QED
    BY <1>1, <1>2, <2>2, <2>3
<1> QED
  BY <1>4, <1>5, <1>6 DEF ChildStep

\* The lengths, when nothing is received.
LEMMA LengthsKept ==
  ASSUME Lengths, buffer' = buffer, Len(child') = Len(child),
         \A c \in 1 .. Len(child) : child'[c].route = child[c].route
  PROVE  Lengths'
BY DEF Lengths, Measured, LenBound

LEMMA LengthsChild ==
  ASSUME Types, Lengths, NEW c \in 1 .. Len(child),
         ChildStep(c) \/ (Timeout /\ c = Head(timers))
  PROVE  Lengths'
<1>1. OneChild(c) /\ buffer' = buffer
  BY ChildStepFacts
<1>2. \A e \in 1 .. Len(child) : child'[e].route = child[e].route
  BY <1>1 DEF OneChild
<1> QED
  BY <1>1, <1>2, LengthsKept DEF OneChild

LEMMA LengthsFork ==
  ASSUME IInv, Lengths, NEW host \in Routers \cup Tunnels, NEW d \in DOMAIN net,
         NEW r \in Seq(Hosts), Fork(host, r, d.src), UNCHANGED <<phase, typed>>,
         Measured(r),
         \A q \in Routers :
           /\ \/ \E stack \in Stacks : Len(buffer'[q]) <= Len(stack[q])
              \/ LenBound(Len(buffer'[q]))
           /\ Measured(buffer'[q])
  PROVE  Lengths'
<1>1. PICK new : new = Len(child) + 1
  OBVIOUS
<1>2. Types /\ d.src \in Address
  BY NetFacts DEF IInv
<1>3. /\ \A c \in 1 .. Len(child) : child'[c] = child[c]
      /\ \A c \in 1 .. Len(child') : c # new => c \in 1 .. Len(child)
      /\ child'[new].route = r
  BY <1>1, <1>2, Forked
<1>4. \A c \in 1 .. Len(child') : Measured(child'[c].route)
  BY <1>3 DEF Lengths
<1> QED
  BY <1>4 DEF Lengths, Measured, LenBound

LEMMA LengthsTunnel ==
  ASSUME IInv, Lengths, NEW t \in Tunnels, TunnelFork(t) PROVE Lengths'
<1>1. PICK d \in DOMAIN net : d.dst = At(t, KnownPort) /\ Fork(t, d.route, d.src)
  BY DEF TunnelFork
<1>2. UNCHANGED <<buffer, phase, typed>>
  BY DEF TunnelFork
<1>3. Measured(d.route) /\ d.route \in Seq(Hosts)
  BY <1>1, AskedMeasured
<1>4. \A q \in Routers :
           /\ \/ \E stack \in Stacks : Len(buffer'[q]) <= Len(stack[q])
              \/ LenBound(Len(buffer'[q]))
           /\ Measured(buffer'[q])
  BY <1>2 DEF Lengths
<1> QED
  BY <1>1, <1>2, <1>3, <1>4, LengthsFork

LEMMA LengthsRouter ==
  ASSUME IInv, Lengths, NEW host \in Routers, RouterFork(host) PROVE Lengths'
<1>1. PICK d \in DOMAIN net : /\ d.dst = At(host, KnownPort)
                              /\ buffer' = [buffer EXCEPT ![host] = Received(d.route, @)]
                              /\ Fork(host, buffer'[host], d.src)
  BY DEF RouterFork
<1>2. UNCHANGED <<phase, typed>> /\ Types /\ buffer \in [Routers -> Seq(Names)]
  BY DEF IInv, RouterFork, Types
<1>3. d.route \in Seq(Names) /\ d.route # <<>> /\ Measured(d.route) /\ LenBound(Len(d.route))
  BY <1>1, Asked, AskedMeasured, ConstantFacts
<1>4. PICK r : r = Received(d.route, buffer[host])
  OBVIOUS
<1>5. /\ buffer'[host] = r /\ \A q \in Routers : q # host => buffer'[q] = buffer[q]
  BY <1>1, <1>2, <1>4
<1>6. buffer[host] \in Seq(Names) /\ Measured(buffer[host])
  BY <1>2 DEF Lengths
<1>7. /\ Measured(r)
      /\ Len(r) = Len(buffer[host]) \/ LenBound(Len(r))
      /\ r \in Seq(Names)
  BY <1>3, <1>4, <1>6, ReceivedLength, ReceivedFacts
<1>8. r \in Seq(Hosts)
  BY <1>7, SeqMono DEF Hosts, Names
<1>9. ASSUME NEW q \in Routers
      PROVE  /\ \/ \E stack \in Stacks : Len(buffer'[q]) <= Len(stack[q])
                \/ LenBound(Len(buffer'[q]))
             /\ Measured(buffer'[q])
  <2>1. /\ (\E stack \in Stacks : Len(buffer[q]) <= Len(stack[q])) \/ LenBound(Len(buffer[q]))
        /\ Measured(buffer[q])
    BY DEF Lengths
  <2>2. CASE q = host
    BY <1>5, <1>7, <2>1, <2>2
  <2>3. CASE q # host
    BY <1>5, <2>1, <2>3
  <2> QED
    BY <2>2, <2>3
<1>10. Fork(host, r, d.src)
  BY <1>1, <1>5
<1> QED
  BY <1>2, <1>7, <1>8, <1>9, <1>10, LengthsFork

LEMMA LengthsStep == ASSUME IInv, Lengths, [Next]_vars PROVE Lengths'
<1>1. Types
  BY DEF IInv
<1>2. CASE buffer' = buffer /\ child' = child
  BY <1>2, LengthsKept
<1>3. ASSUME NEW r \in Routers, RouterFork(r) PROVE Lengths'
  BY <1>3, LengthsRouter
<1>4. ASSUME NEW t \in Tunnels, TunnelFork(t) PROVE Lengths'
  BY <1>4, LengthsTunnel
<1>5. ASSUME NEW c \in 1 .. Len(child), ChildStep(c) PROVE Lengths'
  BY <1>1, <1>5, LengthsChild
<1>6. CASE Timeout
  <2>1. Head(timers) \in 1 .. Len(child)
    BY <1>1, <1>6 DEF Timeout, Types, TimersOK
  <2> QED
    BY <1>1, <1>6, <2>1, LengthsChild
<1>7. \/ buffer' = buffer /\ child' = child
      \/ \E r \in Routers : RouterFork(r)
      \/ \E t \in Tunnels : TunnelFork(t)
      \/ \E c \in 1 .. Len(child) : ChildStep(c)
      \/ Timeout
  BY DEF Next, vars, ChildStep, BuilderAsk, BuilderHear, AppAsk, AppHear, DestAnswer, Lose,
         Duplicate
<1> QED
  BY <1>2, <1>3, <1>4, <1>5, <1>6, <1>7

\* Who sends what comes on its way.
LEMMA SentStep ==
  ASSUME IInv, \A d \in DOMAIN net : Sent(d), [Next]_vars
  PROVE  \A d \in DOMAIN net' : Sent(d)
<1>1. Types
  BY DEF IInv
<1> DEFINE Same == DOMAIN net' \subseteq DOMAIN net
           Adds(e) == DOMAIN net' \subseteq DOMAIN net \cup {e}
<1>2. CASE Same
  BY <1>2
<1>3. ASSUME NEW e, Adds(e), Sent(e) PROVE \A d \in DOMAIN net' : Sent(d)
  BY <1>3
<1>4. ASSUME NEW c \in 1 .. Len(child), NEW dst, NEW kind
      PROVE  Sent(Datagram(Self(c), dst, kind)) /\ Sent(PortTo(Self(c), dst))
  <2>1. Self(c) \in Sender
    BY <1>1, SelfSends
  <2> QED
    BY <2>1 DEF Sent, Datagram, PortTo
<1>5. ASSUME NEW src, NEW host, NEW route PROVE Sent(RequestTo(src, host, route))
  BY DEF Sent, RequestTo, Datagram
<1>6. ASSUME NEW n, NEW e, net' = Put(n, e), DOMAIN n \subseteq DOMAIN net PROVE Adds(e)
  BY <1>6, PutDomain
<1>7. ASSUME NEW c \in 1 .. Len(child), NEW sv, NEW n, StartRelay(c, sv, n),
             DOMAIN n \subseteq DOMAIN net
      PROVE  \A d \in DOMAIN net' : Sent(d)
  <2> DEFINE e == PortTo(Self(c), child[c].their_addr)
  <2>1. net' = Put(n, e) /\ Sent(e)
    BY <1>4, <1>7 DEF StartRelay
  <2> HIDE DEF e
  <2> QED
    BY <1>3, <1>6, <1>7, <2>1
<1>8. ASSUME NEW u \in Users, BuilderAsk(u) \/ BuilderHear(u) \/ AppAsk(u) \/ AppHear(u)
      PROVE  \A d \in DOMAIN net' : Sent(d)
  <2>1. CASE BuilderAsk(u)
    <3>1. PICK e : net' = Put(net, e) /\ Sent(e)
      BY <1>5, <2>1 DEF BuilderAsk
    <3> QED
      BY <1>3, <1>6, <3>1
  <2>2. CASE AppAsk(u)
    <3> DEFINE e == [Datagram(At(u, AppPort), At(Last(typed[u]), told[u]), "ask")
                        EXCEPT !.user = u]
    <3>1. At(u, AppPort) \in Sender
      BY DEF Sender, At
    <3>2. e.src = At(u, AppPort)
      BY DEF Datagram
    <3>3. net' = Put(net, e)
      BY <2>2 DEF AppAsk
    <3> HIDE DEF e
    <3>4. Sent(e)
      BY <3>1, <3>2 DEF Sent
    <3> QED
      BY <1>3, <1>6, <3>3, <3>4
  <2>3. CASE BuilderHear(u) \/ AppHear(u)
    <3>1. PICK d : net' = Take(net, d)
      BY <2>3 DEF BuilderHear, AppHear
    <3> QED
      BY <1>2, <3>1, TakeDomain
  <2> QED
    BY <1>8, <2>1, <2>2, <2>3
<1>9. ASSUME NEW c \in 1 .. Len(child), ChildStep(c) PROVE \A d \in DOMAIN net' : Sent(d)
  <2>1. CASE LastHop(c)
    <3>1. StartRelay(c, DestAt, net) \/ net' = net
      BY <2>1 DEF LastHop
    <3> QED
      BY <1>2, <1>7, <3>1
  <2>2. CASE TunnelHop(c)
    <3>1. \/ StartRelay(c, DestAt, net)
          \/ \E e : net' = Put(net, e) /\ Sent(e)
      BY <1>4, <2>2 DEF TunnelHop
    <3> QED
      BY <1>3, <1>6, <1>7, <3>1
  <2>3. CASE Forward(c)
    <3>1. PICK e : net' = Put(net, e) /\ Sent(e)
      BY <1>5, <2>3 DEF Forward
    <3> QED
      BY <1>3, <1>6, <3>1
  <2>4. CASE Wait(c)
    BY <1>2, <2>4 DEF Wait
  <2>5. CASE HearReply(c)
    <3>1. PICK d : \/ StartRelay(c, At(NextHop(c), d.port), Take(net, d))
                   \/ net' = Take(net, d)
      BY <2>5 DEF HearReply
    <3>2. DOMAIN Take(net, d) \subseteq DOMAIN net
      BY TakeDomain
    <3> QED
      BY <1>2, <1>7, <3>1, <3>2
  <2>6. CASE RelayOne(c)
    <3>1. PICK d \in DOMAIN net : \/ net' = Take(net, d)
                                  \/ \E dst : net' = Put(Take(net, d), Forwarded(d, Self(c), dst))
      BY <2>6 DEF RelayOne
    <3>2. DOMAIN Take(net, d) \subseteq DOMAIN net
      BY TakeDomain
    <3>3. CASE net' = Take(net, d)
      BY <1>2, <3>2, <3>3
    <3>4. ASSUME NEW dst, net' = Put(Take(net, d), Forwarded(d, Self(c), dst))
          PROVE  \A f \in DOMAIN net' : Sent(f)
      <4>1. Forwarded(d, Self(c), dst).src = Self(c)
        BY <1>1, NetFacts DEF Forwarded, Message
      <4>2. Sent(Forwarded(d, Self(c), dst))
        BY <1>1, <4>1, SelfSends DEF Sent
      <4> QED
        BY <1>3, <1>6, <3>2, <3>4, <4>2
    <3> QED
      BY <3>1, <3>3, <3>4
  <2> QED
    BY <1>9, <2>1, <2>2, <2>3, <2>4, <2>5, <2>6 DEF ChildStep
<1>10. CASE Timeout
  <2>1. Head(timers) \in 1 .. Len(child)
    BY <1>1, <1>10 DEF Timeout, Types, TimersOK
  <2>2. PICK e : net' = Put(net, e) /\ Sent(e)
    BY <1>4, <1>10, <2>1 DEF Timeout, Expire
  <2> QED
    BY <1>3, <1>6, <2>2
<1>11. CASE DestAnswer
  <2>1. PICK d \in DOMAIN net :
          net' = Put(Take(net, d), [Forwarded(d, DestAt, d.src) EXCEPT !.kind = "answer"])
    BY <1>11 DEF DestAnswer
  <2> DEFINE e == [Forwarded(d, DestAt, d.src) EXCEPT !.kind = "answer"]
  <2>2. e.src = DestAt
    BY <1>1, NetFacts DEF Forwarded, Message
  <2>3. DestAt \in Sender
    BY DEF DestAt, At, Sender
  <2>4. net' = Put(Take(net, d), e) /\ DOMAIN Take(net, d) \subseteq DOMAIN net
    BY <2>1, TakeDomain
  <2> HIDE DEF e
  <2>5. Sent(e)
    BY <2>2, <2>3 DEF Sent
  <2> QED
    BY <1>3, <1>6, <2>4, <2>5
<1>12. CASE Lose
  <2>1. PICK d : net' = Take(net, d)
    BY <1>12 DEF Lose
  <2> QED
    BY <1>2, <2>1, TakeDomain
<1>13. CASE Duplicate
  <2>1. PICK d \in DOMAIN net : net' = Put(net, d)
    BY <1>13 DEF Duplicate
  <2> QED
    BY <1>3, <1>6, <2>1
<1>14. ASSUME NEW h, RouterFork(h) \/ TunnelFork(h) PROVE \A d \in DOMAIN net' : Sent(d)
  <2>1. PICK d : net' = Take(net, d)
    BY <1>14 DEF RouterFork, TunnelFork
  <2> QED
    BY <1>2, <2>1, TakeDomain
<1>15. CASE UNCHANGED vars
  BY <1>2, <1>15 DEF vars
<1> QED
  BY <1>8, <1>9, <1>10, <1>11, <1>12, <1>13, <1>14, <1>15 DEF Next, ChildStep

\* A fork, a step of one child, or none: what a child knows.
LEMMA SidesStep ==
  ASSUME TInv, [Next]_vars PROVE \A c \in 1 .. Len(child') : Sides(c)'
<1>1. Types /\ IInv
  BY DEF TInv, IInv
<1>2. ASSUME NEW host \in Routers \cup Tunnels, NEW r \in Seq(Hosts), NEW d \in DOMAIN net,
             Fork(host, r, d.src), UNCHANGED <<phase, typed>>
      PROVE  \A c \in 1 .. Len(child') : Sides(c)'
  <2>1. PICK new : new = Len(child) + 1
    OBVIOUS
  <2>2. d.src \in Address
    BY <1>1, NetFacts
  <2>3. /\ \A c \in 1 .. Len(child) : child'[c] = child[c]
        /\ \A c \in 1 .. Len(child') : c # new => c \in 1 .. Len(child)
        /\ child'[new].relay.client = NoAddress
    BY <1>1, <1>2, <2>1, <2>2, Forked
  <2>4. child'[new].relay.server = NoAddress
    BY <1>1, <1>2, <2>1 DEF Fork, Types
  <2>5. ASSUME NEW c \in 1 .. Len(child') PROVE Sides(c)'
    <3>1. CASE c = new
      BY <2>3, <2>4, <3>1 DEF Sides
    <3>2. CASE c # new
      <4>1. c \in 1 .. Len(child) /\ child'[c] = child[c]
        BY <2>3, <3>2
      <4> QED
        BY <4>1 DEF TInv, Sides, Sender
    <3> QED
      BY <3>1, <3>2
  <2> QED
    BY <2>5
<1>3. ASSUME NEW c \in 1 .. Len(child), ChildStep(c) \/ (Timeout /\ c = Head(timers))
      PROVE  \A e \in 1 .. Len(child') : Sides(e)'
  <2>1. /\ OneChild(c)
        /\ child'[c].phase # "relay" =>
             child'[c].relay = child[c].relay /\ child[c].phase # "relay"
        /\ RelayOne(c) \/ child'[c].relay.client = child[c].relay.client
    BY <1>1, <1>3, ChildStepFacts
  <2>2. Sides(c)
    BY DEF TInv
  <2>3. child'[c].relay.client \in Sender \cup {NoAddress}
    <3>1. CASE RelayOne(c)
      <4>1. PICK d \in DOMAIN net :
              /\ d.dst = Self(c)
              /\ child' = [child EXCEPT ![c].relay =
                             [child[c].relay EXCEPT !.client = Learn(child[c].relay, d.src)]]
        BY <3>1 DEF RelayOne
      <4>2. child'[c].relay = [child[c].relay EXCEPT !.client = Learn(child[c].relay, d.src)]
        BY <1>1, <4>1, Relayed
      <4>3. child'[c].relay.client = Learn(child[c].relay, d.src)
        <5>1. child[c].relay \in [server : Address \cup {NoAddress}, client : Address \cup {NoAddress}]
          BY <1>1, ChildTypes DEF Record
        <5> QED
          BY <4>2, <5>1
      <4>4. d.kind # "request"
        <5>1. DatagramOK(d) /\ d.dst.port = c /\ c # KnownPort
          BY <1>1, <4>1, SelfFacts DEF IInv
        <5>2. ASSUME d.kind = "request" PROVE FALSE
          BY <5>1, <5>2 DEF DatagramOK, Requested, At
        <5> QED
          BY <5>2
      <4>5. d.src \in Sender
        BY <4>4 DEF TInv, Sent
      <4> QED
        BY <2>2, <4>3, <4>5 DEF Learn, Sides
    <3>2. CASE child'[c].relay.client = child[c].relay.client
      BY <2>2, <3>2 DEF Sides
    <3> QED
      BY <2>1, <3>1, <3>2
  <2>4. Sides(c)'
    BY <2>1, <2>2, <2>3 DEF Sides, Sender
  <2>5. ASSUME NEW e \in 1 .. Len(child), e # c PROVE Sides(e)'
    BY <2>1, <2>5 DEF OneChild, TInv, Sides, Sender
  <2> QED
    BY <2>1, <2>4, <2>5 DEF OneChild
<1>4. CASE child' = child
  BY <1>4 DEF TInv, Sides, Sender
<1>5. ASSUME NEW r \in Routers, RouterFork(r) PROVE \A c \in 1 .. Len(child') : Sides(c)'
  <2>1. PICK d \in DOMAIN net : Fork(r, buffer'[r], d.src)
    BY <1>5 DEF RouterFork
  <2>2. UNCHANGED <<phase, typed>>
    BY <1>5 DEF RouterFork
  <2>3. buffer'[r] \in Seq(Hosts)
    <3>1. IInv'
      BY <1>1, <1>5, RouterForkInv
    <3>2. buffer'[r] \in Seq(Names)
      BY <3>1 DEF IInv, Types
    <3> QED
      BY <3>2, SeqMono DEF Hosts, Names
  <2> QED
    BY <1>2, <2>1, <2>2, <2>3
<1>6. ASSUME NEW t \in Tunnels, TunnelFork(t) PROVE \A c \in 1 .. Len(child') : Sides(c)'
  <2>1. PICK d \in DOMAIN net : Fork(t, d.route, d.src)
    BY <1>6 DEF TunnelFork
  <2>2. UNCHANGED <<phase, typed>> /\ d.route \in Seq(Hosts)
    BY <1>1, <1>6, NetFacts DEF TunnelFork
  <2> QED
    BY <1>2, <2>1, <2>2
<1>7. CASE Timeout
  <2>1. Head(timers) \in 1 .. Len(child)
    BY <1>1, <1>7 DEF Timeout, Types, TimersOK
  <2> QED
    BY <1>3, <1>7, <2>1
<1>8. \/ child' = child
      \/ \E r \in Routers : RouterFork(r)
      \/ \E t \in Tunnels : TunnelFork(t)
      \/ \E c \in 1 .. Len(child) : ChildStep(c)
      \/ Timeout
  BY DEF Next, vars, ChildStep, BuilderAsk, BuilderHear, AppAsk, AppHear, DestAnswer, Lose,
         Duplicate
<1> QED
  BY <1>3, <1>4, <1>5, <1>6, <1>7, <1>8

\* A child that begins to wait sets a timer, and only its own timer goes when it ends.
LEMMA TimedChild ==
  ASSUME \A e \in 1 .. Len(child) : Timed(e), NEW c \in 1 .. Len(child), OneChild(c),
         child'[c].phase = "wait" => \E j \in 1 .. Len(timers') : timers'[j] = c,
         \A i \in 1 .. Len(timers) : timers[i] # c =>
           \E j \in 1 .. Len(timers') : timers'[j] = timers[i]
  PROVE  \A e \in 1 .. Len(child') : Timed(e)'
<1>1. Timed(c)'
  BY DEF Timed
<1>2. ASSUME NEW e \in 1 .. Len(child), e # c PROVE Timed(e)'
  <2>1. child'[e] = child[e] /\ Timed(e)
    BY <1>2 DEF OneChild
  <2> QED
    BY <1>2, <2>1 DEF Timed
<1> QED
  BY <1>1, <1>2 DEF OneChild

LEMMA TimedWait ==
  ASSUME Types, \A e \in 1 .. Len(child) : Timed(e), NEW c \in 1 .. Len(child), Wait(c)
  PROVE  \A e \in 1 .. Len(child') : Timed(e)'
<1>1. OneChild(c)
  BY ChildStepFacts DEF ChildStep
<1>2. /\ timers \in Seq(1 .. Len(child)) /\ Len(timers) \in Nat
      /\ timers' = Append(timers, c)
  BY DEF Types, TimersOK, Wait
<1>3. /\ Len(timers') = Len(timers) + 1 /\ timers'[Len(timers) + 1] = c
      /\ \A i \in 1 .. Len(timers) : timers'[i] = timers[i]
  BY <1>2
<1>4. /\ Len(timers) + 1 \in 1 .. Len(timers')
      /\ \A i \in 1 .. Len(timers) : i \in 1 .. Len(timers')
  BY <1>2, <1>3
<1>5. \E j \in 1 .. Len(timers') : timers'[j] = c
  BY <1>3, <1>4
<1>6. \A i \in 1 .. Len(timers) : \E j \in 1 .. Len(timers') : timers'[j] = timers[i]
  BY <1>3, <1>4
<1> QED
  BY <1>1, <1>5, <1>6, TimedChild

LEMMA TimedHear ==
  ASSUME Types, \A e \in 1 .. Len(child) : Timed(e), NEW c \in 1 .. Len(child), HearReply(c)
  PROVE  \A e \in 1 .. Len(child') : Timed(e)'
<1>1. OneChild(c)
  BY ChildStepFacts DEF ChildStep
<1>2. child'[c].phase # "wait"
  <2>1. \/ child' = [child EXCEPT ![c].phase = "refused"]
        \/ \E sv, network : StartRelay(c, sv, network)
    BY DEF HearReply
  <2> QED
    BY <2>1, MovedOn, Started
<1>3. PICK i \in DOMAIN timers : timers[i] = c /\ timers' = RemoveAt(timers, i)
  BY DEF HearReply
<1>4. timers \in Seq(1 .. Len(child)) /\ Len(timers) \in Nat /\ i \in 1 .. Len(timers)
  BY DEF Types, TimersOK
<1>5. /\ Len(timers') = Len(timers) - 1
      /\ \A j \in 1 .. Len(timers) - 1 :
           timers'[j] = IF j < i THEN timers[j] ELSE timers[j + 1]
  BY <1>3, <1>4, RemoveAtFacts
<1>6. ASSUME NEW k \in 1 .. Len(timers), timers[k] # c
      PROVE  \E j \in 1 .. Len(timers') : timers'[j] = timers[k]
  <2>1. k # i
    BY <1>3, <1>6
  <2>2. CASE k < i
    <3>1. k \in 1 .. Len(timers) - 1 /\ k \in 1 .. Len(timers')
      BY <1>4, <1>5, <2>2
    <3>2. timers'[k] = timers[k]
      BY <1>5, <2>2, <3>1
    <3> QED
      BY <3>1, <3>2
  <2>3. CASE k > i
    <3>1. PICK j : j = k - 1
      OBVIOUS
    <3>2. /\ j \in 1 .. Len(timers) - 1 /\ j \in 1 .. Len(timers')
          /\ ~(j < i) /\ j + 1 = k
      BY <1>4, <1>5, <2>3, <3>1
    <3>3. timers'[j] = timers[k]
      BY <1>5, <3>2
    <3> QED
      BY <3>2, <3>3
  <2> QED
    BY <1>4, <2>1, <2>2, <2>3
<1> QED
  BY <1>1, <1>2, <1>6, TimedChild

LEMMA TimedTimeout ==
  ASSUME Types, \A e \in 1 .. Len(child) : Timed(e), Timeout
  PROVE  \A e \in 1 .. Len(child') : Timed(e)'
<1>1. /\ timers \in Seq(1 .. Len(child)) /\ Len(timers) \in Nat /\ Len(timers) >= 1
      /\ timers' = Tail(timers)
  BY DEF Types, TimersOK, Timeout
<1>2. PICK c : c = Head(timers)
  OBVIOUS
<1>3. c \in 1 .. Len(child) /\ timers[1] = c
  BY <1>1, <1>2
<1>4. OneChild(c)
  BY <1>2, <1>3, ChildStepFacts
<1>5. child'[c].phase # "wait"
  BY <1>2, <1>3, MovedOn DEF Timeout
<1>6. /\ Len(timers') = Len(timers) - 1
      /\ \A j \in 1 .. Len(timers) - 1 : timers'[j] = timers[j + 1]
  BY <1>1
<1>7. ASSUME NEW k \in 1 .. Len(timers), timers[k] # c
      PROVE  \E j \in 1 .. Len(timers') : timers'[j] = timers[k]
  <2>1. k # 1
    BY <1>3, <1>7
  <2>2. PICK j : j = k - 1
    OBVIOUS
  <2>3. j \in 1 .. Len(timers) - 1 /\ j \in 1 .. Len(timers') /\ j + 1 = k
    BY <1>1, <1>6, <2>1, <2>2
  <2>4. timers'[j] = timers[k]
    BY <1>6, <2>3
  <2> QED
    BY <2>3, <2>4
<1> QED
  BY <1>3, <1>4, <1>5, <1>7, TimedChild

LEMMA TimedStep ==
  ASSUME TInv, [Next]_vars
  PROVE  \A c \in 1 .. Len(child') : Timed(c)'
<1>1. Types /\ IInv /\ \A e \in 1 .. Len(child) : Timed(e)
  BY DEF TInv, IInv
<1>2. ASSUME NEW host \in Routers \cup Tunnels, NEW r \in Seq(Hosts), NEW d \in DOMAIN net,
             Fork(host, r, d.src), UNCHANGED <<timers, phase, typed>>
      PROVE  \A c \in 1 .. Len(child') : Timed(c)'
  <2>1. PICK new : new = Len(child) + 1
    OBVIOUS
  <2>2. d.src \in Address
    BY <1>1, NetFacts
  <2>3. /\ \A c \in 1 .. Len(child) : child'[c] = child[c]
        /\ \A c \in 1 .. Len(child') : c # new => c \in 1 .. Len(child)
        /\ child'[new].phase = "new"
    BY <1>1, <1>2, <2>1, <2>2, Forked
  <2>4. ASSUME NEW c \in 1 .. Len(child'), c # new PROVE Timed(c)'
    <3>1. c \in 1 .. Len(child) /\ child'[c] = child[c] /\ timers' = timers
      BY <1>2, <2>3, <2>4
    <3>2. Timed(c)
      BY <1>1, <3>1
    <3> QED
      BY <3>1, <3>2 DEF Timed
  <2>5. Timed(new)'
    BY <2>3 DEF Timed
  <2> QED
    BY <2>4, <2>5
<1>3. ASSUME NEW c \in 1 .. Len(child),
             LastHop(c) \/ TunnelHop(c) \/ Forward(c) \/ RelayOne(c)
      PROVE  \A e \in 1 .. Len(child') : Timed(e)'
  <2>1. OneChild(c) /\ timers' = timers
    BY <1>1, <1>3, ChildStepFacts
    DEF ChildStep, LastHop, TunnelHop, Forward, RelayOne
  <2>2. child'[c].phase # "wait"
    <3>1. CASE RelayOne(c)
      <4>1. child[c].phase = "relay" /\ \E r : child' = [child EXCEPT ![c].relay = r]
        BY <3>1 DEF RelayOne
      <4> QED
        BY <1>1, <4>1, Relayed
    <3>2. CASE LastHop(c) \/ TunnelHop(c) \/ Forward(c)
      <4>1. \/ \E p : p # "wait" /\ child' = [child EXCEPT ![c].phase = p]
            \/ \E sv, network : StartRelay(c, sv, network)
        BY <3>2 DEF LastHop, TunnelHop, Forward
      <4> QED
        BY <1>1, <4>1, MovedOn, Started
    <3> QED
      BY <1>3, <3>1, <3>2
  <2> QED
    BY <1>1, <2>1, <2>2, TimedChild
<1>4. CASE UNCHANGED <<child, timers>>
  BY <1>1, <1>4 DEF Timed
<1>5. ASSUME NEW r \in Routers, RouterFork(r) PROVE \A c \in 1 .. Len(child') : Timed(c)'
  <2>1. PICK d \in DOMAIN net : Fork(r, buffer'[r], d.src)
    BY <1>5 DEF RouterFork
  <2>2. UNCHANGED <<timers, phase, typed>>
    BY <1>5 DEF RouterFork
  <2>3. buffer'[r] \in Seq(Hosts)
    <3>1. IInv'
      BY <1>1, <1>5, RouterForkInv
    <3>2. buffer'[r] \in Seq(Names)
      BY <3>1 DEF IInv, Types
    <3> QED
      BY <3>2, SeqMono DEF Hosts, Names
  <2> QED
    BY <1>2, <2>1, <2>2, <2>3
<1>6. ASSUME NEW t \in Tunnels, TunnelFork(t) PROVE \A c \in 1 .. Len(child') : Timed(c)'
  <2>1. PICK d \in DOMAIN net : Fork(t, d.route, d.src)
    BY <1>6 DEF TunnelFork
  <2>2. UNCHANGED <<timers, phase, typed>> /\ d.route \in Seq(Hosts)
    BY <1>1, <1>6, NetFacts DEF TunnelFork
  <2> QED
    BY <1>2, <2>1, <2>2
<1>7. \/ UNCHANGED <<child, timers>>
      \/ \E r \in Routers : RouterFork(r)
      \/ \E t \in Tunnels : TunnelFork(t)
      \/ \E c \in 1 .. Len(child) :
           LastHop(c) \/ TunnelHop(c) \/ Forward(c) \/ Wait(c) \/ HearReply(c) \/ RelayOne(c)
      \/ Timeout
  BY DEF Next, vars, BuilderAsk, BuilderHear, AppAsk, AppHear, DestAnswer, Lose, Duplicate
<1> QED
  BY <1>1, <1>3, <1>4, <1>5, <1>6, <1>7, TimedWait, TimedHear, TimedTimeout

\* What is counted.
LEMMA CountsStep ==
  ASSUME Types, Counts, [Next]_vars
  PROVE  Counts'
<1>1. MaxLost \in Nat /\ MaxDup \in Nat
  BY OverlayAssumption
<1>2. ASSUME NEW u \in Users, BuilderAsk(u) PROVE Counts'
  <2>1. /\ phase' = [phase EXCEPT ![u] = "waiting"] /\ phase[u] = "start"
        /\ UNCHANGED <<told, asked, answered, lost, dups>>
    BY <1>2 DEF BuilderAsk
  <2>2. \A v \in Users : phase'[v] # "told" => phase[v] # "told"
    BY <2>1 DEF Types
  <2> QED
    BY <2>1, <2>2 DEF Counts
<1>3. ASSUME NEW u \in Users, BuilderHear(u) PROVE Counts'
  <2>1. /\ UNCHANGED <<asked, answered, lost, dups>>
        /\ phase[u] = "waiting"
        /\ \/ phase' = [phase EXCEPT ![u] = "failed"] /\ told' = told
           \/ /\ phase' = [phase EXCEPT ![u] = "told"]
              /\ \E p : told' = [told EXCEPT ![u] = p]
    BY <1>3 DEF BuilderHear
  <2>2. ASSUME NEW v \in Users, phase'[v] # "told" PROVE told'[v] = 0
    <3>1. CASE v = u
      BY <2>1, <2>2, <3>1 DEF Types, Counts
    <3>2. CASE v # u
      <4>1. phase'[v] = phase[v] /\ told'[v] = told[v]
        BY <2>1, <3>2 DEF Types
      <4> QED
        BY <2>2, <4>1 DEF Counts
    <3> QED
      BY <3>1, <3>2
  <2> QED
    BY <2>1, <2>2 DEF Counts
<1>4. ASSUME NEW u \in Users, AppAsk(u) \/ AppHear(u) PROVE Counts'
  BY <1>4 DEF AppAsk, AppHear, Counts
<1>5. CASE Lose
  <2>1. lost' = lost + 1 /\ lost < MaxLost /\ UNCHANGED <<phase, told, asked, answered, dups>>
    BY <1>5 DEF Lose
  <2> QED
    BY <1>1, <2>1 DEF Counts
<1>6. CASE Duplicate
  <2>1. dups' = dups + 1 /\ dups < MaxDup /\ UNCHANGED <<phase, told, asked, answered, lost>>
    BY <1>6 DEF Duplicate
  <2> QED
    BY <1>1, <2>1 DEF Counts
<1>7. CASE UNCHANGED <<phase, told, asked, answered, lost, dups>>
  BY <1>7 DEF Counts
<1>8. \/ UNCHANGED <<phase, told, asked, answered, lost, dups>>
      \/ \E u \in Users : BuilderAsk(u) \/ BuilderHear(u) \/ AppAsk(u) \/ AppHear(u)
      \/ Lose \/ Duplicate
  BY DEF Next, vars, RouterFork, TunnelFork, LastHop, TunnelHop, Forward, Wait, HearReply,
         RelayOne, Timeout, DestAnswer
<1> QED
  BY <1>2, <1>3, <1>4, <1>5, <1>6, <1>7, <1>8

LEMMA InitTypes == ASSUME Init PROVE TInv
<1>1. IInv
  BY InitInv
<1>2. Len(child) = 0 /\ DOMAIN net = {}
  BY DEF Init, NoDatagrams
<1>3. Lengths
  <2>1. ASSUME NEW r \in Routers
        PROVE  /\ \E stack \in Stacks : Len(buffer[r]) <= Len(stack[r])
               /\ Measured(buffer[r])
    <3>1. buffer \in Stacks /\ buffer \in [Routers -> Seq(Junk)]
      BY OverlayAssumption DEF Init
    <3>2. buffer[r] \in Seq(Junk)
      BY <3>1
    <3>3. Len(buffer[r]) <= Len(buffer[r]) /\ \A k \in 1 .. Len(buffer[r]) : buffer[r][k] \in Junk
      BY <3>2
    <3> QED
      BY <3>1, <3>3 DEF Measured
  <2> QED
    BY <1>2, <2>1 DEF Lengths
<1>4. Counts
  BY OverlayAssumption DEF Init, Counts
<1> QED
  BY <1>1, <1>2, <1>3, <1>4 DEF TInv

LEMMA StepTypes == ASSUME TInv, [Next]_vars PROVE TInv'
<1>1. IInv /\ Types /\ Lengths /\ Counts /\ \A d \in DOMAIN net : Sent(d)
  BY DEF TInv, IInv
<1>2. IInv' /\ Lengths' /\ Counts'
  BY <1>1, StepInv, LengthsStep, CountsStep
<1>3. \A d \in DOMAIN net' : Sent(d)'
  BY <1>1, SentStep DEF Sent, Sender
<1>4. \A c \in 1 .. Len(child') : Sides(c)' /\ Timed(c)'
  BY SidesStep, TimedStep
<1> QED
  BY <1>2, <1>3, <1>4 DEF TInv

\* The record of a child.
LEMMA ChildRecords == ASSUME TInv, NEW c \in 1 .. Len(child) PROVE child[c] \in ChildRecord
<1>1. /\ child[c] \in Record /\ Types /\ ChildOK(c) /\ RelayOK(c) /\ Sides(c)
      /\ Len(child) \in Nat /\ Len(child) <= MaxChildren /\ MaxChildren \in Nat
  BY ChildTypes, ConstantFacts DEF TInv, IInv, Types
<1>2. c \in Child
  BY <1>1 DEF Child
<1> DEFINE rec == child[c]
<1>3. /\ rec.host \in Routers \cup Tunnels /\ rec.phase \in Phase
      /\ rec.route \in Seq(Hosts) /\ rec.their_addr \in Address
      /\ rec.relay \in [server : Address \cup {NoAddress}, client : Address \cup {NoAddress}]
      /\ rec = [host |-> rec.host, phase |-> rec.phase, route |-> rec.route,
                their_addr |-> rec.their_addr, relay |-> rec.relay]
      /\ rec.relay = [server |-> rec.relay.server, client |-> rec.relay.client]
  BY <1>1 DEF Record
<1>4. rec.route # <<>>
  BY <1>1 DEF ChildOK
<1>5. rec.route \in Seq(Routers \cup Tunnels \cup Junk)
  <2>1. CASE rec.route \in Seq(Names)
    BY <2>1, SeqMono DEF Names
  <2>2. CASE rec.host \in Tunnels /\ Len(rec.route) = 1
    <3>1. ASSUME NEW r \in Seq(Hosts), r # <<>>, Extends(rec.route, r) PROVE rec.route[1] = Last(r)
      <4>1. Len(r) \in Nat /\ Len(r) >= 1 /\ Len(r) <= 1
        BY <2>2, <3>1 DEF Extends
      <4>2. Len(r) = 1 /\ 1 \in 1 .. Len(r)
        BY <4>1
      <4>3. rec.route[1] = r[1]
        BY <3>1, <4>2 DEF Extends
      <4> QED
        BY <4>2, <4>3 DEF Last
    <3>2. rec.route[1] = rec.host
      <4>1. CASE FromUser(c)
        <5>1. PICK u \in Users : Extends(rec.route, typed[u]) /\ rec.host = Last(typed[u])
          BY <4>1 DEF FromUser
        <5>2. typed[u] \in Seq(Hosts) /\ typed[u] # <<>>
          BY <1>1, <5>1 DEF Types, Extends
        <5> QED
          BY <3>1, <5>1, <5>2
      <4>2. CASE FromChild(c)
        <5>1. PICK e \in 1 .. c - 1 : /\ Asks(e)
                                      /\ Extends(rec.route, Front(child[e].route))
                                      /\ rec.host = Last(Front(child[e].route))
          BY <4>2 DEF FromChild
        <5>2. child[e].route \in Seq(Hosts) /\ Len(child[e].route) > 1
          BY <1>1, <5>1, ChildTypes DEF Asks
        <5>3. Front(child[e].route) \in Seq(Hosts) /\ Front(child[e].route) # <<>>
          BY <5>2, FrontFacts
        <5> QED
          BY <3>1, <5>1, <5>3
      <4> QED
        BY <1>1, <4>1, <4>2 DEF ChildOK
    <3>3. rec.route = [i \in 1 .. 1 |-> rec.route[i]] /\ \A i \in 1 .. 1 : rec.route[i] = rec.host
      BY <1>3, <2>2, <3>2
    <3> QED
      BY <2>2, <3>3, IsASeq
  <2> QED
    BY <1>1, <2>1, <2>2 DEF ChildOK
<1>6. rec.their_addr \in [host : Routers \cup Users, port : Child \cup {BuildPort}]
  <2>1. CASE FromUser(c)
    BY <2>1 DEF FromUser, At
  <2>2. CASE FromChild(c)
    <3>1. PICK e \in 1 .. c - 1 : rec.their_addr = At(child[e].host, e) /\ Asks(e)
      BY <2>2 DEF FromChild, Self
    <3>2. child[e].host \in Routers /\ e \in Child
      BY <1>1, <3>1 DEF Asks, Child
    <3> QED
      BY <3>1, <3>2 DEF At
  <2> QED
    BY <1>1, <2>1, <2>2 DEF ChildOK
<1>7. rec.relay.server \in
        [host : Routers \cup {DestHost}, port : Child \cup {DestPort}] \cup {NoAddress}
  <2>1. CASE rec.phase # "relay"
    BY <1>1, <2>1 DEF Sides
  <2>2. CASE rec.phase = "relay" /\ Len(rec.route) = 1
    BY <1>1, <2>2 DEF RelayOK, HandsOn, DestAt, At
  <2>3. CASE rec.phase = "relay" /\ Len(rec.route) # 1
    <3>1. PICK s \in c + 1 .. Len(child) : /\ rec.relay.server = Self(s)
                                           /\ child[s].phase = "relay"
                                           /\ child[s].route = Front(rec.route)
      BY <1>1, <2>3 DEF RelayOK, HandsOn
    <3>2. s \in 1 .. Len(child) /\ s \in Child
      BY <1>1, <1>2 DEF Child
    <3>3. rec.route \in Seq(Names) /\ Len(rec.route) > 1
      <4>1. rec.route \in Seq(Names)
        BY <1>1, <2>3 DEF ChildOK
      <4>2. ASSUME NEW q \in Seq(Names), q # <<>>, Len(q) # 1 PROVE Len(q) > 1
        <5>1. Len(q) \in Nat /\ Len(q) >= 1
          BY <4>2, LastFacts
        <5>2. \A n \in Nat : n >= 1 /\ n # 1 => n > 1
          OBVIOUS
        <5> QED
          BY <4>2, <5>1, <5>2
      <4> QED
        BY <1>4, <2>3, <4>1, <4>2
    <3>4. Front(rec.route) \in Seq(Names) /\ Front(rec.route) # <<>>
      BY <3>3, FrontFacts
    <3>5. Last(Front(rec.route)) \in Names
      BY <3>4, LastFacts
    <3>6. child[s].host = Last(Front(rec.route)) /\ child[s].host \in Routers \cup Tunnels
      BY <3>1, <3>2, ChildTypes DEF TInv, IInv, RelayOK, Record
    <3>7. child[s].host \in Routers
      BY <3>5, <3>6, ConstantFacts
    <3> QED
      BY <3>1, <3>2, <3>7 DEF Self, At
  <2> QED
    BY <2>1, <2>2, <2>3
<1>8. rec.relay.client \in
        [host : Routers \cup Tunnels \cup Users \cup {DestHost},
         port : Child \cup {AppPort, DestPort}] \cup {NoAddress}
  BY <1>1 DEF Sides, Sender
<1> HIDE DEF rec
<1>9. rec \in ChildRecord
  BY <1>3, <1>4, <1>5, <1>6, <1>7, <1>8 DEF ChildRecord, Phase
<1> QED
  BY <1>9 DEF rec

LEMMA TypesHold == ASSUME TInv PROVE TypeOK
<1>1. /\ IInv /\ Types /\ Lengths /\ Counts
      /\ \A c \in 1 .. Len(child) : Timed(c)
  BY DEF TInv, IInv
<1>2. /\ Len(child) \in Nat /\ Len(child) <= MaxChildren /\ MaxChildren \in Nat
  BY <1>1, ChildTypes, ConstantFacts DEF Types
<1>3. ASSUME NEW r \in Routers
      PROVE  \/ \E stack \in Stacks : Len(buffer[r]) <= Len(stack[r])
             \/ \E u \in Users : \E route \in Routes[u] : Len(buffer[r]) <= Len(route)
  BY <1>1 DEF Lengths, LenBound
<1>4. buffer \in [Routers -> Seq(Routers \cup Junk)]
  BY <1>1 DEF Types, Names
<1>5. child \in Seq(ChildRecord)
  <2>1. child \in Seq(Record) /\ \A c \in 1 .. Len(child) : child[c] \in ChildRecord
    BY <1>1, ChildRecords DEF Types
  <2>2. child = [c \in 1 .. Len(child) |-> child[c]]
    BY <2>1
  <2> QED
    BY <1>2, <2>1, <2>2, IsASeq
<1>6. /\ timers \in Seq(1 .. Len(child)) /\ Len(timers) \in Nat
      /\ DOMAIN timers = 1 .. Len(timers)
      /\ \A i, j \in 1 .. Len(timers) : timers[i] = timers[j] => i = j
      /\ \A i \in 1 .. Len(timers) : child[timers[i]].phase = "wait"
  BY <1>1 DEF Types, TimersOK
<1>7. IsInjective(timers)
  BY <1>6 DEF IsInjective
<1>8. ASSUME NEW c \in Child
      PROVE  Contains(timers, c) <=> c \in 1 .. Len(child) /\ child[c].phase = "wait"
  <2>1. Contains(timers, c) <=> \E i \in 1 .. Len(timers) : timers[i] = c
    BY <1>6 DEF Contains
  <2>2. ASSUME NEW i \in 1 .. Len(timers), timers[i] = c
        PROVE  c \in 1 .. Len(child) /\ child[c].phase = "wait"
    BY <1>6, <2>2
  <2>3. ASSUME c \in 1 .. Len(child), child[c].phase = "wait"
        PROVE  \E i \in 1 .. Len(timers) : timers[i] = c
    BY <1>1, <2>3 DEF Timed
  <2> QED
    BY <2>1, <2>2, <2>3
<1>9. told \in [Users -> Child \cup {0}]
  <2>1. ASSUME NEW u \in Users PROVE told[u] \in Child \cup {0}
    <3>1. CASE phase[u] = "told"
      BY <1>1, <1>2, <3>1 DEF IInv, UserOK, Child
    <3>2. CASE phase[u] # "told"
      BY <1>1, <3>2 DEF Counts
    <3> QED
      BY <3>1, <3>2
  <2> QED
    BY <1>1, <2>1 DEF Types
<1>10. /\ phase \in [Users -> {"start", "waiting", "told", "failed"}]
       /\ \A u \in Users : typed[u] \in Routes[u] \cup {<<>>}
  BY <1>1 DEF Types, IInv, UserOK
<1> QED
  BY <1>1, <1>2, <1>3, <1>4, <1>5, <1>7, <1>8, <1>9, <1>10 DEF TypeOK, Counts

\* The types, the lengths of the buffers and what the children and the datagrams
\* know of each other hold in every state.
THEOREM TInvAlways == Spec => []TInv
<1> QED
  BY InitTypes, StepTypes, PTL DEF Spec

\* TypeOK holds in every state: no buffer ever holds more names than its stack held
\* or the longest typed route has, although nothing clears it and what stands in it
\* beyond a request is sent on; every relay's server is a relay on a router or the
\* server's host; a port that is printed is a child's; and a timer runs for exactly
\* the children that wait (registration_proc and send_socket_data in
\* overlayrouter.c and tunneld.c, sendMyTunnelRequest in overlaybuild.c).
THEOREM TypeOKAlways == Spec => []TypeOK
<1>1. TInv => TypeOK
  BY TypesHold
<1> QED
  BY <1>1, TInvAlways, PTL

-----------------------------------------------------------------------------
(* Nobody is forgotten: why a builder's wait comes to an end. *)

\* What is on the way from or to the builder of user u.
OnTheWay(u) ==
  \E d \in DOMAIN net :
    d.dst = At(u, BuildPort) \/ (d.kind = "request" /\ d.src = At(u, BuildPort))

\* The places of a child that has answered nothing.
Owing == {"new", "sent", "wait", "unresolved", "refused"}

Owes(c, u) == child[c].their_addr = At(u, BuildPort) /\ child[c].phase \in Owing

Minded(u) ==
  phase[u] = "waiting" =>
    lost > 0 \/ OnTheWay(u) \/ \E c \in 1 .. Len(child) : Owes(c, u)

\* Of a builder that waits: its request or an answer is on the way, or the child that
\* owes it an answer has a step to make or a timer that runs, or has ended without a
\* word.
NobodyForgotten ==
  \A u \in Users : phase[u] = "waiting" =>
    \/ lost > 0
    \/ OnTheWay(u)
    \/ \E c \in 1 .. Len(child) :
         /\ child[c].their_addr = At(u, BuildPort)
         /\ \/ child[c].phase \in {"new", "sent", "unresolved", "refused"}
            \/ \E i \in 1 .. Len(timers) : timers[i] = c

LEMMA TakeKeeps ==
  ASSUME NEW n, NEW e, NEW d \in DOMAIN n, d # e PROVE d \in DOMAIN Take(n, e)
BY DEF Take

LEMMA PutKeeps == ASSUME NEW n, NEW e, NEW d \in DOMAIN n PROVE d \in DOMAIN Put(n, e)
BY PutDomain

\* A child that owes an answer owes it still, or has sent it.
LEMMA StillOwes ==
  ASSUME IInv, NEW c \in 1 .. Len(child), child[c].phase \in Owing,
         ChildStep(c) \/ (Timeout /\ c = Head(timers))
  PROVE  child'[c].phase \in Owing \/ \E d \in DOMAIN net' : d.dst = child[c].their_addr
<1>1. Types /\ Self(c) \in Address /\ child[c].their_addr \in Address
  BY SelfFacts DEF IInv
<1>2. ASSUME NEW p \in Owing, child' = [child EXCEPT ![c].phase = p]
      PROVE  child'[c].phase \in Owing
  BY <1>1, <1>2, MovedOn
<1>3. ASSUME NEW n, NEW d, net' = Put(n, d), d.dst = child[c].their_addr
      PROVE  \E e \in DOMAIN net' : e.dst = child[c].their_addr
  BY <1>3, PutDomain
<1>4. ASSUME NEW sv, NEW n, StartRelay(c, sv, n)
      PROVE  \E e \in DOMAIN net' : e.dst = child[c].their_addr
  <2>1. PICK d : d = PortTo(Self(c), child[c].their_addr)
    OBVIOUS
  <2>2. d.dst = child[c].their_addr /\ net' = Put(n, d)
    BY <1>1, <1>4, <2>1, PortToFacts DEF StartRelay
  <2> QED
    BY <1>3, <2>2
<1>5. CASE RelayOne(c)
  BY <1>5 DEF RelayOne, Owing
<1>6. CASE \E p \in Owing : child' = [child EXCEPT ![c].phase = p]
  BY <1>2, <1>6
<1>7. CASE \E sv, n : StartRelay(c, sv, n)
  BY <1>4, <1>7
<1>8. CASE Timeout /\ c = Head(timers)
  <2>1. PICK d : d = Datagram(Self(c), child[c].their_addr, "A")
    OBVIOUS
  <2>2. d.dst = child[c].their_addr /\ net' = Put(net, d)
    BY <1>1, <1>8, <2>1, DatagramFacts DEF Timeout, Expire, Kind
  <2> QED
    BY <1>3, <2>2
<1>9. \/ RelayOne(c)
      \/ \E p \in Owing : child' = [child EXCEPT ![c].phase = p]
      \/ \E sv, n : StartRelay(c, sv, n)
      \/ Timeout /\ c = Head(timers)
  BY DEF ChildStep, LastHop, TunnelHop, Forward, Wait, HearReply, Owing
<1> QED
  BY <1>5, <1>6, <1>7, <1>8, <1>9

\* A request of a builder, and what is for it, is read by whom it is for.
LEMMA PostStays ==
  ASSUME IInv, NEW u \in Users, NEW d \in DOMAIN net, [Next]_vars,
         d.dst = At(u, BuildPort) \/ (d.kind = "request" /\ d.src = At(u, BuildPort))
  PROVE  \/ d \in DOMAIN net'
         \/ Lose
         \/ BuilderHear(u)
         \/ \E r \in Routers : RouterFork(r) /\ d.dst = At(r, KnownPort)
                               /\ Fork(r, buffer'[r], d.src)
         \/ \E t \in Tunnels : TunnelFork(t) /\ d.dst = At(t, KnownPort)
                               /\ Fork(t, d.route, d.src)
<1>1. Types /\ DatagramOK(d)
  BY DEF IInv
<1>2. \/ d.dst = At(u, BuildPort)
      \/ d.dst.port = KnownPort /\ d.kind = "request"
  BY <1>1 DEF DatagramOK, Requested, At
<1>3. d.dst.port \in {BuildPort, KnownPort}
  BY <1>2 DEF At
<1>4. ASSUME NEW e, net' = Take(net, e) \/ \E f : net' = Put(Take(net, e), f), e # d
      PROVE  d \in DOMAIN net'
  <2>1. d \in DOMAIN Take(net, e)
    BY <1>4, TakeKeeps
  <2>2. \A f : d \in DOMAIN Put(Take(net, e), f)
    BY <2>1, PutKeeps
  <2> QED
    BY <1>4, <2>1, <2>2
<1>5. ASSUME net' = net \/ \E e : net' = Put(net, e) PROVE d \in DOMAIN net'
  BY <1>5, PutKeeps
<1>6. ASSUME NEW v \in Users, BuilderHear(v) PROVE d \in DOMAIN net' \/ BuilderHear(u)
  <2>1. PICK e \in DOMAIN net : e.dst = At(v, BuildPort) /\ net' = Take(net, e)
    BY <1>6 DEF BuilderHear
  <2>2. CASE e = d
    <3>1. d.dst = At(u, BuildPort) /\ d.dst = At(v, BuildPort)
      BY <1>2, <2>1, <2>2, ConstantFacts DEF At
    <3> QED
      BY <1>6, <3>1 DEF At
  <2> QED
    BY <1>4, <2>1, <2>2
<1>7. ASSUME NEW v \in Users, AppHear(v) PROVE d \in DOMAIN net'
  <2>1. PICK e \in DOMAIN net : e.dst = At(v, AppPort) /\ net' = Take(net, e)
    BY <1>7 DEF AppHear
  <2>2. e.dst.port \notin {BuildPort, KnownPort}
    BY <2>1, ConstantFacts DEF At
  <2> QED
    BY <1>3, <1>4, <2>1, <2>2
<1>8. ASSUME NEW c \in 1 .. Len(child), HearReply(c) \/ RelayOne(c) PROVE d \in DOMAIN net'
  <2>1. PICK e \in DOMAIN net :
          e.dst = Self(c) /\ (net' = Take(net, e) \/ \E f : net' = Put(Take(net, e), f))
    BY <1>8 DEF HearReply, RelayOne, StartRelay
  <2>2. e.dst.port \notin {BuildPort, KnownPort}
    BY <1>1, <2>1, SelfFacts
  <2> QED
    BY <1>3, <1>4, <2>1, <2>2
<1>9. CASE DestAnswer
  <2>1. PICK e \in DOMAIN net : e.dst = DestAt /\ \E f : net' = Put(Take(net, e), f)
    BY <1>9 DEF DestAnswer
  <2>2. e.dst.port \notin {BuildPort, KnownPort}
    BY <2>1, ConstantFacts DEF At, DestAt
  <2> QED
    BY <1>3, <1>4, <2>1, <2>2
<1>10. ASSUME NEW r \in Routers, RouterFork(r)
       PROVE  d \in DOMAIN net' \/ (d.dst = At(r, KnownPort) /\ Fork(r, buffer'[r], d.src))
  <2>1. PICK e \in DOMAIN net : /\ e.dst = At(r, KnownPort) /\ net' = Take(net, e)
                                /\ Fork(r, buffer'[r], e.src)
    BY <1>10 DEF RouterFork
  <2> QED
    BY <1>4, <2>1
<1>11. ASSUME NEW t \in Tunnels, TunnelFork(t)
       PROVE  d \in DOMAIN net' \/ (d.dst = At(t, KnownPort) /\ Fork(t, d.route, d.src))
  <2>1. PICK e \in DOMAIN net : /\ e.dst = At(t, KnownPort) /\ net' = Take(net, e)
                                /\ Fork(t, e.route, e.src)
    BY <1>11 DEF TunnelFork
  <2> QED
    BY <1>4, <2>1
<1>12. ASSUME NEW c \in 1 .. Len(child),
              LastHop(c) \/ TunnelHop(c) \/ Forward(c) \/ Wait(c)
       PROVE  net' = net \/ \E e : net' = Put(net, e)
  BY <1>12 DEF LastHop, TunnelHop, Forward, Wait, StartRelay
<1>13. ASSUME NEW v \in Users, BuilderAsk(v) \/ AppAsk(v) PROVE \E e : net' = Put(net, e)
  BY <1>13 DEF BuilderAsk, AppAsk
<1>14. CASE Timeout \/ Duplicate
  BY <1>5, <1>14 DEF Timeout, Expire, Duplicate
<1>15. CASE UNCHANGED vars
  BY <1>15 DEF vars
<1> QED
  BY <1>5, <1>6, <1>7, <1>8, <1>9, <1>10, <1>11, <1>12, <1>13, <1>14, <1>15 DEF Next

\* A request that is read has a child.
LEMMA ForkMinds ==
  ASSUME IInv, NEW u \in Users, NEW host \in Routers \cup Tunnels, NEW r \in Seq(Hosts),
         NEW d \in DOMAIN net, d.dst = At(host, KnownPort), Fork(host, r, d.src),
         UNCHANGED <<phase, typed>>,
         d.dst = At(u, BuildPort) \/ (d.kind = "request" /\ d.src = At(u, BuildPort))
  PROVE  \E c \in 1 .. Len(child') : Owes(c, u)'
<1>1. PICK new : new = Len(child) + 1
  OBVIOUS
<1>2. Types /\ d.src \in Address
  BY NetFacts DEF IInv
<1>3. /\ new \in Nat /\ Len(child) \in Nat /\ Len(child') = new
      /\ child'[new].phase = "new" /\ child'[new].their_addr = d.src
  BY <1>1, <1>2, Forked
<1>4. d.src = At(u, BuildPort)
  BY ConstantFacts DEF At
<1>5. new \in 1 .. Len(child')
  BY <1>1, <1>3
<1>6. Owes(new, u)'
  BY <1>3, <1>4 DEF Owes, Owing, At, BuildPort
<1> QED
  BY <1>5, <1>6

LEMMA MindedStep ==
  ASSUME TInv, NEW u \in Users, Minded(u), [Next]_vars
  PROVE  Minded(u)'
<1>1. IInv /\ Types /\ IInv' /\ lost \in Nat /\ (lost > 0 => lost' > 0)
  <2>1. IInv /\ Types /\ lost \in 0 .. MaxLost /\ MaxLost \in Nat
    BY OverlayAssumption DEF TInv, IInv, Counts
  <2>2. lost' = lost \/ lost' = lost + 1
    BY DEF Next, vars, BuilderAsk, BuilderHear, AppAsk, AppHear, RouterFork, TunnelFork,
           LastHop, TunnelHop, Forward, Wait, HearReply, RelayOne, Timeout, DestAnswer,
           Lose, Duplicate
  <2> QED
    BY <2>1, <2>2, StepInv
<1> SUFFICES ASSUME phase'[u] = "waiting"
             PROVE  lost' > 0 \/ OnTheWay(u)' \/ \E c \in 1 .. Len(child') : Owes(c, u)'
  BY DEF Minded
<1>2. ASSUME NEW d \in DOMAIN net',
             d.dst = At(u, BuildPort) \/ (d.kind = "request" /\ d.src = At(u, BuildPort))
      PROVE  OnTheWay(u)'
  BY <1>2 DEF OnTheWay, At, BuildPort
<1>3. CASE phase[u] # "waiting"
  <2>1. BuilderAsk(u)
    <3>1. ASSUME NEW v \in Users, BuilderAsk(v) PROVE v = u
      BY <1>1, <1>3, <3>1 DEF BuilderAsk, Types
    <3>2. ASSUME NEW v \in Users, BuilderHear(v) PROVE phase'[u] = phase[u] \/ phase'[u] # "waiting"
      BY <1>1, <3>2 DEF BuilderHear, Types
    <3>3. \/ phase' = phase
          \/ \E v \in Users : BuilderAsk(v) \/ BuilderHear(v)
      BY DEF Next, vars, AppAsk, AppHear, RouterFork, TunnelFork, LastHop, TunnelHop, Forward,
             Wait, HearReply, RelayOne, Timeout, DestAnswer, Lose, Duplicate
    <3> QED
      BY <1>3, <3>1, <3>2, <3>3
  <2>2. PICK route \in Routes[u] :
          net' = Put(net, RequestTo(At(u, BuildPort), Last(route), route))
    BY <2>1 DEF BuilderAsk
  <2>3. PICK d : d = RequestTo(At(u, BuildPort), Last(route), route)
    OBVIOUS
  <2>4. d.kind = "request" /\ d.src = At(u, BuildPort) /\ d \in DOMAIN net'
    <3>1. At(u, BuildPort) \in Address
      BY ConstantFacts DEF At, Address, Hosts
    <3>2. route \in Seq(Hosts) /\ Last(route) \in Hosts
      BY ConstantFacts, LastFacts
    <3>3. d.kind = "request" /\ d.src = At(u, BuildPort)
      BY <2>3, <3>1, <3>2, RequestToFacts
    <3>4. net' = Put(net, d)
      BY <2>2, <2>3
    <3>5. DOMAIN Put(net, d) = DOMAIN net \cup {d}
      BY PutDomain
    <3> QED
      BY <3>3, <3>4, <3>5
  <2> QED
    BY <1>2, <2>4
<1>4. CASE phase[u] = "waiting" /\ lost > 0
  BY <1>1, <1>4
<1>5. ASSUME NEW d \in DOMAIN net,
             d.dst = At(u, BuildPort) \/ (d.kind = "request" /\ d.src = At(u, BuildPort))
      PROVE  lost' > 0 \/ OnTheWay(u)' \/ \E c \in 1 .. Len(child') : Owes(c, u)'
  <2>1. CASE d \in DOMAIN net'
    BY <1>2, <1>5, <2>1
  <2>2. CASE Lose
    BY <1>1, <2>2 DEF Lose
  <2>3. CASE BuilderHear(u)
    BY <1>1, <2>3 DEF BuilderHear, Types
  <2>4. ASSUME NEW r \in Routers, RouterFork(r), d.dst = At(r, KnownPort),
               Fork(r, buffer'[r], d.src)
        PROVE  \E c \in 1 .. Len(child') : Owes(c, u)'
    <3>1. buffer'[r] \in Seq(Names)
      BY <1>1 DEF IInv, Types
    <3>2. buffer'[r] \in Seq(Hosts) /\ UNCHANGED <<phase, typed>>
      BY <2>4, <3>1, SeqMono DEF Hosts, Names, RouterFork
    <3> QED
      BY <1>1, <1>5, <2>4, <3>2, ForkMinds
  <2>5. ASSUME NEW t \in Tunnels, TunnelFork(t), d.dst = At(t, KnownPort),
               Fork(t, d.route, d.src)
        PROVE  \E c \in 1 .. Len(child') : Owes(c, u)'
    <3>1. d.route \in Seq(Hosts) /\ UNCHANGED <<phase, typed>>
      BY <1>1, <2>5, NetFacts DEF TunnelFork
    <3> QED
      BY <1>1, <1>5, <2>5, <3>1, ForkMinds
  <2> QED
    BY <1>1, <1>5, <2>1, <2>2, <2>3, <2>4, <2>5, PostStays
<1>6. ASSUME NEW c \in 1 .. Len(child), Owes(c, u)
      PROVE  OnTheWay(u)' \/ \E e \in 1 .. Len(child') : Owes(e, u)'
  <2>1. ASSUME c \in 1 .. Len(child'), child'[c].their_addr = child[c].their_addr,
               child'[c].phase \in Owing
        PROVE  \E e \in 1 .. Len(child') : Owes(e, u)'
    BY <1>6, <2>1 DEF Owes, Owing, At, BuildPort
  <2>2. CASE child' = child
    BY <1>6, <2>1, <2>2 DEF Owes
  <2>3. ASSUME NEW host \in Routers \cup Tunnels, NEW r \in Seq(Hosts), NEW d \in DOMAIN net,
               Fork(host, r, d.src), UNCHANGED <<phase, typed>>
        PROVE  \E e \in 1 .. Len(child') : Owes(e, u)'
    <3>1. PICK new : new = Len(child) + 1
      OBVIOUS
    <3>2. d.src \in Address
      BY <1>1, NetFacts
    <3>3. /\ new \in Nat /\ Len(child) \in Nat /\ Len(child') = new
          /\ child'[c] = child[c]
      BY <1>1, <2>3, <3>1, <3>2, Forked
    <3>4. c \in 1 .. Len(child')
      BY <3>1, <3>3
    <3> QED
      BY <1>6, <2>1, <3>3, <3>4 DEF Owes
  <2>4. ASSUME NEW e \in 1 .. Len(child), ChildStep(e) \/ (Timeout /\ e = Head(timers))
        PROVE  OnTheWay(u)' \/ \E f \in 1 .. Len(child') : Owes(f, u)'
    <3>1. OneChild(e)
      BY <1>1, <2>4, ChildStepFacts
    <3>2. c \in 1 .. Len(child') /\ child'[c].their_addr = child[c].their_addr
      BY <3>1 DEF OneChild
    <3>3. CASE e # c
      BY <1>6, <2>1, <3>1, <3>2, <3>3 DEF OneChild, Owes
    <3>4. CASE e = c
      <4>1. \/ child'[c].phase \in Owing
            \/ \E d \in DOMAIN net' : d.dst = child[c].their_addr
        BY <1>1, <1>6, <2>4, <3>4, StillOwes DEF Owes
      <4> QED
        BY <1>2, <1>6, <2>1, <3>2, <4>1 DEF Owes
    <3> QED
      BY <3>3, <3>4
  <2>5. ASSUME NEW r \in Routers, RouterFork(r) PROVE \E e \in 1 .. Len(child') : Owes(e, u)'
    <3>1. PICK d \in DOMAIN net : Fork(r, buffer'[r], d.src)
      BY <2>5 DEF RouterFork
    <3>2. buffer'[r] \in Seq(Names)
      BY <1>1 DEF IInv, Types
    <3>3. buffer'[r] \in Seq(Hosts) /\ UNCHANGED <<phase, typed>>
      BY <2>5, <3>2, SeqMono DEF Hosts, Names, RouterFork
    <3> QED
      BY <2>3, <3>1, <3>3
  <2>6. ASSUME NEW t \in Tunnels, TunnelFork(t) PROVE \E e \in 1 .. Len(child') : Owes(e, u)'
    <3>1. PICK d \in DOMAIN net : Fork(t, d.route, d.src)
      BY <2>6 DEF TunnelFork
    <3>2. UNCHANGED <<phase, typed>> /\ d.route \in Seq(Hosts)
      BY <1>1, <2>6, NetFacts DEF TunnelFork
    <3> QED
      BY <2>3, <3>1, <3>2
  <2>7. CASE Timeout
    <3>1. Head(timers) \in 1 .. Len(child)
      BY <1>1, <2>7 DEF Timeout, Types, TimersOK
    <3> QED
      BY <2>4, <2>7, <3>1
  <2>8. \/ child' = child
        \/ \E r \in Routers : RouterFork(r)
        \/ \E t \in Tunnels : TunnelFork(t)
        \/ \E e \in 1 .. Len(child) : ChildStep(e)
        \/ Timeout
    BY DEF Next, vars, ChildStep, BuilderAsk, BuilderHear, AppAsk, AppHear, DestAnswer, Lose,
           Duplicate
  <2> QED
    BY <2>2, <2>4, <2>5, <2>6, <2>7, <2>8
<1> QED
  BY <1>3, <1>4, <1>5, <1>6 DEF Minded, OnTheWay

\* A builder that waits is never forgotten: its request or an answer to it is on the
\* way, or a child is about to go on with it, or a child has its 30 seconds for it.
\* The exceptions are those of BuilderHears: a lost datagram, and a child that ended
\* without a word.  Nothing is said of fairness: this is what fairness finds to act on
\* (sendMyTunnelRequest in overlaybuild.c, registration_proc in overlayrouter.c and
\* tunneld.c).
THEOREM NobodyForgottenAlways == Spec => []NobodyForgotten
<1> DEFINE MInv == TInv /\ \A u \in Users : Minded(u)
<1>1. Init => MInv
  BY InitTypes DEF Init, Minded
<1>2. MInv /\ [Next]_vars => MInv'
  <2> SUFFICES ASSUME MInv, [Next]_vars PROVE MInv'
    OBVIOUS
  <2>1. \A u \in Users : Minded(u)'
    BY MindedStep
  <2>2. TInv'
    BY StepTypes
  <2> QED
    BY <2>1, <2>2
<1>3. MInv => NobodyForgotten
  <2> SUFFICES ASSUME MInv, NEW u \in Users, phase[u] = "waiting", ~(lost > 0), ~OnTheWay(u)
               PROVE  \E c \in 1 .. Len(child) :
                        /\ child[c].their_addr = At(u, BuildPort)
                        /\ \/ child[c].phase \in {"new", "sent", "unresolved", "refused"}
                           \/ \E i \in 1 .. Len(timers) : timers[i] = c
    BY DEF NobodyForgotten
  <2>1. PICK c \in 1 .. Len(child) : Owes(c, u)
    BY DEF Minded
  <2>2. Timed(c)
    BY DEF TInv
  <2> QED
    BY <2>1, <2>2 DEF Owes, Owing, Timed
<1> HIDE DEF MInv
<1> QED
  BY <1>1, <1>2, <1>3, PTL DEF Spec
=============================================================================
