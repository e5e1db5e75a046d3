-------------------------- MODULE AudioServerProofs --------------------------
(***************************************************************************)
(* Proofs about AudioServer, for any number of clients, processes,         *)
(* descriptors, packets and reports: the types, that the reports of a      *)
(* stream that is alone reach its process, that no stream is cut short     *)
(* while the logs are open and its fork() works, that only clients of its  *)
(* own end the server, by their request, by fork() or by using its         *)
(* descriptors up, and that a low level slows no stream down.              *)
(***************************************************************************)
EXTENDS AudioServer, FiniteSetTheorems, SequenceTheorems, WellFoundedInduction, TLAPS

\* What is always true of a process: only a stream has the port, its socket has
\* the number that the connection had, which a child finds lowest; a signal
\* that waits has a report to read; and a stream that is over has said so.
Standing(p) ==
  /\ ~(Is(p, "stream") \/ Is(p, "leave"))
       => ~proc[p].bound /\ proc[p].sock = 0
  /\ Is(p, "stream") \/ Is(p, "leave")
       => /\ proc[p].sock = proc[p].childfd /\ proc[p].sock # 0
          /\ proc[p].pending => proc[p].inbox # <<>>
  /\ Is(p, "child") => /\ ~proc[p].pending /\ proc[p].childfd \in Free(p)
                       /\ \A f \in Free(p) : proc[p].childfd <= f
  /\ ~proc[p].bound => proc[p].inbox = <<>>
  /\ Busy(p) => proc[p].client \in Clients
  /\ Is(p, "accept") \/ Is(p, "unborn") => proc[p].client = NoClient
  /\ Is(p, "leave") => proc[p].client \in gods \/ phase[proc[p].client] = "ended"

\* While a stream is alone there is nothing of another one.
Alone(c) ==
  /\ \A p \in Procs : Busy(p) => proc[p].client = c
  /\ \A p, q \in Procs : Busy(p) /\ Busy(q) => p = q
  /\ \A r \in reports : r.client = c
  /\ \A d \in Clients \ {c} : data[d] = 0
  /\ \A p \in Procs : \A i \in DOMAIN proc[p].inbox : proc[p].inbox[i].client = c
  /\ \A p \in Procs : Is(p, "stream") \/ Is(p, "leave") => proc[p].bound

\* Nobody has accepted a client that still waits.
Untaken == \A c \in Clients : phase[c] \in {"idle", "asked"} => taker[c] = 0

\* A client has ended the server that accepted it.
Fatal == \E c \in Clients : taker[c] = 1 /\ (kind[c] = "broken" \/ c \in forkFails)

\* The server only accepts, and each descriptor it has lost is a client's that
\* it has accepted.
Accountable ==
  /\ Untaken
  /\ Is(1, "accept") \/ Is(1, "dead")
  /\ ~proc[1].pending
  /\ Is(1, "accept") => Cardinality(proc[1].fds)
                          <= Cardinality(FirstFds) + Cardinality(Leaked(1))
  /\ ServerDies

Inv ==
  /\ TypeOK
  /\ \A p \in Procs : Standing(p)
  /\ \A c \in alone : Alone(c)
  /\ CutShort
  /\ Accountable

-----------------------------------------------------------------------------
(* Descriptors and processes. *)

LEMMA LowestOfNat ==
  ASSUME NEW S, S \subseteq Nat, S # {}
  PROVE  Lowest(S) \in S /\ \A y \in S : Lowest(S) <= y
<1>1. PICK x \in S : \A y \in S : ~(<<y, x>> \in OpToRel(<, Nat))
  BY NatLessThanWellFounded, WFMin
<1>2. ASSUME NEW y \in S PROVE x <= y
  <2>1. x \in Nat /\ y \in Nat
    OBVIOUS
  <2>2. <<y, x>> \in OpToRel(<, Nat) <=> y < x
    BY <2>1 DEF OpToRel
  <2>3. ~(y < x)
    BY <1>1, <2>2
  <2> QED
    BY <2>1, <2>3
<1>3. \E z \in S : \A y \in S : z <= y
  BY <1>2
<1> QED
  BY <1>3 DEF Lowest, Min

LEMMA ConstantFacts ==
  /\ Clients \subseteq Nat \ {0} /\ IsFiniteSet(Clients) /\ NoClient \notin Clients
  /\ 1 \in Procs /\ Procs \subseteq Nat \ {0}
  /\ Slots \in Nat /\ Slots >= 3
  /\ Packets \in Nat /\ mode \in 0..3 /\ Spacing \in Nat
  /\ q_star \in Nat /\ tau \in Nat /\ Levels \subseteq Nat
  /\ MaxReports \in Nat /\ MaxForkFails \in Nat
  /\ Fds \subseteq Nat /\ 0 \notin Fds /\ FirstFds \subseteq Fds
BY ServerAssumption DEF NoClient, Fds, FirstFds, logFile, plotFile

\* Before and after a step of one process.
Changes(p, r) == proc' = [proc EXCEPT ![p] = r]

LEMMA OneChanges ==
  ASSUME TypeOK, NEW p \in Procs, NEW r \in Process, Changes(p, r)
  PROVE  /\ proc' \in [Procs -> Process]
         /\ proc'[p] = r
         /\ \A q \in Procs : q # p => proc'[q] = proc[q]
BY DEF Changes, TypeOK

LEMMA DeadFacts ==
  ASSUME TypeOK, NEW p \in Procs
  PROVE  /\ Dead(p) \in Process
         /\ Dead(p).role = "dead" /\ Dead(p).client = proc[p].client
         /\ Dead(p).logs = proc[p].logs /\ ~Dead(p).bound /\ Dead(p).sock = 0
         /\ ~Dead(p).pending /\ Dead(p).inbox = <<>> /\ Dead(p).fds = {}
<1>1. proc[p].client \in Clients \cup {NoClient} /\ proc[p].logs \in BOOLEAN
  BY DEF TypeOK, Process
<1>2. <<>> \in Seq(Report)
  OBVIOUS
<1>3. Unborn \in Process
  <2>1. 0 \in Spacings /\ 0 \in 0..Packets
    BY ConstantFacts DEF Spacings
  <2> QED
    BY <1>2, <2>1, ConstantFacts DEF Unborn, Process
<1>4. ASSUME NEW u \in Process, NEW c \in Clients \cup {NoClient}, NEW l \in BOOLEAN
      PROVE  [u EXCEPT !.role = "dead", !.client = c, !.logs = l] \in Process
  BY <1>3 DEF Process
<1>5. Dead(p) \in Process
  BY <1>1, <1>3, <1>4 DEF Dead
<1> QED
  BY <1>5 DEF Dead, Unborn

-----------------------------------------------------------------------------
(* What a step leaves as it is. *)

\* A process that the step does not touch stands as before.
LEMMA StandingKept ==
  ASSUME NEW q \in Procs, Standing(q), proc'[q] = proc[q],
         \A c \in Clients : c \in gods \/ phase[c] = "ended"
                              => c \in gods' \/ phase'[c] = "ended"
  PROVE  Standing(q)'
BY DEF Standing, Is, Busy, Free

\* A process that has just died stands.
LEMMA StandingDead ==
  ASSUME TypeOK, NEW p \in Procs, proc'[p] = Dead(p)
  PROVE  Standing(p)'
BY DeadFacts DEF Standing, Is, Busy

\* Nothing of another stream comes up in a step that accepts nobody, sends
\* nobody else a packet or report, and gives no process a stream or the port.
LEMMA AloneKept ==
  ASSUME NEW c, Alone(c), 
         \A p \in Procs : /\ Busy(p)' => Busy(p) /\ proc'[p].client = proc[p].client
                          /\ Is(p, "stream")' \/ Is(p, "leave")' => proc'[p].bound
                          /\ \A i \in DOMAIN proc'[p].inbox : proc'[p].inbox[i].client = c,
         \A r \in reports' : r.client = c,
         \A d \in Clients \ {c} : data'[d] = 0
  PROVE  Alone(c)'
BY DEF Alone

\* The witness of a client whose stream goes on is still there.
Witness(c, q) ==
  /\ proc[q].client = c
  /\ (Is(q, "child") \/ Is(q, "stream") \/ ~proc[q].logs)

LEMMA CutShortIs ==
  CutShort <=> \A c \in Clients : phase[c] = "OK" /\ c \notin gods =>
                 c \in forkFails \/ \E q \in Procs : Witness(c, q)
BY DEF CutShort, Witness

LEMMA CutShortKept ==
  ASSUME CutShort,
         forkFails \subseteq forkFails',
         \A c \in Clients : phase'[c] = "OK" /\ c \notin gods'
                              => phase[c] = "OK" /\ c \notin gods,
         \A c \in Clients : \A q \in Procs :
           phase'[c] = "OK" /\ c \notin gods' /\ Witness(c, q) => Witness(c, q)'
  PROVE  CutShort'
<1> SUFFICES ASSUME NEW c \in Clients, phase'[c] = "OK", c \notin gods'
             PROVE  c \in forkFails' \/ \E q \in Procs : Witness(c, q)'
  BY DEF CutShort, Witness
<1>1. phase[c] = "OK" /\ c \notin gods
  OBVIOUS
<1>2. c \in forkFails \/ \E q \in Procs : Witness(c, q)
  BY <1>1, CutShortIs
<1> QED
  BY <1>2

LEMMA FiniteFacts ==
  /\ IsFiniteSet(Fds) /\ Cardinality(Fds) = Slots
  /\ \A S \in SUBSET Fds : IsFiniteSet(S) /\ Cardinality(S) \in Nat
  /\ Cardinality(FirstFds) \in Nat
  /\ \A S \in SUBSET Clients : IsFiniteSet(S) /\ Cardinality(S) \in Nat
<1>1. IsFiniteSet(Fds) /\ Cardinality(Fds) = Slots
  <2>1. Slots + 2 \in Int /\ Slots + 2 >= 3 /\ (Slots + 2) - 3 + 1 = Slots
    BY ConstantFacts
  <2>2. IsFiniteSet(3..Slots + 2)
    BY <2>1, FS_Interval
  <2>3. Cardinality(3..Slots + 2) = (Slots + 2) - 3 + 1
    BY <2>1, FS_Interval
  <2> QED
    BY <2>1, <2>2, <2>3 DEF Fds
<1>2. \A S \in SUBSET Fds : IsFiniteSet(S) /\ Cardinality(S) \in Nat
  BY <1>1, FS_Subset, FS_CardinalityType
<1>3. Cardinality(FirstFds) \in Nat
  BY <1>2, ConstantFacts
<1>4. \A S \in SUBSET Clients : IsFiniteSet(S) /\ Cardinality(S) \in Nat
  BY ConstantFacts, FS_Subset, FS_CardinalityType
<1> QED
  BY <1>1, <1>2, <1>3, <1>4

\* The account of the server is not touched.
LEMMA AccountKept ==
  ASSUME TypeOK, Accountable, proc'[1] = proc[1],
         Untaken => Untaken', Fatal => Fatal', Leaked(1) \subseteq Leaked(1)'
  PROVE  Accountable'
<1>1. Leaked(1) \in SUBSET Clients /\ Leaked(1)' \in SUBSET Clients
  BY DEF Leaked
<1>2. Cardinality(Leaked(1)) <= Cardinality(Leaked(1)')
  BY <1>1, FiniteFacts, FS_Subset
<1>3. Cardinality(Leaked(1)) \in Nat /\ Cardinality(Leaked(1)') \in Nat
  BY <1>1, FiniteFacts
<1>4. Is(1, "accept")' => Cardinality(proc'[1].fds)
                            <= Cardinality(FirstFds) + Cardinality(Leaked(1)')
  <2>1. Is(1, "accept")' => Cardinality(proc[1].fds)
                              <= Cardinality(FirstFds) + Cardinality(Leaked(1))
    BY DEF Accountable, Is
  <2>2. Cardinality(proc[1].fds) \in Nat
    BY ConstantFacts, FiniteFacts DEF TypeOK, Process
  <2> HIDE DEF Leaked
  <2> QED
    BY <1>2, <1>3, <2>1, <2>2, FiniteFacts
<1>5. ServerDies'
  <2>1. Is(1, "dead")' => Fatal' \/ Cardinality(Leaked(1)) >= Slots - Cardinality(FirstFds)
    BY DEF Accountable, ServerDies, Fatal, Is
  <2> HIDE DEF Leaked
  <2> QED
    BY <1>2, <1>3, <2>1, ConstantFacts, FiniteFacts DEF ServerDies, Fatal
<1> QED
  BY <1>4, <1>5 DEF Accountable, Is

\* Nor is it by a step that takes no client ...
LEMMA LeakedSame ==
  ASSUME UNCHANGED <<phase, kind, taker, forkFails>>
  PROVE  /\ Untaken => Untaken'
         /\ Fatal => Fatal'
         /\ Leaked(1) \subseteq Leaked(1)'
BY DEF Leaked, Untaken, Fatal

\* ... and nobody is struck off it when a process takes one.
LEMMA OneTaken ==
  ASSUME TypeOK, Untaken, NEW p \in Procs, NEW c \in Clients,
         First(c), NEW x \in {"OK", "KO", "lost"}, phase' = [phase EXCEPT ![c] = x],
         taker' = [taker EXCEPT ![c] = p], kind' = kind, forkFails \subseteq forkFails'
  PROVE  /\ Untaken'
         /\ Fatal => Fatal'
         /\ Leaked(1) \subseteq Leaked(1)'
         /\ taker'[c] = p /\ phase'[c] = x /\ phase[c] = "asked"
         /\ \A d \in Clients : d # c => taker'[d] = taker[d] /\ phase'[d] = phase[d]
<1>1. /\ taker'[c] = p /\ phase'[c] = x /\ phase[c] = "asked"
      /\ \A d \in Clients : d # c => taker'[d] = taker[d] /\ phase'[d] = phase[d]
  BY DEF First, TypeOK
<1>2. taker[c] # 1
  BY <1>1 DEF Untaken
<1> QED
  BY <1>1, <1>2 DEF Untaken, Fatal, Leaked

-----------------------------------------------------------------------------
(* The initial state. *)

LEMMA UnbornType == Unborn \in Process
<1>1. 0 \in Spacings /\ 0 \in 0..Packets /\ <<>> \in Seq(Report)
  BY ConstantFacts DEF Spacings
<1> QED
  BY <1>1, ConstantFacts DEF Unborn, Process

LEMMA ServerType == Server \in Process
<1>1. ASSUME NEW u \in Process, NEW n \in Spacings
      PROVE  [u EXCEPT !.role = "accept", !.fds = FirstFds, !.logs = TRUE,
                       !.spacing = n] \in Process
  BY ConstantFacts DEF Process
<1>2. Spacing \in Spacings
  BY DEF Spacings
<1> QED
  BY <1>1, <1>2, UnbornType DEF Server

LEMMA InitInv == Init => Inv
<1> SUFFICES ASSUME Init PROVE Inv
  OBVIOUS
<1>1. \A p \in Procs : proc[p] = IF p = 1 THEN Server ELSE Unborn
  BY DEF Init
<1>2. TypeOK
  <2>1. proc \in [Procs -> Process]
    BY UnbornType, ServerType DEF Init
  <2>2. phase \in [Clients -> {"idle"}] /\ kind \in [Clients -> {"good"}]
    BY DEF Init
  <2>3. /\ data \in [Clients -> {0}] /\ counted \in [Clients -> {0}]
        /\ taker \in [Clients -> {0}]
    BY DEF Init
  <2>4. Cardinality(forkFails) = 0
    BY FS_EmptySet DEF Init
  <2> QED
    BY <2>1, <2>2, <2>3, <2>4, ConstantFacts DEF TypeOK, Init
<1>3. ASSUME NEW p \in Procs PROVE Standing(p)
  <2>1. /\ proc[p].role = "accept" \/ proc[p].role = "unborn"
        /\ ~proc[p].bound /\ proc[p].sock = 0 /\ proc[p].inbox = <<>>
        /\ proc[p].client = NoClient
    <3>1. /\ Server.role = "accept" /\ ~Server.bound /\ Server.sock = 0
          /\ Server.inbox = <<>> /\ Server.client = NoClient
      BY DEF Server, Unborn
    <3>2. /\ Unborn.role = "unborn" /\ ~Unborn.bound /\ Unborn.sock = 0
          /\ Unborn.inbox = <<>> /\ Unborn.client = NoClient
      BY DEF Unborn
    <3>3. proc[p] = Server \/ proc[p] = Unborn
      BY <1>1
    <3> QED
      BY <3>1, <3>2, <3>3
  <2> QED
    BY <2>1 DEF Standing, Is, Busy
<1>4. \A c \in alone : Alone(c)
  BY DEF Init
<1>5. CutShort
  BY DEF Init, CutShort
<1>6. Accountable
  <2>1. proc[1] = Server
    BY <1>1, ConstantFacts
  <2>2. Server.role = "accept" /\ ~Server.pending /\ Server.fds = FirstFds
    BY DEF Server, Unborn
  <2>3. Leaked(1) \in SUBSET Clients
    BY DEF Leaked
  <2>4. Cardinality(Leaked(1)) \in Nat
    BY <2>3, FiniteFacts
  <2>5. Cardinality(FirstFds) <= Cardinality(FirstFds) + Cardinality(Leaked(1))
    BY <2>4, FiniteFacts
  <2>6. Untaken
    BY DEF Init, Untaken
  <2> QED
    BY <2>1, <2>2, <2>5, <2>6 DEF Accountable, ServerDies, Is
<1> QED
  BY <1>2, <1>3, <1>4, <1>5, <1>6 DEF Inv

-----------------------------------------------------------------------------
(* The clients and the network. *)

LEMMA AskInv == ASSUME Inv, NEW c \in Clients, Ask(c) PROVE Inv'
<1> USE DEF Inv
<1>1. TypeOK'
  BY DEF Ask, TypeOK
<1>2. \A q \in Clients : phase'[q] # "asked" => phase'[q] = phase[q]
  BY DEF Ask, TypeOK
<1>3. \A q \in Clients : phase[q] # "idle" => phase'[q] = phase[q] /\ kind'[q] = kind[q]
  BY DEF Ask, TypeOK
<1>4. \A q \in Procs : Standing(q)'
  BY <1>3, StandingKept DEF Ask
<1>5. \A d \in alone' : Alone(d)'
  <2>1. ASSUME NEW d, Alone(d) PROVE Alone(d)'
    BY <2>1 DEF Alone, Ask, Is, Busy
  <2> QED
    BY <2>1 DEF Ask
<1>6. CutShort'
  BY <1>2, CutShortKept DEF Ask, Witness, Is
<1>7. Accountable'
  <2>1. phase[c] = "idle" /\ taker' = taker /\ forkFails' = forkFails
    BY DEF Ask
  <2>2. \A q \in Clients : q # c => phase'[q] = phase[q] /\ kind'[q] = kind[q]
    BY DEF Ask, TypeOK
  <2>3. Untaken' /\ (Fatal => Fatal') /\ Leaked(1) \subseteq Leaked(1)'
    BY <2>1, <2>2 DEF Accountable, Untaken, Fatal, Leaked
  <2> QED
    BY <2>3, AccountKept DEF Ask
<1> QED
  BY <1>1, <1>4, <1>5, <1>6, <1>7

LEMMA HearInv == ASSUME Inv, NEW c \in Clients, Hear(c) PROVE Inv'
<1> USE DEF Inv
<1>1. TypeOK'
  <2>1. data' \in [Clients -> Nat]
    BY DEF Hear, TypeOK
  <2>2. counted' \in [Clients -> 0..MaxReports] /\ reports' \subseteq Report
    <3>1. CASE UNCHANGED <<counted, reports>>
      BY <3>1 DEF TypeOK
    <3>2. CASE /\ counted[c] < MaxReports
               /\ counted' = [counted EXCEPT ![c] = @ + 1]
               /\ \E l \in Levels :
                    reports' = reports \cup
                                 {[client |-> c, level |-> l, number |-> counted'[c]]}
      <4>1. counted'[c] \in 1..MaxReports
        BY <3>2, ConstantFacts DEF TypeOK
      <4>2. counted' \in [Clients -> 0..MaxReports]
        BY <3>2, ConstantFacts DEF TypeOK
      <4> QED
        BY <3>2, <4>1, <4>2 DEF TypeOK, Report
    <3> QED
      BY <3>1, <3>2 DEF Hear
  <2> QED
    BY <2>1, <2>2 DEF Hear, TypeOK
<1>2. \A q \in Procs : Standing(q)'
  BY StandingKept DEF Hear
<1>3. \A d \in alone' : Alone(d)'
  <2>1. ASSUME NEW d \in Clients, Alone(d) PROVE Alone(d)'
    <3>1. d = c
      BY <2>1 DEF Alone, Hear
    <3>2. \A r \in reports' : r.client = d
      BY <2>1, <3>1 DEF Alone, Hear
    <3>3. \A e \in Clients \ {d} : data'[e] = 0
      BY <2>1, <3>1 DEF Alone, Hear, TypeOK
    <3> QED
      BY <2>1, <3>2, <3>3 DEF Alone, Hear, Is, Busy
  <2> QED
    BY <2>1 DEF Hear, TypeOK
<1>4. CutShort'
  BY CutShortKept DEF Hear, Witness, Is
<1>5. Accountable'
  BY LeakedSame, AccountKept DEF Hear
<1> QED
  BY <1>1, <1>2, <1>3, <1>4, <1>5

LEMMA HearEndInv == ASSUME Inv, NEW c \in Clients, HearEnd(c) PROVE Inv'
<1> USE DEF Inv
<1>1. TypeOK'
  BY DEF HearEnd, TypeOK
<1>2. \A d \in Clients : phase'[d] = IF d = c THEN "ended" ELSE phase[d]
  BY DEF HearEnd, TypeOK
<1>3. \A q \in Procs : Standing(q)'
  BY <1>2, StandingKept DEF HearEnd
<1>4. \A d \in alone' : Alone(d)'
  <2>1. ASSUME NEW d, Alone(d) PROVE Alone(d)'
    <3>1. \A e \in Clients \ {d} : data'[e] = 0
      BY <2>1 DEF Alone, HearEnd, TypeOK
    <3> QED
      BY <2>1, <3>1 DEF Alone, HearEnd, Is, Busy
  <2> QED
    BY <2>1 DEF HearEnd
<1>5. CutShort'
  BY <1>2, CutShortKept DEF HearEnd, Witness, Is
<1>6. Accountable'
  <2>1. (Untaken => Untaken') /\ (Fatal => Fatal') /\ Leaked(1) \subseteq Leaked(1)'
    BY <1>2 DEF Leaked, Untaken, Fatal, HearEnd
  <2> QED
    BY <2>1, AccountKept DEF HearEnd
<1> QED
  BY <1>1, <1>3, <1>4, <1>5, <1>6

LEMMA ArriveInv == ASSUME Inv, NEW r \in reports, Arrive(r) PROVE Inv'
<1> USE DEF Inv
<1> DEFINE Given(q) == [proc[q] EXCEPT !.inbox = Append(@, r), !.pending = TRUE]
<1>1. \A q \in Procs : proc'[q] = IF HoldsPort(q) THEN Given(q) ELSE proc[q]
  BY DEF Arrive
<1>2. r \in Report
  BY DEF TypeOK
<1>3. ASSUME NEW q \in Procs PROVE Given(q) \in Process
  <2>1. ASSUME NEW u \in Process, NEW b \in Seq(Report)
        PROVE  [u EXCEPT !.inbox = b, !.pending = TRUE] \in Process
    BY DEF Process
  <2>2. proc[q] \in Process /\ proc[q].inbox \in Seq(Report)
    BY DEF TypeOK, Process
  <2>3. Append(proc[q].inbox, r) \in Seq(Report)
    BY <1>2, <2>2
  <2> QED
    BY <2>1, <2>2, <2>3
<1>4. \A q \in Procs : /\ Given(q).role = proc[q].role /\ Given(q).client = proc[q].client
                       /\ Given(q).fds = proc[q].fds /\ Given(q).childfd = proc[q].childfd
                       /\ Given(q).sock = proc[q].sock /\ Given(q).bound = proc[q].bound
                       /\ Given(q).logs = proc[q].logs
                       /\ Given(q).inbox = Append(proc[q].inbox, r)
  BY DEF TypeOK, Process
<1>5. ASSUME NEW q \in Procs PROVE Append(proc[q].inbox, r) # <<>>
  <2>1. proc[q].inbox \in Seq(Report)
    BY DEF TypeOK, Process
  <2> QED
    BY <1>2, <2>1, AppendProperties
<1> HIDE DEF Given
<1>6. TypeOK'
  <2>1. proc' \in [Procs -> Process]
    <3>1. \A q \in Procs : proc'[q] \in Process
      BY <1>1, <1>3 DEF TypeOK
    <3>2. proc' = [q \in Procs |-> proc'[q]]
      BY DEF Arrive
    <3> QED
      BY <3>1, <3>2
  <2> QED
    BY <2>1 DEF Arrive, TypeOK
<1>7. \A q \in Procs : Standing(q)'
  <2>1. ASSUME NEW q \in Procs, HoldsPort(q) PROVE Standing(q)'
    <3>1. Is(q, "stream") \/ Is(q, "leave")
      BY <2>1 DEF Standing, HoldsPort
    <3>2. /\ proc'[q].role = proc[q].role /\ proc'[q].client = proc[q].client
          /\ proc'[q].childfd = proc[q].childfd /\ proc'[q].sock = proc[q].sock
          /\ proc'[q].inbox # <<>>
      BY <1>1, <1>4, <1>5, <2>1
    <3>3. proc'[q].bound
      BY <1>1, <1>4, <2>1 DEF HoldsPort
    <3>4. Standing(q)
      OBVIOUS
    <3>5. gods' = gods /\ phase' = phase
      BY DEF Arrive
    <3> QED
      BY <3>1, <3>2, <3>3, <3>4, <3>5 DEF Standing, Is, Busy
  <2>2. ASSUME NEW q \in Procs, ~HoldsPort(q) PROVE Standing(q)'
    BY <1>1, <2>2, StandingKept DEF Arrive
  <2> QED
    BY <2>1, <2>2
<1>8. \A d \in alone' : Alone(d)'
  <2>1. ASSUME NEW d, Alone(d) PROVE Alone(d)'
    <3>1. r.client = d
      BY <2>1 DEF Alone
    <3>2. ASSUME NEW q \in Procs, NEW i \in DOMAIN proc'[q].inbox
          PROVE  proc'[q].inbox[i].client = d
      <4>1. CASE HoldsPort(q)
        <5>1. proc[q].inbox \in Seq(Report)
          BY DEF TypeOK, Process
        <5>2. proc'[q].inbox = Append(proc[q].inbox, r)
          BY <1>1, <1>4, <4>1
        <5>3. \A j \in DOMAIN proc[q].inbox : proc[q].inbox[j].client = d
          BY <2>1 DEF Alone
        <5> QED
          BY <1>2, <3>1, <5>1, <5>2, <5>3
      <4>2. CASE ~HoldsPort(q)
        BY <1>1, <2>1, <4>2 DEF Alone
      <4> QED
        BY <4>1, <4>2
    <3>3. \A q \in Procs : proc'[q].role = proc[q].role /\ proc'[q].client = proc[q].client
      BY <1>1, <1>4
    <3>4. \A q \in Procs : proc[q].bound => proc'[q].bound
      BY <1>1, <1>4
    <3>5. reports' \subseteq reports /\ data' = data
      BY DEF Arrive
    <3> QED
      BY <2>1, <3>2, <3>3, <3>4, <3>5, AloneKept DEF Alone, Is, Busy
  <2> QED
    BY <2>1 DEF Arrive
<1>9. CutShort'
  <2>1. \A q \in Procs : proc'[q].role = proc[q].role /\ proc'[q].client = proc[q].client
                         /\ proc'[q].logs = proc[q].logs
    BY <1>1, <1>4
  <2> QED
    BY <2>1, CutShortKept DEF Arrive, Witness, Is
<1>10. Accountable'
  <2>1. proc'[1] = proc[1]
    BY <1>1, ConstantFacts DEF Accountable, Standing, HoldsPort, Is
  <2> QED
    BY <2>1, LeakedSame, AccountKept DEF Arrive
<1> QED
  BY <1>6, <1>7, <1>8, <1>9, <1>10

-----------------------------------------------------------------------------
(* Steps of one process that end it. *)

\* A process that has no stream, or whose logs are closed, ends.
LEMMA DeathInv ==
  ASSUME Inv, NEW p \in Procs, proc' = [proc EXCEPT ![p] = Dead(p)],
         Busy(p) => ~proc[p].logs \/ proc[p].client \in gods
                      \/ phase[proc[p].client] = "ended",
         UNCHANGED <<phase, kind, gods, reports, counted, taker, forkFails, alone>>,
         data' \in [Clients -> Nat],
         \A c \in alone : \A d \in Clients \ {c} : data'[d] = 0,
         p = 1 => Free(p) = {}
  PROVE  Inv'
<1> USE DEF Inv
<1>1. /\ proc' \in [Procs -> Process]
      /\ proc'[p] = Dead(p)
      /\ \A q \in Procs : q # p => proc'[q] = proc[q]
  BY OneChanges, DeadFacts DEF Changes
<1>2. TypeOK'
  BY <1>1 DEF TypeOK
<1>3. \A q \in Procs : Standing(q)'
  BY <1>1, StandingKept, StandingDead
<1>4. \A d \in alone' : Alone(d)'
  <2>1. ASSUME NEW d \in Clients, Alone(d), d \in alone PROVE Alone(d)'
    <3>1. \A q \in Procs : /\ Busy(q)' => Busy(q) /\ proc'[q].client = proc[q].client
                           /\ Is(q, "stream")' \/ Is(q, "leave")' => proc'[q].bound
                           /\ \A i \in DOMAIN proc'[q].inbox : proc'[q].inbox[i].client = d
      <4>1. \A q \in Procs : q # p =>
              /\ Busy(q)' => Busy(q) /\ proc'[q].client = proc[q].client
              /\ Is(q, "stream")' \/ Is(q, "leave")' => proc'[q].bound
              /\ \A i \in DOMAIN proc'[q].inbox : proc'[q].inbox[i].client = d
        BY <1>1, <2>1 DEF Alone, Is, Busy
      <4>2. ~Busy(p)' /\ ~Is(p, "stream")' /\ ~Is(p, "leave")' /\ DOMAIN proc'[p].inbox = {}
        BY <1>1, DeadFacts DEF Is, Busy
      <4> QED
        BY <4>1, <4>2
    <3>2. (\A r \in reports' : r.client = d) /\ \A e \in Clients \ {d} : data'[e] = 0
      BY <2>1 DEF Alone
    <3> QED
      BY <2>1, <3>1, <3>2, AloneKept
  <2> QED
    BY <2>1 DEF TypeOK
<1>5. CutShort'
  <2>1. ASSUME NEW c \in Clients, NEW q \in Procs, phase'[c] = "OK", c \notin gods',
               Witness(c, q)
        PROVE  Witness(c, q)'
    <3>1. CASE q # p
      BY <1>1, <2>1, <3>1 DEF Witness, Is
    <3>2. CASE q = p
      <4>1. ~proc[p].logs
        BY <2>1, <3>2 DEF Witness, Busy, Is
      <4>2. proc'[p].client = proc[p].client /\ ~proc'[p].logs
        BY <1>1, <4>1, DeadFacts
      <4> QED
        BY <2>1, <3>2, <4>2 DEF Witness
    <3> QED
      BY <3>1, <3>2
  <2> QED
    BY <2>1, CutShortKept
<1>6. Accountable'
  <2>1. CASE p # 1
    BY <1>1, <2>1, ConstantFacts, LeakedSame, AccountKept
  <2>2. CASE p = 1
    <3>1. Is(1, "dead")' /\ ~proc'[1].pending /\ ~Is(1, "accept")'
      BY <1>1, <2>2, DeadFacts DEF Is
    <3>2. ServerDies'
      <4>1. CASE Is(1, "accept")
        <5>1. proc[1].fds = Fds
          BY <2>2, ConstantFacts DEF Free, TypeOK, Process
        <5>2. Slots <= Cardinality(FirstFds) + Cardinality(Leaked(1))
          BY <4>1, <5>1, FiniteFacts DEF Accountable
        <5>3. Leaked(1)' = Leaked(1)
          BY DEF Leaked
        <5>4. Cardinality(Leaked(1)) \in Nat
          <6>1. Leaked(1) \in SUBSET Clients
            BY DEF Leaked
          <6> QED
            BY <6>1, FiniteFacts
        <5>5. Cardinality(Leaked(1)) >= Slots - Cardinality(FirstFds)
          BY <5>2, <5>4, ConstantFacts, FiniteFacts
        <5> QED
          BY <5>3, <5>5 DEF ServerDies
      <4>2. CASE Is(1, "dead")
        <5>1. Leaked(1)' = Leaked(1)
          BY DEF Leaked
        <5> QED
          BY <4>2, <5>1 DEF Accountable, ServerDies, Fatal
      <4> QED
        BY <4>1, <4>2 DEF Accountable
    <3>3. Untaken'
      BY LeakedSame DEF Accountable
    <3> QED
      BY <3>1, <3>2, <3>3 DEF Accountable
  <2> QED
    BY <2>1, <2>2
<1> QED
  BY <1>2, <1>3, <1>4, <1>5, <1>6

LEMMA AcceptFailsInv == ASSUME Inv, NEW p \in Procs, AcceptFails(p) PROVE Inv'
<1>1. ~Busy(p)
  BY DEF AcceptFails, Accepting, Is, Busy
<1>2. data' \in [Clients -> Nat] /\ \A c \in alone : \A d \in Clients \ {c} : data'[d] = 0
  BY DEF AcceptFails, outside, Inv, TypeOK, Alone
<1> QED
  BY <1>1, <1>2, DeathInv DEF AcceptFails, outside

\* A signal ends only a process that has returned its port or has none.
LEMMA HandleNothingInv == ASSUME Inv, NEW p \in Procs, HandleNothing(p) PROVE Inv'
<1>1. ~Busy(p)
  BY DEF Inv, Standing, HandleNothing, Busy, Is
<1>2. p # 1
  BY DEF Inv, Accountable, HandleNothing
<1>3. data' \in [Clients -> Nat] /\ \A c \in alone : \A d \in Clients \ {c} : data'[d] = 0
  BY DEF HandleNothing, outside, Inv, TypeOK, Alone
<1> QED
  BY <1>1, <1>2, <1>3, DeathInv DEF HandleNothing, outside

\* What a process at accept() is.
LEMMA AtAccept ==
  ASSUME Inv, NEW p \in Procs, Accepting(p)
  PROVE  /\ proc[p] \in Process /\ proc[p].role = "accept" /\ ~Busy(p)
         /\ ~proc[p].pending /\ ~proc[p].bound /\ proc[p].sock = 0
         /\ proc[p].inbox = <<>> /\ proc[p].client = NoClient
BY DEF Inv, TypeOK, Standing, Accepting, Is, Busy

\* A process ends over the client that it has just accepted.
LEMMA TakerDies ==
  ASSUME Inv, NEW p \in Procs, NEW c \in Clients, Accepting(p), First(c),
         NEW x \in {"OK", "lost"}, phase' = [phase EXCEPT ![c] = x],
         taker' = [taker EXCEPT ![c] = p], proc' = [proc EXCEPT ![p] = Dead(p)],
         UNCHANGED <<kind, data, gods, reports, counted, alone>>,
         forkFails \subseteq forkFails', forkFails' \subseteq Clients,
         Cardinality(forkFails') <= MaxForkFails,
         x = "OK" => c \in forkFails', kind[c] = "broken" \/ c \in forkFails'
  PROVE  Inv'
<1> USE DEF Inv
<1>1. /\ proc' \in [Procs -> Process]
      /\ proc'[p] = Dead(p)
      /\ \A q \in Procs : q # p => proc'[q] = proc[q]
  BY OneChanges, DeadFacts DEF Changes
<1>2. /\ Untaken' /\ (Fatal => Fatal') /\ Leaked(1) \subseteq Leaked(1)'
      /\ taker'[c] = p /\ phase'[c] = x /\ phase[c] = "asked"
      /\ \A d \in Clients : d # c => taker'[d] = taker[d] /\ phase'[d] = phase[d]
  BY OneTaken DEF Accountable
<1>3. ~Busy(p)
  BY DEF Accepting, Is, Busy
<1>4. TypeOK'
  BY <1>1 DEF TypeOK
<1>5. \A q \in Procs : Standing(q)'
  BY <1>1, <1>2, StandingKept, StandingDead
<1>6. \A d \in alone' : Alone(d)'
  <2>1. ASSUME NEW d \in Clients, Alone(d) PROVE Alone(d)'
    <3>1. ASSUME NEW q \in Procs
          PROVE  /\ Busy(q)' => Busy(q) /\ proc'[q].client = proc[q].client
                 /\ Is(q, "stream")' \/ Is(q, "leave")' => proc'[q].bound
                 /\ \A i \in DOMAIN proc'[q].inbox : proc'[q].inbox[i].client = d
      <4>1. CASE q # p
        BY <1>1, <2>1, <4>1 DEF Alone, Is, Busy
      <4>2. CASE q = p
        <5>1. ~Busy(p)' /\ ~Is(p, "stream")' /\ ~Is(p, "leave")'
              /\ DOMAIN proc'[p].inbox = {}
          BY <1>1, DeadFacts DEF Is, Busy
        <5> QED
          BY <4>2, <5>1
      <4> QED
        BY <4>1, <4>2
    <3>2. (\A r \in reports' : r.client = d) /\ \A e \in Clients \ {d} : data'[e] = 0
      BY <2>1 DEF Alone
    <3> QED
      BY <2>1, <3>1, <3>2, AloneKept
  <2> QED
    BY <2>1 DEF TypeOK
<1>7. CutShort'
  <2>1. ASSUME NEW d \in Clients, phase'[d] = "OK", d \notin gods'
        PROVE  d \in forkFails' \/ \E q \in Procs : Witness(d, q)'
    <3>1. CASE d = c
      BY <1>2, <2>1, <3>1
    <3>2. CASE d # c
      <4>1. d \in forkFails \/ \E q \in Procs : Witness(d, q)
        BY <1>2, <2>1, <3>2, CutShortIs
      <4>2. ASSUME NEW q \in Procs, Witness(d, q) PROVE Witness(d, q)'
        <5>1. q # p
          BY <4>2, AtAccept, ConstantFacts DEF Witness
        <5> QED
          BY <1>1, <4>2, <5>1 DEF Witness, Is
      <4> QED
        BY <4>1, <4>2
    <3> QED
      BY <3>1, <3>2
  <2> QED
    BY <2>1 DEF CutShort, Witness
<1>8. Accountable'
  <2>1. CASE p # 1
    <3>1. proc'[1] = proc[1]
      BY <1>1, <2>1, ConstantFacts
    <3> QED
      BY <1>2, <3>1, AccountKept
  <2>2. CASE p = 1
    <3>1. Fatal'
      BY <1>2, <2>2 DEF Fatal
    <3>2. Is(1, "dead")' /\ ~proc'[1].pending /\ ~Is(1, "accept")'
      BY <1>1, <2>2, DeadFacts DEF Is
    <3> QED
      BY <1>2, <3>1, <3>2 DEF Accountable, ServerDies, Fatal
  <2> QED
    BY <2>1, <2>2
<1> QED
  BY <1>4, <1>5, <1>6, <1>7, <1>8

LEMMA AcceptBrokenInv ==
  ASSUME Inv, NEW p \in Procs, NEW c \in Clients, AcceptBroken(p, c) PROVE Inv'
<1>1. forkFails' = forkFails /\ forkFails' \subseteq Clients
      /\ Cardinality(forkFails') <= MaxForkFails
  BY DEF AcceptBroken, Inv, TypeOK
<1> QED
  BY <1>1, TakerDies DEF AcceptBroken

LEMMA ForkFailsInv ==
  ASSUME Inv, NEW p \in Procs, NEW c \in Clients, ForkFails(p, c) PROVE Inv'
<1>1. forkFails' = forkFails \cup {c} /\ forkFails \in SUBSET Clients
  BY DEF ForkFails, Inv, TypeOK
<1>2. Cardinality(forkFails') <= MaxForkFails
  <2>1. IsFiniteSet(forkFails) /\ Cardinality(forkFails) \in Nat
    BY <1>1, FiniteFacts
  <2>2. Cardinality(forkFails') = Cardinality(forkFails)
          \/ Cardinality(forkFails') = Cardinality(forkFails) + 1
    BY <1>1, <2>1, FS_AddElement
  <2> QED
    BY <2>1, <2>2, ConstantFacts DEF ForkFails
<1> QED
  BY <1>1, <1>2, TakerDies DEF ForkFails

-----------------------------------------------------------------------------
(* The child. *)

\* A child finds the number of the closed connection lowest.
LEMMA SocketIsConnection ==
  ASSUME TypeOK, NEW p \in Procs, Standing(p), Is(p, "child")
  PROVE  Lowest(Free(p)) = proc[p].childfd
<1>1. Free(p) \subseteq Nat /\ proc[p].childfd \in Free(p)
  BY ConstantFacts DEF Standing, Free
<1>2. Lowest(Free(p)) \in Free(p) /\ \A f \in Free(p) : Lowest(Free(p)) <= f
  BY <1>1, LowestOfNat
<1>3. /\ Lowest(Free(p)) \in Nat /\ proc[p].childfd \in Nat
      /\ Lowest(Free(p)) <= proc[p].childfd /\ proc[p].childfd <= Lowest(Free(p))
  BY <1>1, <1>2 DEF Standing
<1> QED
  BY <1>3

LEMMA OpenSocketInv == ASSUME Inv, NEW p \in Procs, OpenSocket(p) PROVE Inv'
<1> USE DEF Inv
<1> DEFINE new == [proc[p] EXCEPT !.role = "stream", !.sock = proc[p].childfd,
                                  !.fds = @ \cup {proc[p].childfd},
                                  !.bound = ~\E q \in Procs : HoldsPort(q)]
<1>1. Is(p, "child") /\ Changes(p, new)
  <2>1. Lowest(Free(p)) = proc[p].childfd
    BY SocketIsConnection DEF OpenSocket
  <2>2. proc' = [proc EXCEPT ![p] = new]
    BY <2>1 DEF OpenSocket, TypeOK
  <2> QED
    BY <2>2 DEF OpenSocket, Changes
<1>2. /\ proc[p].childfd \in Fds /\ proc[p].childfd # 0 /\ ~proc[p].pending
      /\ ~proc[p].bound /\ proc[p].inbox = <<>> /\ proc[p].client \in Clients
  BY <1>1, ConstantFacts DEF Standing, Is, Busy, Free
<1>3. new \in Process
  <2>1. ASSUME NEW u \in Process, NEW f \in Fds, NEW b \in BOOLEAN, NEW g \in SUBSET Fds
        PROVE  [u EXCEPT !.role = "stream", !.sock = f, !.fds = g, !.bound = b] \in Process
    BY DEF Process
  <2>2. proc[p] \in Process /\ proc[p].fds \cup {proc[p].childfd} \in SUBSET Fds
    BY <1>2 DEF TypeOK, Process
  <2>3. (~\E q \in Procs : HoldsPort(q)) \in BOOLEAN
    OBVIOUS
  <2> QED
    BY <1>2, <2>1, <2>2, <2>3
<1>4. /\ new.role = "stream" /\ new.sock = proc[p].childfd /\ new.childfd = proc[p].childfd
      /\ new.client = proc[p].client /\ new.logs = proc[p].logs
      /\ new.pending = proc[p].pending /\ new.inbox = proc[p].inbox
      /\ new.bound = ~\E q \in Procs : HoldsPort(q)
  BY DEF TypeOK, Process
<1> HIDE DEF new
<1>5. /\ proc' \in [Procs -> Process]
      /\ proc'[p] = new
      /\ \A q \in Procs : q # p => proc'[q] = proc[q]
  BY <1>1, <1>3, OneChanges
<1>6. TypeOK'
  BY <1>5 DEF TypeOK, OpenSocket, outside
<1>7. \A q \in Procs : Standing(q)'
  <2>1. Standing(p)'
    <3>1. proc'[p].inbox = <<>> /\ ~proc'[p].pending
      BY <1>2, <1>4, <1>5
    <3>2. proc'[p].role = "stream" /\ proc'[p].sock = proc'[p].childfd /\ proc'[p].sock # 0
          /\ proc'[p].client \in Clients
      BY <1>2, <1>4, <1>5
    <3> QED
      BY <3>1, <3>2 DEF Standing, Is, Busy
  <2> QED
    BY <1>5, <2>1, StandingKept DEF OpenSocket, outside
<1>8. \A d \in alone' : Alone(d)'
  <2>1. ASSUME NEW d, Alone(d) PROVE Alone(d)'
    <3>1. ~\E q \in Procs : HoldsPort(q)
      <4> SUFFICES ASSUME NEW q \in Procs, HoldsPort(q) PROVE FALSE
        OBVIOUS
      <4>1. q = p
        BY <1>1, <2>1 DEF Standing, HoldsPort, Alone, Busy, Is
      <4> QED
        BY <1>2, <4>1 DEF HoldsPort
    <3>2. proc'[p].bound /\ proc'[p].inbox = <<>>
      BY <1>2, <1>4, <1>5, <3>1
    <3>3. proc'[p].client = d
      BY <1>1, <1>4, <1>5, <2>1 DEF Alone, Busy, Is
    <3>4. \A q \in Procs : Busy(q)' <=> Busy(q)
      BY <1>1, <1>4, <1>5 DEF Busy, Is
    <3>5. /\ \A q \in Procs : Busy(q)' => proc'[q].client = d
          /\ \A q, u \in Procs : Busy(q)' /\ Busy(u)' => q = u
      BY <1>5, <2>1, <3>3, <3>4 DEF Alone
    <3>6. \A q \in Procs : \A i \in DOMAIN proc'[q].inbox : proc'[q].inbox[i].client = d
      BY <1>5, <2>1, <3>2 DEF Alone
    <3>7. \A q \in Procs : Is(q, "stream")' \/ Is(q, "leave")' => proc'[q].bound
      BY <1>5, <2>1, <3>2 DEF Alone, Is
    <3> QED
      BY <2>1, <3>5, <3>6, <3>7 DEF Alone, OpenSocket, outside
  <2> QED
    BY <2>1 DEF OpenSocket, outside
<1>9. CutShort'
  <2>1. ASSUME NEW c \in Clients, NEW q \in Procs, Witness(c, q) PROVE Witness(c, q)'
    BY <1>4, <1>5, <2>1 DEF Witness, Is
  <2> QED
    BY <2>1, CutShortKept DEF OpenSocket, outside
<1>10. Accountable'
  <2>1. proc'[1] = proc[1]
    BY <1>1, <1>5, ConstantFacts DEF Accountable, Is
  <2> QED
    BY <2>1, LeakedSame, AccountKept DEF OpenSocket, outside
<1> QED
  BY <1>6, <1>7, <1>8, <1>9, <1>10

\* A stream that goes on, or comes to its end.
LEMMA StreamStep ==
  ASSUME Inv, NEW p \in Procs, NEW r \in Process, Changes(p, r), p # 1,
         UNCHANGED <<phase, kind, reports, counted, taker, forkFails, alone>>,
         gods \subseteq gods', gods' \subseteq Clients,
         data' \in [Clients -> Nat],
         \A c \in alone : \A d \in Clients \ {c} : data'[d] = 0,
         Standing(p)',
         Busy(p)' => Busy(p) /\ r.client = proc[p].client,
         Is(p, "stream")' \/ Is(p, "leave")' =>
           (Is(p, "stream") \/ Is(p, "leave")) /\ (proc[p].bound => r.bound),
         \A i \in DOMAIN r.inbox : \E j \in DOMAIN proc[p].inbox :
           r.inbox[i] = proc[p].inbox[j],
         \A c \in Clients : phase[c] = "OK" /\ c \notin gods' /\ Witness(c, p)
                              => Witness(c, p)'
  PROVE  Inv'
<1> USE DEF Inv
<1>1. /\ proc' \in [Procs -> Process]
      /\ proc'[p] = r
      /\ \A q \in Procs : q # p => proc'[q] = proc[q]
  BY OneChanges
<1>2. TypeOK'
  BY <1>1 DEF TypeOK
<1>3. \A q \in Procs : Standing(q)'
  BY <1>1, StandingKept
<1>4. \A d \in alone' : Alone(d)'
  <2>1. ASSUME NEW d \in alone, Alone(d) PROVE Alone(d)'
    <3>1. ASSUME NEW q \in Procs
          PROVE  /\ Busy(q)' => Busy(q) /\ proc'[q].client = proc[q].client
                 /\ Is(q, "stream")' \/ Is(q, "leave")' => proc'[q].bound
                 /\ \A i \in DOMAIN proc'[q].inbox : proc'[q].inbox[i].client = d
      <4>1. CASE q # p
        BY <1>1, <2>1, <4>1 DEF Alone, Is, Busy
      <4>2. CASE q = p
        BY <1>1, <2>1, <4>2 DEF Alone
      <4> QED
        BY <4>1, <4>2
    <3>2. (\A u \in reports' : u.client = d) /\ \A e \in Clients \ {d} : data'[e] = 0
      BY <2>1 DEF Alone
    <3> QED
      BY <2>1, <3>1, <3>2, AloneKept
  <2> QED
    BY <2>1
<1>5. CutShort'
  <2>1. ASSUME NEW c \in Clients, NEW q \in Procs, phase'[c] = "OK", c \notin gods',
               Witness(c, q)
        PROVE  Witness(c, q)'
    BY <1>1, <2>1 DEF Witness, Is
  <2> QED
    BY <2>1, CutShortKept
<1>6. Accountable'
  BY <1>1, ConstantFacts, LeakedSame, AccountKept
<1> QED
  BY <1>2, <1>3, <1>4, <1>5, <1>6

LEMMA BusyIsNotServer ==
  ASSUME Inv, NEW p \in Procs, Busy(p) PROVE p # 1
BY DEF Inv, Accountable, Busy, Is

\* The data of a stream that is alone goes to its client only.
LEMMA DataStays ==
  ASSUME Inv, NEW p \in Procs, Busy(p),
         data' = data \/ data' = [data EXCEPT ![proc[p].client] = @ + 1]
  PROVE  /\ data' \in [Clients -> Nat]
         /\ \A c \in alone : \A d \in Clients \ {c} : data'[d] = 0
<1>1. proc[p].client \in Clients /\ data \in [Clients -> Nat]
  BY DEF Inv, Standing, TypeOK
<1>2. \A c \in alone : Alone(c)
  BY DEF Inv
<1> QED
  BY <1>1, <1>2 DEF Alone

LEMMA TransferInv == ASSUME Inv, NEW p \in Procs, Transfer(p) PROVE Inv'
<1>1. Is(p, "stream") /\ Busy(p) /\ p # 1 /\ proc[p] \in Process /\ Standing(p)
  BY BusyIsNotServer DEF Transfer, Is, Busy, Inv, TypeOK
<1>2. /\ data' \in [Clients -> Nat]
      /\ \A c \in alone : \A d \in Clients \ {c} : data'[d] = 0
  BY <1>1, DataStays DEF Transfer
<1>3. CASE MayCrash(p) /\ proc' = [proc EXCEPT ![p] = Dead(p)]
  BY <1>1, <1>2, <1>3, DeathInv DEF Transfer, MayCrash
<1>4. CASE proc' = [proc EXCEPT ![p].left = @ - 1]
  <2> DEFINE r == [proc[p] EXCEPT !.left = @ - 1]
  <2>1. Changes(p, r)
    BY <1>4 DEF Changes
  <2>2. proc[p].left - 1 \in 0..Packets
    <3>1. proc[p].left \in 0..Packets
      BY <1>1 DEF Process
    <3>2. proc[p].left > 0
      BY DEF Transfer
    <3> QED
      BY <3>1, <3>2, ConstantFacts
  <2>3. r \in Process
    <3>1. ASSUME NEW u \in Process, NEW l \in 0..Packets PROVE [u EXCEPT !.left = l] \in Process
      BY DEF Process
    <3> QED
      BY <1>1, <2>2, <3>1
  <2>4. /\ r.role = proc[p].role /\ r.client = proc[p].client /\ r.sock = proc[p].sock
        /\ r.childfd = proc[p].childfd /\ r.pending = proc[p].pending
        /\ r.bound = proc[p].bound /\ r.inbox = proc[p].inbox /\ r.logs = proc[p].logs
    BY <1>1 DEF Process
  <2> HIDE DEF r
  <2>5. proc'[p] = r
    BY <2>1, <2>3, OneChanges DEF Inv
  <2>6. gods' = gods /\ phase' = phase
    BY DEF Transfer
  <2>7. Standing(p)'
    BY <1>1, <2>4, <2>5, <2>6 DEF Standing, Is, Busy
  <2>8. \A c \in Clients : Witness(c, p) => Witness(c, p)'
    BY <2>4, <2>5 DEF Witness, Is
  <2>9. gods' \subseteq Clients
    BY <2>6 DEF Inv, TypeOK
  <2> QED
    BY <1>1, <1>2, <2>1, <2>3, <2>4, <2>6, <2>7, <2>8, <2>9, StreamStep DEF Transfer
<1> QED
  BY <1>3, <1>4 DEF Transfer

LEMMA TransferEndInv == ASSUME Inv, NEW p \in Procs, TransferEnd(p) PROVE Inv'
<1> DEFINE r == [proc[p] EXCEPT !.role = "leave", !.fds = @ \ {proc[p].file}, !.file = 0]
<1>1. Is(p, "stream") /\ Busy(p) /\ p # 1 /\ proc[p] \in Process /\ Standing(p)
  BY BusyIsNotServer DEF TransferEnd, Is, Busy, Inv, TypeOK
<1>2. /\ data' \in [Clients -> Nat]
      /\ \A c \in alone : \A d \in Clients \ {c} : data'[d] = 0
  BY <1>1, DataStays DEF TransferEnd
<1>3. Changes(p, r)
  BY DEF TransferEnd, Changes
<1>4. r \in Process
  <2>1. proc[p].fds \ {proc[p].file} \in SUBSET Fds
    BY <1>1 DEF Process
  <2>2. ASSUME NEW u \in Process, NEW g \in SUBSET Fds
        PROVE  [u EXCEPT !.role = "leave", !.fds = g, !.file = 0] \in Process
    BY DEF Process
  <2> QED
    BY <1>1, <2>1, <2>2
<1>5. /\ r.role = "leave" /\ r.client = proc[p].client /\ r.sock = proc[p].sock
      /\ r.childfd = proc[p].childfd /\ r.pending = proc[p].pending
      /\ r.bound = proc[p].bound /\ r.inbox = proc[p].inbox /\ r.logs = proc[p].logs
  BY <1>1 DEF Process
<1> HIDE DEF r
<1>6. proc'[p] = r
  BY <1>3, <1>4, OneChanges DEF Inv
<1>7. gods' = gods \cup {proc[p].client} /\ phase' = phase
  BY DEF TransferEnd, Goodbyes
<1>8. Standing(p)'
  BY <1>1, <1>5, <1>6, <1>7 DEF Standing, Is, Busy
<1>9. \A c \in Clients : c \notin gods' => ~Witness(c, p)
  BY <1>7 DEF Witness
<1>10. gods \subseteq gods' /\ gods' \subseteq Clients
  BY <1>1, <1>7 DEF Inv, TypeOK, Standing
<1>11. Is(p, "leave")' /\ Busy(p)'
  BY <1>5, <1>6 DEF Is, Busy
<1> QED
  BY <1>1, <1>2, <1>3, <1>4, <1>5, <1>8, <1>9, <1>10, <1>11, StreamStep DEF TransferEnd

LEMMA ReturnInv == ASSUME Inv, NEW p \in Procs, Return(p) PROVE Inv'
<1>1. Is(p, "leave") /\ Busy(p) /\ p # 1 /\ proc[p] \in Process /\ Standing(p)
  BY BusyIsNotServer DEF Return, Is, Busy, Inv, TypeOK
<1>2. /\ data' \in [Clients -> Nat]
      /\ \A c \in alone : \A d \in Clients \ {c} : data'[d] = 0
  BY <1>1, DataStays DEF Return, outside
<1>3. CASE MayCrash(p) /\ proc' = [proc EXCEPT ![p] = Dead(p)]
  BY <1>1, <1>2, <1>3, DeathInv DEF Return, MayCrash, outside
<1>4. CASE proc' = [proc EXCEPT ![p] = Returned(p)]
  <2> DEFINE gone == (IF proc[p].logs THEN {logFile, plotFile} ELSE {}) \cup {proc[p].childfd}
             r == [proc[p] EXCEPT !.role = "accept", !.client = NoClient, !.childfd = 0,
                                  !.logs = FALSE, !.fds = @ \ gone, !.sock = 0,
                                  !.bound = FALSE, !.inbox = <<>>]
  <2>1. Returned(p) = r
    <3>1. proc[p].sock = proc[p].childfd
      BY <1>1 DEF Standing
    <3>2. proc[p].bound /\ 0 # 0 <=> FALSE
      OBVIOUS
    <3>3. (proc[p].bound /\ 0 # 0) = FALSE
      BY <3>2
    <3> QED
      BY <3>1, <3>3 DEF Returned
  <2>2. Changes(p, r)
    BY <1>4, <2>1 DEF Changes
  <2>3. r \in Process
    <3>1. ASSUME NEW u \in Process, NEW g \in SUBSET Fds, NEW b \in Seq(Report)
          PROVE  [u EXCEPT !.role = "accept", !.client = NoClient, !.childfd = 0,
                           !.logs = FALSE, !.fds = g, !.sock = 0,
                           !.bound = FALSE, !.inbox = b] \in Process
      BY DEF Process
    <3>2. proc[p].fds \ gone \in SUBSET Fds
      BY <1>1 DEF Process
    <3>3. <<>> \in Seq(Report)
      OBVIOUS
    <3> HIDE DEF gone
    <3> QED
      BY <1>1, <3>1, <3>2, <3>3
  <2>4. /\ r.role = "accept" /\ r.client = NoClient /\ r.sock = 0
        /\ ~r.bound /\ r.inbox = <<>> /\ ~r.logs
    BY <1>1 DEF Process
  <2> HIDE DEF r
  <2>5. proc'[p] = r
    BY <2>2, <2>3, OneChanges DEF Inv
  <2>6. gods' = gods /\ phase' = phase
    BY DEF Return, outside
  <2>7. Standing(p)' /\ ~Busy(p)' /\ ~Is(p, "stream")' /\ ~Is(p, "leave")'
    BY <2>4, <2>5 DEF Standing, Is, Busy
  <2>8. \A c \in Clients : phase[c] = "OK" /\ c \notin gods' => ~Witness(c, p)
    BY <1>1, <2>6 DEF Witness, Standing, Is
  <2>9. gods' \subseteq Clients
    BY <2>6 DEF Inv, TypeOK
  <2>10. DOMAIN r.inbox = {}
    BY <2>4
  <2> QED
    BY <1>1, <1>2, <2>2, <2>3, <2>6, <2>7, <2>8, <2>9, <2>10, StreamStep DEF Return, outside
<1> QED
  BY <1>3, <1>4 DEF Return

\* The lower and the upper limit hold whatever the level.
LEMMA PacedType ==
  ASSUME NEW s \in Spacings, NEW level \in Nat
  PROVE  Paced(s, level) \subseteq Spacings
<1>1. s \in Nat
  BY ConstantFacts DEF Spacings
<1>2. ASSUME NEW n \in Int PROVE ToInt(n) \in Int
  BY DEF ToInt
<1>3. Corrected(s, level) \in Int
  <2>1. 100000 * s \in Int /\ 15 * (q_star - level) \in Int /\ 500 * tau \in Int
    BY <1>1, ConstantFacts
  <2> QED
    BY <2>1 DEF Corrected
<1>4. ASSUME NEW n \in Int PROVE Truncated(n) \subseteq Int
  BY <1>2 DEF Truncated
<1>5. ASSUME NEW n \in Int PROVE Unsigned(n) \in Int
  BY DEF Unsigned
<1>6. {Unsigned(n) : n \in Truncated(Corrected(s, level))} \subseteq Int
  BY <1>3, <1>4, <1>5
<1>7. s - 1 \in Int /\ s + 1 \in Int /\ (3 * s) \div 4 \in Int
  BY <1>1
<1>8. Unsigned(s - 1) \in Int
  BY <1>5, <1>7
<1>9. Adjusted(s, level) \subseteq Int
  BY <1>1, <1>6, <1>7, <1>8 DEF Adjusted
<1>10. ASSUME NEW n \in Int PROVE Clamped(n) \in Spacings
  BY DEF Clamped, Spacings
<1> QED
  BY <1>9, <1>10 DEF Paced

LEMMA HandleInv == ASSUME Inv, NEW p \in Procs, Handle(p) PROVE Inv'
<1>1. /\ proc[p].pending /\ proc[p].inbox # <<>> /\ proc[p] \in Process /\ Standing(p)
      /\ Is(p, "stream") \/ Is(p, "leave")
  BY DEF Handle, Inv, TypeOK, Standing
<1>2. Busy(p) /\ p # 1
  BY <1>1, BusyIsNotServer DEF Is, Busy
<1>3. data' = data /\ /\ data' \in [Clients -> Nat]
                      /\ \A c \in alone : \A d \in Clients \ {c} : data'[d] = 0
  BY <1>2, DataStays DEF Handle, outside
<1>4. proc[p].inbox \in Seq(Report)
  BY <1>1 DEF Process
<1>5. PICK s \in Paced(proc[p].spacing, Head(proc[p].inbox).level) :
        proc' = [proc EXCEPT ![p] = Handled(p, s)]
  BY DEF Handle
<1>6. s \in Spacings
  <2>1. Head(proc[p].inbox) \in Report
    BY <1>1, <1>4
  <2>2. Head(proc[p].inbox).level \in Nat
    BY <2>1, ConstantFacts DEF Report
  <2>3. proc[p].spacing \in Spacings
    BY <1>1 DEF Process
  <2> QED
    BY <1>5, <2>2, <2>3, PacedType
<1> DEFINE r == [proc[p] EXCEPT !.pending = FALSE, !.inbox = Tail(@), !.spacing = s]
<1>7. Changes(p, r)
  BY <1>5 DEF Changes, Handled
<1>8. Tail(proc[p].inbox) \in Seq(Report)
  BY <1>1, <1>4
<1>9. r \in Process
  <2>1. ASSUME NEW u \in Process, NEW b \in Seq(Report)
        PROVE  [u EXCEPT !.pending = FALSE, !.inbox = b, !.spacing = s] \in Process
    BY <1>6 DEF Process
  <2> QED
    BY <1>1, <1>8, <2>1
<1>10. /\ r.role = proc[p].role /\ r.client = proc[p].client /\ r.sock = proc[p].sock
       /\ r.childfd = proc[p].childfd /\ r.bound = proc[p].bound /\ r.logs = proc[p].logs
       /\ ~r.pending /\ r.inbox = Tail(proc[p].inbox)
  BY <1>1 DEF Process
<1> HIDE DEF r
<1>11. proc'[p] = r
  BY <1>7, <1>9, OneChanges DEF Inv
<1>12. phase' = phase /\ gods' = gods
  BY DEF Handle, outside
<1>13. proc[p].bound
  BY <1>1 DEF Standing
<1>14. Standing(p)'
  BY <1>1, <1>10, <1>11, <1>12, <1>13 DEF Standing, Is, Busy
<1>15. \A i \in DOMAIN r.inbox : \E j \in DOMAIN proc[p].inbox : r.inbox[i] = proc[p].inbox[j]
  <2> DEFINE b == proc[p].inbox
  <2>1. /\ Len(b) \in Nat /\ DOMAIN b = 1..Len(b) /\ DOMAIN Tail(b) = 1..Len(b) - 1
        /\ \A i \in 1..Len(b) - 1 : Tail(b)[i] = b[i + 1]
    BY <1>1, <1>4
  <2>2. \A i \in 1..Len(b) - 1 : i + 1 \in 1..Len(b)
    BY <2>1
  <2> QED
    BY <1>10, <2>1, <2>2
<1>16. \A c \in Clients : Witness(c, p) => Witness(c, p)'
  BY <1>10, <1>11 DEF Witness, Is
<1>17. gods' \subseteq Clients
  BY <1>12 DEF Inv, TypeOK
<1> QED
  BY <1>1, <1>2, <1>3, <1>7, <1>9, <1>10, <1>12, <1>13, <1>14, <1>15, <1>16, <1>17,
     StreamStep DEF Handle, outside

-----------------------------------------------------------------------------
(* The accept loop. *)

\* One descriptor more is lost, and one client more has left it behind.
LEMMA OneMoreLeaked ==
  ASSUME NEW c \in Clients, Leaked(1)' = Leaked(1) \cup {c}, c \notin Leaked(1),
         NEW S \in SUBSET Fds, NEW f,
         Cardinality(S) <= Cardinality(FirstFds) + Cardinality(Leaked(1))
  PROVE  Cardinality(S \cup {f}) <= Cardinality(FirstFds) + Cardinality(Leaked(1)')
<1>1. Leaked(1) \in SUBSET Clients
  BY DEF Leaked
<1> HIDE DEF Leaked
<1>2. IsFiniteSet(Leaked(1)) /\ Cardinality(Leaked(1)) \in Nat /\ IsFiniteSet(S) /\ Cardinality(S) \in Nat
  BY <1>1, FiniteFacts
<1>3. Cardinality(Leaked(1)') = Cardinality(Leaked(1)) + 1
  BY <1>2, FS_AddElement
<1>4. Cardinality(S \cup {f}) = Cardinality(S) \/ Cardinality(S \cup {f}) = Cardinality(S) + 1
  <2>1. CASE f \in S
    <3>1. S \cup {f} = S
      BY <2>1
    <3> QED
      BY <3>1
  <2>2. CASE f \notin S
    BY <1>2, <2>2, FS_AddElement
  <2> QED
    BY <2>1, <2>2
<1> QED
  BY <1>2, <1>3, <1>4, FiniteFacts

LEMMA AcceptKOInv ==
  ASSUME Inv, NEW p \in Procs, NEW c \in Clients, AcceptKO(p, c) PROVE Inv'
<1> USE DEF Inv
<1> DEFINE f == Lowest(Free(p))
           r == [proc[p] EXCEPT !.fds = @ \cup {f}]
<1>1. Accepting(p) /\ Changes(p, r)
  BY DEF AcceptKO, Changes
<1>2. f \in Fds
  BY ConstantFacts, LowestOfNat DEF Free, AcceptKO
<1>3. r \in Process
  BY <1>1, <1>2, AtAccept DEF Process
<1>4. /\ r.role = "accept" /\ ~Busy(p) /\ ~r.bound /\ r.sock = 0 /\ r.inbox = <<>>
      /\ r.client = NoClient /\ ~r.pending /\ r.fds = proc[p].fds \cup {f}
      /\ r.logs = proc[p].logs
  BY <1>1, AtAccept DEF Process
<1> HIDE DEF r
<1>5. /\ proc' \in [Procs -> Process]
      /\ proc'[p] = r
      /\ \A q \in Procs : q # p => proc'[q] = proc[q]
  BY <1>1, <1>3, OneChanges
<1>6. /\ phase[c] = "asked" /\ kind' = kind
      /\ \A d \in Clients : phase'[d] = IF d = c THEN "KO" ELSE phase[d]
  BY DEF AcceptKO, First, TypeOK
<1>7. TypeOK'
  BY <1>5 DEF TypeOK, AcceptKO
<1>8. \A q \in Procs : Standing(q)'
  <2>1. Standing(p)'
    BY <1>4, <1>5 DEF Standing, Is, Busy
  <2> QED
    BY <1>5, <1>6, <2>1, StandingKept DEF AcceptKO
<1>9. \A d \in alone' : Alone(d)'
  <2>1. ASSUME NEW d \in Clients, Alone(d) PROVE Alone(d)'
    <3>1. ASSUME NEW q \in Procs
          PROVE  /\ Busy(q)' => Busy(q) /\ proc'[q].client = proc[q].client
                 /\ Is(q, "stream")' \/ Is(q, "leave")' => proc'[q].bound
                 /\ \A i \in DOMAIN proc'[q].inbox : proc'[q].inbox[i].client = d
      <4>1. CASE q # p
        BY <1>5, <2>1, <4>1 DEF Alone, Is, Busy
      <4>2. ~Busy(p)' /\ ~Is(p, "stream")' /\ ~Is(p, "leave")' /\ DOMAIN proc'[p].inbox = {}
        BY <1>4, <1>5 DEF Is, Busy
      <4> QED
        BY <4>1, <4>2
    <3>2. (\A u \in reports' : u.client = d) /\ \A e \in Clients \ {d} : data'[e] = 0
      BY <2>1 DEF Alone, AcceptKO
    <3> QED
      BY <2>1, <3>1, <3>2, AloneKept
  <2> QED
    BY <2>1 DEF AcceptKO, TypeOK
<1>10. CutShort'
  <2>1. ASSUME NEW d \in Clients, NEW q \in Procs, Witness(d, q) PROVE Witness(d, q)'
    <3>1. q # p
      BY <1>1, <2>1, AtAccept, ConstantFacts DEF Witness
    <3> QED
      BY <1>5, <2>1, <3>1 DEF Witness, Is
  <2> QED
    BY <1>6, <2>1, CutShortKept DEF AcceptKO
<1>11. /\ Untaken' /\ (Fatal => Fatal') /\ Leaked(1) \subseteq Leaked(1)'
       /\ p = 1 => Leaked(1)' = Leaked(1) \cup {c} /\ c \notin Leaked(1)
  <2>1. /\ Untaken' /\ (Fatal => Fatal') /\ Leaked(1) \subseteq Leaked(1)'
        /\ taker'[c] = p
        /\ \A d \in Clients : d # c => taker'[d] = taker[d]
    BY OneTaken DEF Accountable, AcceptKO
  <2> QED
    BY <1>6, <2>1 DEF Leaked
<1>12. Accountable'
  <2>1. CASE p # 1
    <3>1. proc'[1] = proc[1]
      BY <1>5, <2>1, ConstantFacts
    <3> QED
      BY <1>11, <3>1, AccountKept DEF AcceptKO
  <2>2. CASE p = 1
    <3>1. proc[1].fds \in SUBSET Fds
      BY ConstantFacts DEF TypeOK, Process
    <3>2. Is(1, "accept")
      BY <1>1, <2>2 DEF Accepting
    <3>3. Cardinality(proc'[1].fds) <= Cardinality(FirstFds) + Cardinality(Leaked(1)')
      BY <1>4, <1>5, <1>11, <2>2, <3>1, <3>2, OneMoreLeaked DEF Accountable
    <3> QED
      BY <1>4, <1>5, <1>11, <2>2, <3>3 DEF Accountable, ServerDies, Is
  <2> QED
    BY <2>1, <2>2
<1> QED
  BY <1>7, <1>8, <1>9, <1>10, <1>12

\* What accept(), fopen() and fork() give.
LEMMA NewChild ==
  ASSUME Inv, NEW p \in Procs, NEW c \in Clients, AcceptOK(p, c)
  PROVE  /\ NextProc \in Procs /\ Is(NextProc, "unborn") /\ NextProc # p /\ NextProc # 1
         /\ Conn(p) \in Free(p) /\ \A f \in Free(p) : Conn(p) <= f
         /\ File(p, c) = 0 \/ (File(p, c) \in Fds /\ File(p, c) # Conn(p) /\ kind[c] = "good")
<1>1. NextProc \in {q \in Procs : Is(q, "unborn")}
  <2> DEFINE S == {q \in Procs : Is(q, "unborn")}
  <2>1. S \subseteq Nat /\ S # {}
    BY ConstantFacts DEF AcceptOK
  <2>2. Lowest(S) \in S
    BY <2>1, LowestOfNat
  <2> QED
    BY <2>2 DEF Lowest, NextProc
<1>2. NextProc # p /\ NextProc # 1
  BY <1>1 DEF Inv, Accountable, AcceptOK, Accepting, Is
<1>3. Free(p) \subseteq Nat /\ Free(p) # {}
  BY ConstantFacts DEF Free, AcceptOK
<1>4. Conn(p) \in Free(p) /\ \A f \in Free(p) : Conn(p) <= f
  BY <1>3, LowestOfNat DEF Conn
<1>5. ASSUME Free(p) \ {Conn(p)} # {}
      PROVE  Lowest(Free(p) \ {Conn(p)}) \in Free(p) \ {Conn(p)}
  BY <1>3, <1>5, LowestOfNat
<1>6. CASE kind[c] = "good" /\ Free(p) \ {Conn(p)} # {}
  <2>1. File(p, c) = Lowest(Free(p) \ {Conn(p)})
    BY <1>6 DEF File
  <2> QED
    BY <1>1, <1>2, <1>4, <1>5, <1>6, <2>1 DEF Free
<1>7. CASE ~(kind[c] = "good" /\ Free(p) \ {Conn(p)} # {})
  <2>1. File(p, c) = 0
    BY <1>7 DEF File
  <2> QED
    BY <1>1, <1>2, <1>4, <2>1
<1> QED
  BY <1>6, <1>7

LEMMA AcceptOKInv ==
  ASSUME Inv, NEW p \in Procs, NEW c \in Clients, AcceptOK(p, c) PROVE Inv'
<1> USE DEF Inv
<1>n. PICK n \in Procs : n = NextProc
  BY NewChild
<1> DEFINE fds == (proc[p].fds \cup {File(p, c)}) \ {0}
<1>1. /\ Accepting(p)
      /\ n \in Procs /\ Is(n, "unborn") /\ n # p /\ n # 1
      /\ Conn(p) \in Free(p) /\ \A f \in Free(p) : Conn(p) <= f
      /\ File(p, c) = 0 \/ (File(p, c) \in Fds /\ File(p, c) # Conn(p) /\ kind[c] = "good")
  BY <1>n, NewChild DEF AcceptOK
<1>2. /\ proc[p] \in Process /\ proc[p].role = "accept" /\ ~Busy(p)
      /\ ~proc[p].pending /\ ~proc[p].bound /\ proc[p].sock = 0
      /\ proc[p].inbox = <<>> /\ proc[p].client = NoClient
  BY <1>1, AtAccept
<1>3. /\ fds \in SUBSET Fds /\ Conn(p) \in Fds \ fds
      /\ Fds \ fds \subseteq Free(p)
  BY <1>1, <1>2, ConstantFacts DEF Free, Process
<1>4. Kept(p, c) = [proc[p] EXCEPT !.fds = fds]
  BY DEF Kept
<1>5. Forked(p, c) = [proc[p] EXCEPT !.role = "child", !.client = c, !.childfd = Conn(p),
                                     !.file = File(p, c), !.fds = fds, !.left = Packets]
  BY DEF Forked
<1> HIDE DEF fds
<1>6. Kept(p, c) \in Process /\ Forked(p, c) \in Process
  <2>1. ASSUME NEW u \in Process, NEW g \in Fds \cup {0}, NEW h \in Fds \cup {0},
               NEW e \in SUBSET Fds, NEW l \in 0..Packets
        PROVE  [u EXCEPT !.role = "child", !.client = c, !.childfd = g,
                         !.file = h, !.fds = e, !.left = l] \in Process
    BY DEF Process
  <2>2. [proc[p] EXCEPT !.fds = fds] \in Process
    BY <1>2, <1>3 DEF Process
  <2>3. Packets \in 0..Packets
    BY ConstantFacts
  <2>4. Conn(p) \in Fds \cup {0} /\ File(p, c) \in Fds \cup {0}
    BY <1>1, <1>3
  <2>5. [proc[p] EXCEPT !.role = "child", !.client = c, !.childfd = Conn(p),
                        !.file = File(p, c), !.fds = fds, !.left = Packets] \in Process
    BY <1>2, <1>3, <2>1, <2>3, <2>4
  <2> QED
    BY <1>4, <1>5, <2>2, <2>5
<1>7. /\ Kept(p, c).role = "accept" /\ ~Kept(p, c).pending /\ ~Kept(p, c).bound
      /\ Kept(p, c).sock = 0 /\ Kept(p, c).inbox = <<>> /\ Kept(p, c).client = NoClient
      /\ Kept(p, c).fds = fds /\ Kept(p, c).logs = proc[p].logs
  BY <1>2, <1>4 DEF Process
<1>8. /\ Forked(p, c).role = "child" /\ ~Forked(p, c).pending /\ ~Forked(p, c).bound
      /\ Forked(p, c).sock = 0 /\ Forked(p, c).inbox = <<>> /\ Forked(p, c).client = c
      /\ Forked(p, c).fds = fds /\ Forked(p, c).childfd = Conn(p)
  BY <1>2, <1>5 DEF Process
<1>9. /\ proc' \in [Procs -> Process]
      /\ proc'[p] = Kept(p, c) /\ proc'[n] = Forked(p, c)
      /\ \A q \in Procs : q # p /\ q # n => proc'[q] = proc[q]
  <2>1. proc' = [proc EXCEPT ![p] = Kept(p, c), ![n] = Forked(p, c)]
    BY <1>n DEF AcceptOK
  <2>2. proc \in [Procs -> Process]
    BY DEF TypeOK
  <2> HIDE DEF Inv
  <2> QED
    BY <1>1, <1>6, <2>1, <2>2
<1>10. /\ phase[c] = "asked" /\ kind' = kind
       /\ \A d \in Clients : phase'[d] = IF d = c THEN "OK" ELSE phase[d]
  BY DEF AcceptOK, First, TypeOK
<1>11. TypeOK'
  BY <1>9 DEF TypeOK, AcceptOK
<1>12. \A q \in Procs : Standing(q)'
  <2>1. Standing(p)'
    BY <1>7, <1>9 DEF Standing, Is, Busy
  <2>2. Standing(n)'
    <3>1. proc'[n].childfd \in Fds \ proc'[n].fds
      BY <1>3, <1>8, <1>9
    <3>2. \A f \in Fds \ proc'[n].fds : proc'[n].childfd <= f
      BY <1>1, <1>3, <1>8, <1>9
    <3>3. /\ proc'[n].role = "child" /\ ~proc'[n].pending /\ ~proc'[n].bound
          /\ proc'[n].sock = 0 /\ proc'[n].inbox = <<>> /\ proc'[n].client \in Clients
      BY <1>8, <1>9
    <3> QED
      BY <3>1, <3>2, <3>3 DEF Standing, Is, Busy, Free
  <2>3. ASSUME NEW q \in Procs, q # p, q # n PROVE Standing(q)'
    BY <1>9, <1>10, <2>3, StandingKept DEF AcceptOK
  <2> QED
    BY <2>1, <2>2, <2>3
<1>13. \A d \in alone' : Alone(d)'
  <2>1. SUFFICES ASSUME Quiet(c) PROVE Alone(c)'
    BY DEF AcceptOK
  <2>2. \A q \in Procs : Busy(q)' => q = n
    <3>1. ~Busy(p)'
      BY <1>7, <1>9 DEF Busy
    <3>2. \A q \in Procs : q # p /\ q # n => ~Busy(q)'
      BY <1>9, <2>1 DEF Busy, Quiet
    <3> QED
      BY <3>1, <3>2
  <2>3. proc'[n].client = c /\ ~Is(n, "stream")' /\ ~Is(n, "leave")'
    BY <1>8, <1>9 DEF Is
  <2>4. \A q \in Procs : proc'[q].inbox = <<>>
    <3>1. \A q \in Procs : q # p /\ q # n => proc[q].inbox = <<>>
      BY <2>1 DEF Quiet, Busy, Standing, Is
    <3> QED
      BY <1>7, <1>8, <1>9, <3>1
  <2>5. \A q \in Procs : DOMAIN proc'[q].inbox = {}
    BY <2>4
  <2>6. \A q \in Procs : ~Is(q, "stream")' /\ ~Is(q, "leave")'
    BY <2>2, <2>3 DEF Busy, Is
  <2>7. reports' = reports /\ data' = data
    BY DEF AcceptOK
  <2> QED
    BY <2>1, <2>2, <2>3, <2>5, <2>6, <2>7 DEF Alone, Quiet
<1>14. CutShort'
  <2>1. ASSUME NEW d \in Clients, phase'[d] = "OK", d \notin gods'
        PROVE  d \in forkFails' \/ \E q \in Procs : Witness(d, q)'
    <3>1. CASE d = c
      <4>1. Witness(c, n)'
        BY <1>8, <1>9 DEF Witness, Is
      <4> QED
        BY <1>1, <3>1, <4>1
    <3>2. CASE d # c
      <4>1. phase[d] = "OK" /\ d \notin gods /\ forkFails' = forkFails
        BY <1>10, <2>1, <3>2 DEF AcceptOK
      <4>2. ASSUME NEW q \in Procs, Witness(d, q) PROVE Witness(d, q)'
        <5>1. q # p /\ q # n
          BY <1>1, <1>2, <4>2, ConstantFacts DEF Witness, Standing
        <5> QED
          BY <1>9, <4>2, <5>1 DEF Witness, Is
      <4> QED
        BY <4>1, <4>2, CutShortIs
    <3> QED
      BY <3>1, <3>2
  <2> QED
    BY <2>1 DEF CutShort, Witness
<1>15. Accountable'
  <2>1. /\ Untaken' /\ (Fatal => Fatal') /\ Leaked(1) \subseteq Leaked(1)'
        /\ taker'[c] = p
        /\ \A d \in Clients : d # c => taker'[d] = taker[d]
    BY OneTaken DEF Accountable, AcceptOK
  <2>2. CASE p # 1
    <3>1. proc'[1] = proc[1]
      BY <1>1, <1>9, <2>2, ConstantFacts
    <3> QED
      BY <2>1, <3>1, AccountKept DEF AcceptOK
  <2>3. CASE p = 1
    <3>1. proc[1].fds \in SUBSET Fds /\ Is(1, "accept")
      BY <1>2, <2>3 DEF Process, Is
    <3>2. Cardinality(proc[1].fds) <= Cardinality(FirstFds) + Cardinality(Leaked(1))
      BY <3>1 DEF Accountable
    <3>3. Cardinality(fds) <= Cardinality(FirstFds) + Cardinality(Leaked(1)')
      <4>1. CASE File(p, c) = 0
        <5>1. fds = proc[1].fds
          BY <2>3, <3>1, <4>1, ConstantFacts DEF fds
        <5>2. Leaked(1) \in SUBSET Clients /\ Leaked(1)' \in SUBSET Clients
          BY DEF Leaked
        <5>3. Cardinality(Leaked(1)) <= Cardinality(Leaked(1)')
          BY <2>1, <5>2, FiniteFacts, FS_Subset
        <5>4. /\ Cardinality(Leaked(1)) \in Nat /\ Cardinality(Leaked(1)') \in Nat
              /\ Cardinality(proc[1].fds) \in Nat
          BY <3>1, <5>2, FiniteFacts
        <5> HIDE DEF Leaked
        <5> QED
          BY <3>2, <5>1, <5>3, <5>4, FiniteFacts
      <4>2. CASE File(p, c) # 0
        <5>1. fds = proc[1].fds \cup {File(p, c)}
          BY <2>3, <3>1, <4>2, ConstantFacts DEF fds
        <5>2. Leaked(1)' = Leaked(1) \cup {c} /\ c \notin Leaked(1)
          BY <1>1, <1>10, <2>1, <2>3, <4>2 DEF Leaked
        <5> QED
          BY <3>1, <3>2, <5>1, <5>2, OneMoreLeaked
      <4> QED
        BY <4>1, <4>2
    <3> QED
      BY <1>7, <1>9, <2>1, <2>3, <3>3 DEF Accountable, ServerDies, Is
  <2> QED
    BY <2>2, <2>3
<1> QED
  BY <1>11, <1>12, <1>13, <1>14, <1>15

-----------------------------------------------------------------------------
LEMMA StutterInv == ASSUME Inv, UNCHANGED vars PROVE Inv'
<1>1. /\ phase' = phase /\ kind' = kind /\ proc' = proc /\ data' = data /\ gods' = gods
      /\ reports' = reports /\ counted' = counted /\ forkFails' = forkFails
      /\ taker' = taker /\ alone' = alone
  BY DEF vars
<1>2. TypeOK'
  BY <1>1 DEF Inv, TypeOK
<1>3. \A p \in Procs : Standing(p)'
  BY <1>1, StandingKept DEF Inv
<1>4. \A c \in alone' : Alone(c)'
  BY <1>1 DEF Inv, Alone, Is, Busy
<1>5. CutShort'
  BY <1>1 DEF Inv, CutShort, Is
<1>6. Accountable'
  BY <1>1, LeakedSame, AccountKept DEF Inv
<1> QED
  BY <1>2, <1>3, <1>4, <1>5, <1>6 DEF Inv

LEMMA NextInv == Inv /\ [Next]_vars => Inv'
<1> SUFFICES ASSUME Inv, [Next]_vars PROVE Inv'
  OBVIOUS
<1>1. ASSUME NEW c \in Clients, Ask(c) \/ Hear(c) \/ HearEnd(c) PROVE Inv'
  BY <1>1, AskInv, HearInv, HearEndInv
<1>2. ASSUME NEW p \in Procs, Step(p) PROVE Inv'
  BY <1>2, AcceptFailsInv, OpenSocketInv, TransferInv, TransferEndInv, ReturnInv,
     HandleInv, HandleNothingInv DEF Step
<1>3. ASSUME NEW p \in Procs, NEW c \in Clients, Accept(p, c) PROVE Inv'
  BY <1>3, AcceptBrokenInv, AcceptKOInv, AcceptOKInv, ForkFailsInv DEF Accept
<1>4. ASSUME NEW r \in reports, Arrive(r) PROVE Inv'
  BY <1>4, ArriveInv
<1>5. CASE UNCHANGED vars
  BY <1>5, StutterInv
<1> QED
  BY <1>1, <1>2, <1>3, <1>4, <1>5 DEF Next

\* The invariant holds in every behaviour.
THEOREM Invariance == Spec => []Inv
BY InitInv, NextInv, PTL DEF Spec

\* The types: no spacing leaves the limits of handle_sigpoll, and no descriptor
\* the table.
THEOREM Typing == Spec => []TypeOK
<1>1. Inv => TypeOK
  BY DEF Inv
<1> QED
  BY <1>1, Invariance, PTL

\* The port of a stream that is alone belongs to its process, which reads no
\* report of another client.
THEOREM ReportsReachStream == Spec => []ReportsGoHome
<1>1. Inv => ReportsGoHome
  BY DEF Inv, ReportsGoHome, Alone, HoldsPort
<1> QED
  BY <1>1, Invariance, PTL

\* No signal ends a process that still has packets to send.
THEOREM NoStreamCut == Spec => []CutShort
<1>1. Inv => CutShort
  BY DEF Inv
<1> QED
  BY <1>1, Invariance, PTL

\* What ends the server is a client that it has accepted itself: by a broken
\* request, by a fork() that fails, or together with others that have cost it
\* all of its free descriptors.
THEOREM ServerLasts == Spec => []ServerDies
<1>1. Inv => ServerDies
  BY DEF Inv, Accountable
<1> QED
  BY <1>1, Invariance, PTL

-----------------------------------------------------------------------------
(* The packet spacing. *)

\* What a level that is not above the target makes of a spacing.
LowerOrWrapped(s, l, n) ==
  \/ n <= s
  \/ n = 5
  \/ mode = 2 /\ n = 999 /\ 100000 * (s + 1) <= 15 * (q_star - l)

\* What the limits make of an integer that is no larger than the spacing.
LEMMA ClampedLow ==
  ASSUME NEW s \in Nat, s > 0, NEW m \in Int, m <= s
  PROVE  /\ m >= 0 => Clamped(Unsigned(m)) <= s \/ Clamped(Unsigned(m)) = 5
         /\ m < 0 => Clamped(Unsigned(m)) = 999
BY DEF Clamped, Unsigned

\* Toward zero: the result is not above a bound of the exact value, and is
\* negative only when that is -1 or less.
LEMMA TruncatedLow ==
  ASSUME NEW s \in Nat, NEW n \in Int, n <= 100000 * s, NEW m \in Truncated(n)
  PROVE  /\ m \in Int /\ m <= s
         /\ m < 0 => n <= -100000
<1>1. ASSUME NEW k \in Int, k <= 100000 * s + 1
      PROVE  /\ ToInt(k) \in Int /\ ToInt(k) <= s
             /\ ToInt(k) < 0 => k <= -100000
  <2>1. CASE k >= 0
    BY <1>1, <2>1 DEF ToInt
  <2>2. CASE k < 0
    <3>1. -k \in Nat /\ (-k) \div 100000 \in Nat
      BY <2>2
    <3>2. (-k) \div 100000 > 0 => -k >= 100000
      BY <3>1
    <3> QED
      BY <2>2, <3>1, <3>2 DEF ToInt
  <2> QED
    BY <2>1, <2>2
<1>2. CASE n % 100000 # 0
  <2>1. m = ToInt(n)
    BY <1>2 DEF Truncated
  <2> QED
    BY <1>1, <2>1
<1>3. CASE n % 100000 = 0
  <2>1. PICK k \in {n - 1, n, n + 1} : m = ToInt(k)
    BY <1>3 DEF Truncated
  <2>2. m \in Int /\ m <= s /\ (m < 0 => k <= -100000)
    BY <1>1, <2>1
  <2>3. k <= -100000 => n <= -99999
    BY <2>1
  <2>4. n <= -99999 => n <= -100000
    BY <1>3
  <2> QED
    BY <2>2, <2>3, <2>4
<1> QED
  BY <1>2, <1>3

\* A level that is not above the target lets no method but the third with its
\* tau raise the spacing, except to the limits.
LEMMA LowPaced ==
  ASSUME NEW s \in Nat, s > 0, NEW l \in Nat, l <= q_star, mode # 3,
         NEW n \in Paced(s, l)
  PROVE  LowerOrWrapped(s, l, n)
<1>1. PICK a \in Adjusted(s, l) : n = Clamped(a)
  BY DEF Paced
<1>2. CASE mode >= 2
  <2>1. mode = 2
    BY <1>2, ConstantFacts
  <2>2. Corrected(s, l) = 100000 * s - 15 * (q_star - l)
    <3>1. 100000 * s - 15 * (q_star - l) \in Int
      BY ConstantFacts
    <3> QED
      BY <2>1, <3>1 DEF Corrected
  <2>3. PICK m \in Truncated(Corrected(s, l)) : a = Unsigned(m)
    BY <1>1, <1>2 DEF Adjusted
  <2>4. Corrected(s, l) \in Int /\ Corrected(s, l) <= 100000 * s
    BY <2>2, ConstantFacts
  <2>5. m \in Int /\ m <= s /\ (m < 0 => Corrected(s, l) <= -100000)
    BY <2>4, TruncatedLow
  <2>6. m >= 0 => n <= s \/ n = 5
    BY <1>1, <2>3, <2>5, ClampedLow
  <2>7. m < 0 => n = 999 /\ 100000 * (s + 1) <= 15 * (q_star - l)
    <3>1. m < 0 => n = 999
      BY <1>1, <2>3, <2>5, ClampedLow
    <3>2. 100000 * s - 15 * (q_star - l) <= -100000
             => 100000 * (s + 1) <= 15 * (q_star - l)
      BY ConstantFacts
    <3> QED
      BY <2>2, <2>5, <3>1, <3>2
  <2> QED
    BY <2>1, <2>5, <2>6, <2>7 DEF LowerOrWrapped
<1>3. CASE ~(mode >= 2)
  <2>1. \/ a = s
        \/ mode = 0 /\ a = Unsigned(s - 1)
        \/ a = (3 * s) \div 4
    BY <1>1, <1>3, ConstantFacts DEF Adjusted
  <2>2. a \in Nat /\ a <= s
    <3>1. Unsigned(s - 1) = s - 1
      BY DEF Unsigned
    <3>2. (3 * s) \div 4 \in Nat /\ (3 * s) \div 4 <= s
      OBVIOUS
    <3> QED
      BY <2>1, <3>1, <3>2
  <2> QED
    BY <1>1, <2>2 DEF LowerOrWrapped, Clamped
<1> QED
  BY <1>2, <1>3

\* Only a report changes the spacing of a process that has reports; what ends
\* a process leaves it none.
LEMMA SpacingByReport ==
  ASSUME Inv, Next, NEW p \in Procs,
         proc[p].inbox # <<>>, proc'[p].spacing > proc[p].spacing
  PROVE  proc'[p].spacing \in Paced(proc[p].spacing, Head(proc[p].inbox).level)
<1>1. proc \in [Procs -> Process]
  BY DEF Inv, TypeOK
<1>2. proc[p].spacing \in Nat
  <2>1. Spacings \subseteq Nat
    BY ConstantFacts DEF Spacings
  <2> QED
    BY <1>1, <2>1 DEF Process
<1>3. proc'[p] # Dead(p)
  <2>1. Dead(p).spacing = 0
    BY DEF Dead, Unborn
  <2>2. ~(0 > proc[p].spacing)
    BY <1>2
  <2> QED
    BY <2>1, <2>2
<1>4. proc'[p].spacing # proc[p].spacing
  BY <1>2
<1>5. ~Is(p, "unborn")
  BY DEF Inv, Standing, Is
<1>6. ASSUME NEW c \in Clients, Ask(c) \/ Hear(c) \/ HearEnd(c) PROVE FALSE
  BY <1>4, <1>6 DEF Ask, Hear, HearEnd
<1>7. ASSUME NEW r \in reports, Arrive(r) PROVE FALSE
  <2>1. ASSUME NEW u \in Process, NEW i, NEW b
        PROVE  [u EXCEPT !.inbox = i, !.pending = b].spacing = u.spacing
    BY DEF Process
  <2>2. \/ proc'[p] = proc[p]
        \/ proc'[p] = [proc[p] EXCEPT !.inbox = Append(@, r), !.pending = TRUE]
    BY <1>7 DEF Arrive
  <2>3. proc[p] \in Process
    BY <1>1
  <2>4. [proc[p] EXCEPT !.inbox = Append(@, r), !.pending = TRUE].spacing
          = proc[p].spacing
    BY <2>1, <2>3
  <2> QED
    BY <1>4, <2>2, <2>4
<1>8. ASSUME NEW q \in Procs, NEW c \in Clients, Accept(q, c) PROVE FALSE
  <2>1. CASE AcceptKO(q, c)
    BY <1>1, <1>4, <2>1 DEF AcceptKO
  <2>2. CASE AcceptOK(q, c)
    <3>1. NextProc \in Procs /\ Is(NextProc, "unborn")
      <4>1. {u \in Procs : Is(u, "unborn")} \subseteq Nat
        BY ConstantFacts
      <4>2. {u \in Procs : Is(u, "unborn")} # {}
        BY <2>2 DEF AcceptOK
      <4> QED
        BY <4>1, <4>2, LowestOfNat DEF NextProc, Lowest
    <3>2. p # NextProc
      BY <1>5, <3>1
    <3>3. proc'[p] = proc[p] \/ (p = q /\ proc'[p] = Kept(p, c))
      BY <1>1, <2>2, <3>2 DEF AcceptOK
    <3>4. Kept(p, c).spacing = proc[p].spacing
      BY <1>1 DEF Kept, Process
    <3> QED
      BY <1>4, <3>3, <3>4
  <2>3. CASE ForkFails(q, c)
    BY <1>1, <1>3, <1>4, <2>3 DEF ForkFails
  <2>4. CASE AcceptBroken(q, c)
    BY <1>1, <1>3, <1>4, <2>4 DEF AcceptBroken
  <2> QED
    BY <1>8, <2>1, <2>2, <2>3, <2>4 DEF Accept
<1>9. ASSUME NEW q \in Procs, Step(q)
      PROVE  proc'[p].spacing \in Paced(proc[p].spacing, Head(proc[p].inbox).level)
  <2>1. CASE AcceptFails(q) \/ HandleNothing(q)
    BY <1>1, <1>3, <1>4, <2>1 DEF AcceptFails, HandleNothing
  <2>2. CASE OpenSocket(q)
    BY <1>1, <1>4, <2>2 DEF OpenSocket
  <2>3. CASE Transfer(q)
    <3>1. ASSUME NEW u \in Process, NEW n PROVE [u EXCEPT !.left = n].spacing = u.spacing
      BY DEF Process
    <3>2. \/ proc'[p] = proc[p]
          \/ proc'[p] = [proc[p] EXCEPT !.left = @ - 1]
          \/ proc'[p] = Dead(p)
      BY <1>1, <2>3 DEF Transfer
    <3>3. [proc[p] EXCEPT !.left = @ - 1].spacing = proc[p].spacing
      BY <1>1, <3>1
    <3>4. CASE proc'[p] = Dead(p)
      BY <1>3, <1>4, <3>4
    <3> QED
      BY <1>4, <3>2, <3>3, <3>4
  <2>4. CASE TransferEnd(q)
    BY <1>1, <1>4, <2>4 DEF TransferEnd
  <2>5. CASE Return(q)
    <3>1. Returned(q).spacing = proc[q].spacing
      BY <1>1 DEF Returned, Process
    <3> QED
      BY <1>1, <1>3, <1>4, <2>5, <3>1 DEF Return
  <2>6. CASE Handle(q)
    <3>1. p = q
      BY <1>1, <1>4, <2>6 DEF Handle
    <3> QED
      BY <1>1, <2>6, <3>1 DEF Handle, Handled, Process
  <2> QED
    BY <1>9, <2>1, <2>2, <2>3, <2>4, <2>5, <2>6 DEF Step
<1> QED
  BY <1>6, <1>7, <1>8, <1>9 DEF Next

\* For every method of congestion control but the last, every target and every
\* spacing of the command line: a low level slows no stream down, except by the
\* lower limit and by the correction that wraps.
THEOREM LowLevelSpeedsUp == Spec => LowSpeedsUp
<1>1. ASSUME Inv, [Next]_vars, NEW p \in Procs,
             proc[p].inbox # <<>>, proc[p].spacing > 0, mode # 3,
             Head(proc[p].inbox).level <= q_star,
             proc'[p].spacing > proc[p].spacing
      PROVE  \/ proc'[p].spacing = 5
             \/ mode = 2 /\ proc'[p].spacing = 999
                /\ 100000 * (proc[p].spacing + 1)
                     <= 15 * (q_star - Head(proc[p].inbox).level)
  <2> DEFINE s == proc[p].spacing
             l == Head(proc[p].inbox).level
  <2>1. proc[p] \in Process
    BY <1>1 DEF Inv, TypeOK
  <2>2. s \in Nat
    <3>1. Spacings \subseteq Nat
      BY ConstantFacts DEF Spacings
    <3> QED
      BY <2>1, <3>1 DEF Process
  <2>3. l \in Nat
    <3>1. proc[p].inbox \in Seq(Report)
      BY <2>1 DEF Process
    <3>2. Head(proc[p].inbox) \in Report
      BY <1>1, <3>1
    <3> QED
      BY <3>2, ConstantFacts DEF Report
  <2>4. Next
    BY <1>1, <2>2 DEF vars
  <2>5. proc'[p].spacing \in Paced(s, l)
    BY <1>1, <2>4, SpacingByReport
  <2>6. LowerOrWrapped(s, l, proc'[p].spacing)
    BY <1>1, <2>2, <2>3, <2>5, LowPaced
  <2>7. ~(proc'[p].spacing <= s)
    <3>1. TypeOK'
      BY <1>1, NextInv DEF Inv
    <3>2. proc'[p].spacing \in Nat
      <4>1. proc'[p] \in Process
        BY <3>1 DEF TypeOK
      <4>2. Spacings \subseteq Nat
        BY ConstantFacts DEF Spacings
      <4> QED
        BY <4>1, <4>2 DEF Process
    <3> QED
      BY <1>1, <2>2, <3>2
  <2> QED
    BY <2>6, <2>7 DEF LowerOrWrapped
<1>2. Inv /\ [Next]_vars =>
        [\A p \in Procs :
           LET r == Head(proc[p].inbox)
           IN  /\ proc[p].inbox # <<>> /\ proc'[p].inbox = Tail(proc[p].inbox)
               /\ proc[p].spacing > 0 /\ mode # 3 /\ r.level <= q_star
               /\ proc'[p].spacing > proc[p].spacing
               => \/ proc'[p].spacing = 5
                  \/ mode = 2 /\ proc'[p].spacing = 999
                     /\ 100000 * (proc[p].spacing + 1) <= 15 * (q_star - r.level)]_vars
  BY <1>1
<1> QED
  BY <1>2, Invariance, PTL DEF Spec, LowSpeedsUp
=============================================================================
