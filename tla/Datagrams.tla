----------------------------- MODULE Datagrams ------------------------------
(***************************************************************************)
(* UDP datagrams in flight between the processes of one model: a function  *)
(* from each datagram in flight to its number of copies.  The order is not *)
(* kept.  Unlike the bag operators, Put saturates at Copies: a copy too    *)
(* many is discarded, as a full socket buffer does.                        *)
(***************************************************************************)
EXTENDS Integers

CONSTANT Copies   \* bound on identical datagrams in flight

ASSUME CopiesAssumption == Copies \in Nat /\ Copies > 0

NoDatagrams == [d \in {} |-> 0]

Put(net, d) ==
  [e \in DOMAIN net \cup {d} |->
     IF e # d THEN net[e]
     ELSE IF d \notin DOMAIN net THEN 1
     ELSE IF net[d] < Copies THEN net[d] + 1 ELSE net[d]]

Take(net, d) ==
  [e \in {f \in DOMAIN net : f # d \/ net[f] > 1} |->
     IF e = d THEN net[e] - 1 ELSE net[e]]
=============================================================================
