---------------------------- MODULE FileTransfer ----------------------------
(***************************************************************************)
(* What a file transfer of this repository promises, whatever carries it:  *)
(* the receiver collects the blocks of one file in any order, keeps each   *)
(* block once, reports the file exactly when the last one is in, and the   *)
(* sender leaves only after the receiver has reported.                     *)
(***************************************************************************)
EXTENDS Integers

CONSTANT Blocks   \* the sequence numbers of the file's blocks

VARIABLES
  received,   \* blocks the receiver holds
  reported,   \* the receiver has reported the file as received
  left        \* the sender has ended, its work done

vars == <<received, reported, left>>

Init ==
  /\ received = {}
  /\ reported = FALSE
  /\ left = FALSE

\* The receiver gains one block, and reports with the last.
Receive(b) ==
  /\ b \notin received
  /\ received' = received \cup {b}
  /\ reported' = (received' = Blocks)
  /\ UNCHANGED left

Leave ==
  /\ reported
  /\ ~left
  /\ left' = TRUE
  /\ UNCHANGED <<received, reported>>

Next == (\E b \in Blocks : Receive(b)) \/ Leave

Spec == Init /\ [][Next]_vars
=============================================================================
