------------------------------ MODULE Checksum -------------------------------
(***************************************************************************)
(* The checksum of lab1/mychecksum.c and lab1/myunchecksum.c, which both   *)
(* servers and both clients of the TCP file transfer repeat: the bytes are *)
(* added as signed characters in an unsigned integer, which follows the    *)
(* file as a big-endian trailer.  There a byte has Base = 256 values and   *)
(* the trailer has Width = 8 bytes.                                        *)
(***************************************************************************)
EXTENDS Integers, SequencesExt

CONSTANTS Base, Width

ASSUME ChecksumAssumption ==
  Base \in Nat /\ Base > 1 /\ Base % 2 = 0 /\ Width \in Nat /\ Width > 0

Byte == 0..(Base - 1)

\* What a byte of the integer counts with k bytes below it.
Power[k \in 0..Width] == IF k = 0 THEN 1 ELSE Base * Power[k - 1]

\* The values of the unsigned integer.
Modulus == Power[Width]

\* A byte read as a char.
Signed(b) == IF b >= Base \div 2 THEN b - Base ELSE b

\* check_sum += buffer[0], for every byte.
Sum(s) ==
  LET total[i \in 0..Len(s)] ==
        IF i = 0 THEN 0 ELSE (total[i - 1] + Signed(s[i])) % Modulus
  IN  total[Len(s)]

\* A mutant does not cut the integer into bytes.
Uncut(n) == [i \in 1..Width |-> n \div Power[Width - i]]

\* htobe64, and the integer written byte by byte.
BigEndian(n) == [i \in 1..Width |-> (n \div Power[Width - i]) % Base]

\* be64toh.
FromBigEndian(t) ==
  LET value[i \in 0..Len(t)] == IF i = 0 THEN 0 ELSE Base * value[i - 1] + t[i]
  IN  value[Len(t)]

\* What mychecksum writes, and what a server sends.
Sealed(s) == s \o BigEndian(Sum(s))

\* The last bytes of a file; those of a file that is too short are not set by
\* lseek() and read(), and may be any.
Last8(s) ==
  IF Len(s) >= Width THEN {SubSeq(s, Len(s) - Width + 1, Len(s))}
                     ELSE [1..Width -> Byte]

\* A mutant subtracts the last bytes as they are.
MatchesUnsigned(s, last8) ==
  (Sum(s) - FoldLeft(LAMBDA n, b : n + b, 0, last8)) % Modulus = FromBigEndian(last8)

\* The verdict, given the last bytes: they are taken out of the sum again.
Matches(s, last8) == (Sum(s) - Sum(last8)) % Modulus = FromBigEndian(last8)

Verdicts(s) == {Matches(s, last8) : last8 \in Last8(s)}
=============================================================================
