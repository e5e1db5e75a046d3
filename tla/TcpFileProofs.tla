---------------------------- MODULE TcpFileProofs -----------------------------
(***************************************************************************)
(* Proofs about TcpFile, for any file, any pieces in which it comes and    *)
(* any clients that write it at the same time: the types; that a file a    *)
(* client reports is the server's with its trailer; and that a client      *)
(* fails only when something has failed.  The first part is about what the *)
(* checksum computes: a file and its trailer always match, and no longer   *)
(* do when one byte of them changes.                                       *)
(*                                                                         *)
(* That a file is reported right needs only the order of the bytes (IInv): *)
(* the trailer is one sequence of Width values.  That no whole file is     *)
(* refused needs what those values are (SealedMatches).                    *)
(***************************************************************************)
EXTENDS TcpFile, SequenceTheorems, WellFoundedInduction, TLAPS

Trailer == BigEndian(Sum(content))

\* What comes down a connection to which nothing happens.
Whole == Sealed(content)

\* The values that bytes of the file and its trailer have.
Value == Byte \cup {-1} \cup {Trailer[i] : i \in 1 .. Width}

\* s stands in the whole transfer after the first n bytes.
StandsAt(s, n) ==
  /\ s \in Seq(Value)
  /\ n + Len(s) <= Len(Whole)
  /\ \A i \in 1 .. Len(s) : s[i] = Whole[n + i]

Types ==
  /\ content \in Contents /\ other \in Others
  /\ program \in [Clients -> {"C", "Java"}]
  /\ pc \in [Clients -> {"start", "connect", "check"} \cup Waiting \cup Ended]
  /\ got \in [Clients -> Nat]
  /\ worker \in [Clients -> {"none", "request", "send", "seal", "eof", "reset"}]
  /\ source \in [Clients -> Files] /\ off \in [Clients -> Nat]
  /\ fault \in [Clients -> {"none", "cut", "misled"}]
  /\ DOMAIN wire = Clients

\* Nothing has come down a connection.
Blank(c) == wire[c] = <<>> /\ got[c] = 0

\* What the worker of c has sent has been stored or is on its way, in order.
Stream(c) ==
  /\ IF content = NoFile THEN Blank(c) ELSE StandsAt(wire[c], got[c])
  /\ worker[c] \in {"none", "request"} => Blank(c) /\ off[c] = 0
  /\ worker[c] \in {"send", "seal"} =>
       /\ source[c] = content /\ content # NoFile
       /\ off[c] = got[c] + Len(wire[c])
       /\ off[c] <= Len(content)
       /\ worker[c] = "seal" => off[c] = Len(content)
  /\ worker[c] \in {"eof", "reset"} =>
       \/ fault[c] = "cut"
       \/ content # NoFile /\ got[c] + Len(wire[c]) = Len(Whole)
       \/ content = NoFile

\* What a client has done is in its place.
Stored(c) ==
  /\ got[c] <= Len(dir)
  /\ pc[c] \in {"start", "connect", "exists"} => worker[c] = "none"
  /\ pc[c] \in {"start", "connect", "exists", "first", "nofile"} => got[c] = 0
  /\ pc[c] \in {"rest", "check", "reported"} => got[c] > 0
  /\ pc[c] = "check" => wire[c] = <<>> /\ worker[c] \in {"eof", "reset"}

Reported(c) ==
  pc[c] = "reported" =>
    /\ content # NoFile
    /\ \/ got[c] = Len(Whole)
       \/ fault[c] = "cut" /\ \E n \in got[c] .. Len(dir) : LooksWhole(SubSeq(dir, 1, n))

Good ==
  /\ IF content = NoFile THEN dir = <<>> ELSE StandsAt(dir, 0)
  /\ \A c \in Clients : Stream(c) /\ Stored(c) /\ Reported(c)

IInv == Types /\ (Misled \/ emptied \/ Good)

-----------------------------------------------------------------------------
(* Induction and recursion. *)

\* Induction, as a fact about sets: what holds of 0 and goes from each number to
\* the next holds up to N, for the least exception would have a number before it.
LEMMA UpTo ==
  ASSUME NEW N \in Nat, NEW G, 0 \in G, \A i \in 1 .. N : i - 1 \in G => i \in G
  PROVE  \A i \in 0 .. N : i \in G
<1> DEFINE Bad == (0 .. N) \ G
<1>1. SUFFICES ASSUME Bad # {} PROVE FALSE
  OBVIOUS
<1>2. Bad \subseteq Nat
  OBVIOUS
<1>3. PICK x \in Bad : \A y \in Bad : ~(<<y, x>> \in OpToRel(<, Nat))
  <2> HIDE DEF Bad
  <2> QED
    BY <1>1, <1>2, NatLessThanWellFounded, WFMin
<1>4. x \in 1 .. N /\ x - 1 \in 0 .. N
  <2>1. x \in 0 .. N /\ x # 0
    BY <1>3
  <2> QED
    BY <2>1
<1>5. x - 1 \in Bad
  BY <1>3, <1>4
<1>6. <<x - 1, x>> \in OpToRel(<, Nat)
  BY <1>4 DEF OpToRel
<1> QED
  BY <1>3, <1>5, <1>6

\* f starts with a, and h says what follows each value.
Follows(f, S, N, a, h) ==
  f \in [0 .. N -> S] /\ f[0] = a /\ \A i \in 1 .. N : f[i] = h[<<f[i - 1], i>>]

LEMMA Recursion ==
  ASSUME NEW S, NEW N \in Nat, NEW a \in S, NEW h \in [S \X (1 .. N) -> S]
  PROVE  \E f : Follows(f, S, N, a, h)
<1> DEFINE Grown(m, f) == f[0] = a /\ \A i \in 1 .. m : f[i] = h[<<f[i - 1], i>>]
           G == {m \in 0 .. N : \E f \in [0 .. m -> S] : Grown(m, f)}
<1>1. 0 \in G
  <2>1. [i \in 0 .. 0 |-> a] \in [0 .. 0 -> S]
    OBVIOUS
  <2>2. Grown(0, [i \in 0 .. 0 |-> a])
    OBVIOUS
  <2>3. \E f \in [0 .. 0 -> S] : Grown(0, f)
    BY <2>1, <2>2
  <2> HIDE DEF Grown
  <2> QED
    BY <2>3
<1>2. ASSUME NEW m \in 1 .. N, m - 1 \in G PROVE m \in G
  <2>1. PICK f \in [0 .. (m - 1) -> S] : Grown(m - 1, f)
    BY <1>2
  <2> DEFINE g == [i \in 0 .. m |-> IF i = m THEN h[<<f[m - 1], m>>] ELSE f[i]]
  <2>2. h[<<f[m - 1], m>>] \in S
    <3>1. f[m - 1] \in S
      BY <2>1
    <3>2. <<f[m - 1], m>> \in S \X (1 .. N)
      BY <3>1
    <3> QED
      BY <3>2
  <2>3. g \in [0 .. m -> S]
    BY <2>1, <2>2
  <2>4. \A i \in 0 .. m - 1 : g[i] = f[i]
    OBVIOUS
  <2>5. g[m] = h[<<f[m - 1], m>>] /\ g[m - 1] = f[m - 1] /\ g[0] = f[0]
    OBVIOUS
  <2> HIDE DEF g
  <2>6. ASSUME NEW i \in 1 .. m PROVE g[i] = h[<<g[i - 1], i>>]
    <3>1. CASE i = m
      BY <2>5, <3>1
    <3>2. CASE i # m
      <4>1. i \in 1 .. m - 1 /\ i - 1 \in 0 .. m - 1 /\ i \in 0 .. m - 1
        BY <3>2
      <4> QED
        BY <2>1, <2>4, <4>1
    <3> QED
      BY <3>1, <3>2
  <2>7. Grown(m, g)
    BY <2>1, <2>5, <2>6
  <2> QED
    BY <2>3, <2>7
<1> HIDE DEF G
<1>3. N \in G
  BY <1>1, <1>2, UpTo
<1> QED
  BY <1>3 DEF G, Follows

-----------------------------------------------------------------------------
\* Division.

LEMMA Monotone ==
  ASSUME NEW d \in Nat, NEW a \in Int, NEW b \in Int, a <= b
  PROVE  d * a <= d * b
OBVIOUS

LEMMA Division ==
  ASSUME NEW n \in Int, NEW d \in Nat, d > 0
  PROVE  /\ n \div d \in Int /\ n % d \in 0 .. d - 1
         /\ n = d * (n \div d) + (n % d)
OBVIOUS

\* Quotient and remainder are the only ones.
LEMMA OnlyQuotient ==
  ASSUME NEW n \in Int, NEW d \in Nat, d > 0, NEW q \in Int, NEW r \in 0 .. d - 1,
         n = d * q + r
  PROVE  n \div d = q /\ n % d = r
<1> DEFINE u == n \div d
           v == n % d
<1>1. u \in Int /\ v \in 0 .. d - 1 /\ n = d * u + v
  BY Division
<1> HIDE DEF u, v
<1>2. CASE u < q
  <2>1. d * (u + 1) <= d * q
    BY <1>1, <1>2, Monotone
  <2>2. d * (u + 1) = d * u + d
    BY <1>1
  <2>3. d * u \in Int /\ d * q \in Int
    BY <1>1
  <2> QED
    BY <1>1, <2>1, <2>2, <2>3
<1>3. CASE u > q
  <2>1. d * (q + 1) <= d * u
    BY <1>1, <1>3, Monotone
  <2>2. d * (q + 1) = d * q + d
    BY <1>1
  <2>3. d * u \in Int /\ d * q \in Int
    BY <1>1
  <2> QED
    BY <1>1, <2>1, <2>2, <2>3
<1>4. CASE u = q
  <2>1. d * q \in Int
    OBVIOUS
  <2> QED
    BY <1>1, <1>4, <2>1 DEF u, v
<1> QED
  BY <1>1, <1>2, <1>3, <1>4

\* A quotient by a product.
LEMMA QuotientTwice ==
  ASSUME NEW n \in Nat, NEW b \in Nat, b > 0, NEW p \in Nat, p > 0
  PROVE  n \div (b * p) = (n \div p) \div b
<1> DEFINE q == n \div p
           r == n % p
           u == q \div b
           v == q % b
<1>1. q \in Int /\ r \in 0 .. p - 1 /\ n = p * q + r
  BY Division
<1> HIDE DEF q, r
<1>2. u \in Int /\ v \in 0 .. b - 1 /\ q = b * u + v
  BY <1>1, Division
<1> HIDE DEF u, v
<1>3. n = (b * p) * u + (p * v + r)
  <2>1. p * (b * u + v) = (b * p) * u + p * v
    BY <1>1, <1>2
  <2>2. (b * p) * u \in Int /\ p * v \in Int
    BY <1>1, <1>2
  <2> QED
    BY <1>1, <1>2, <2>1, <2>2
<1>4. p * v + r \in 0 .. (b * p) - 1
  <2>1. p * v <= p * (b - 1)
    BY <1>2, Monotone
  <2>2. p * (b - 1) = (b * p) - p
    OBVIOUS
  <2>3. p * v \in Int /\ p * v >= 0 /\ b * p \in Int
    BY <1>2
  <2> QED
    BY <1>1, <2>1, <2>2, <2>3
<1>5. b * p \in Nat /\ b * p > 0
  OBVIOUS
<1>6. n \div (b * p) = u
  BY <1>2, <1>3, <1>4, <1>5, OnlyQuotient
<1> QED
  BY <1>6 DEF u, q

-----------------------------------------------------------------------------
\* The checksum.

LEMMA BaseFacts == Base \in Nat /\ Base > 1 /\ Width \in Nat /\ Width > 0
BY ChecksumAssumption

LEMMA PowerFacts ==
  /\ Power \in [0 .. Width -> Nat \ {0}]
  /\ Power[0] = 1 /\ \A k \in 1 .. Width : Power[k] = Base * Power[k - 1]
<1> DEFINE S == Nat \ {0}
           h == [x \in S \X (1 .. Width) |-> Base * x[1]]
           Step(f) == [k \in 0 .. Width |-> IF k = 0 THEN 1 ELSE Base * f[k - 1]]
<1>1. h \in [S \X (1 .. Width) -> S]
  BY BaseFacts
<1>2. PICK f : Follows(f, S, Width, 1, h)
  <2>1. 1 \in S /\ Width \in Nat
    BY BaseFacts
  <2> HIDE DEF S, h
  <2> QED
    BY <1>1, <2>1, Recursion
<1>3. \A i \in 1 .. Width : f[i] = Base * f[i - 1]
  <2>1. ASSUME NEW i \in 1 .. Width PROVE f[i] = Base * f[i - 1]
    <3>1. i - 1 \in 0 .. Width
      BY BaseFacts
    <3>2. <<f[i - 1], i>> \in S \X (1 .. Width)
      BY <1>2, <3>1 DEF Follows
    <3>3. h[<<f[i - 1], i>>] = Base * f[i - 1]
      BY <3>2
    <3> QED
      BY <1>2, <3>3 DEF Follows
  <2> QED
    BY <2>1
<1>4. f = Step(f)
  <2>1. \A k \in 0 .. Width : f[k] = Step(f)[k]
    BY <1>2, <1>3, BaseFacts DEF Follows
  <2> QED
    BY <1>2, <2>1 DEF Follows
<1>5. Power = Step(Power)
  <2>1. Power = CHOOSE g : g = Step(g)
    BY DEF Power
  <2> QED
    BY <1>4, <2>1
<1>6. DOMAIN Power = 0 .. Width
  BY <1>5
<1>7. \A k \in 0 .. Width : Power[k] = Step(Power)[k]
  BY <1>5
<1> HIDE DEF h
<1>8. /\ Power[0] = 1 /\ \A k \in 1 .. Width : Power[k] = Base * Power[k - 1]
  BY <1>7, BaseFacts
<1>9. \A k \in 0 .. Width : k \in {j \in 0 .. Width : Power[j] \in S}
  <2> DEFINE G == {j \in 0 .. Width : Power[j] \in S}
  <2>1. 0 \in G
    BY <1>8, BaseFacts
  <2>2. ASSUME NEW k \in 1 .. Width, k - 1 \in G PROVE k \in G
    <3>1. Power[k] = Base * Power[k - 1] /\ Power[k - 1] \in S
      BY <1>8, <2>2
    <3>2. Power[k] \in S
      BY <3>1, BaseFacts
    <3> QED
      BY <3>2, BaseFacts
  <2> HIDE DEF G
  <2>3. \A k \in 0 .. Width : k \in G
    BY <2>1, <2>2, UpTo, BaseFacts
  <2> QED
    BY <2>3 DEF G
<1>10. Power = [k \in 0 .. Width |-> Power[k]]
  BY <1>5
<1> QED
  BY <1>8, <1>9, <1>10

LEMMA ModulusFacts == Modulus \in Nat \ {0}
BY PowerFacts, BaseFacts DEF Modulus

LEMMA SignedFacts == ASSUME NEW b \in Byte PROVE Signed(b) \in Int
BY BaseFacts DEF Signed, Byte

\* total is the running sum of s.
Runs(total, s) ==
  /\ total \in [0 .. Len(s) -> 0 .. Modulus - 1]
  /\ total[0] = 0
  /\ \A i \in 1 .. Len(s) : total[i] = (total[i - 1] + Signed(s[i])) % Modulus

LEMMA SumRuns ==
  ASSUME NEW s \in Seq(Byte)
  PROVE  \E total : Runs(total, s) /\ Sum(s) = total[Len(s)]
<1> DEFINE N == Len(s)
           S == 0 .. Modulus - 1
           h == [x \in S \X (1 .. N) |-> (x[1] + Signed(s[x[2]])) % Modulus]
           Step(f) == [i \in 0 .. N |->
                         IF i = 0 THEN 0 ELSE (f[i - 1] + Signed(s[i])) % Modulus]
<1>0. Modulus \in Nat /\ Modulus > 0 /\ N \in Nat /\ 0 \in S
      /\ \A i \in 1 .. N : Signed(s[i]) \in Int
  BY ModulusFacts, SignedFacts
<1> DEFINE total == CHOOSE g : g = Step(g)
<1>1. Sum(s) = total[N]
  BY DEF Sum
<1> HIDE DEF N
<1>2. h \in [S \X (1 .. N) -> S]
  <2>1. ASSUME NEW x \in S \X (1 .. N) PROVE (x[1] + Signed(s[x[2]])) % Modulus \in S
    BY <1>0, Division
  <2> QED
    BY <2>1
<1>3. PICK f : Follows(f, S, N, 0, h)
  <2> HIDE DEF S, h
  <2> QED
    BY <1>0, <1>2, Recursion
<1>4. ASSUME NEW i \in 1 .. N PROVE f[i] = (f[i - 1] + Signed(s[i])) % Modulus
  <2>1. i - 1 \in 0 .. N
    BY <1>0
  <2>2. <<f[i - 1], i>> \in S \X (1 .. N)
    BY <1>3, <2>1 DEF Follows
  <2>3. h[<<f[i - 1], i>>] = (f[i - 1] + Signed(s[i])) % Modulus
    BY <2>2
  <2> QED
    BY <1>3, <2>3 DEF Follows
<1>5. f = Step(f)
  <2>1. \A k \in 0 .. N : f[k] = Step(f)[k]
    BY <1>0, <1>3, <1>4 DEF Follows
  <2> QED
    BY <1>3, <2>1 DEF Follows
<1>6. total = Step(total)
  BY <1>5
<1> HIDE DEF h, total
<1>7. /\ total = [i \in 0 .. N |-> total[i]]
      /\ total[0] = 0
      /\ \A i \in 1 .. N : total[i] = (total[i - 1] + Signed(s[i])) % Modulus
  <2>1. \A k \in 0 .. N : total[k] = Step(total)[k]
    BY <1>6
  <2>2. total = [i \in 0 .. N |-> total[i]]
    BY <1>6
  <2>3. total[0] = 0
    BY <1>0, <2>1
  <2>4. ASSUME NEW i \in 1 .. N
        PROVE  total[i] = (total[i - 1] + Signed(s[i])) % Modulus
    <3>1. i \in 0 .. N /\ i # 0
      BY <1>0
    <3> QED
      BY <2>1, <3>1
  <2> QED
    BY <2>2, <2>3, <2>4
<1>8. \A k \in 0 .. N : k \in {j \in 0 .. N : total[j] \in S}
  <2> DEFINE G == {j \in 0 .. N : total[j] \in S}
  <2>1. 0 \in G
    BY <1>0, <1>7
  <2>2. ASSUME NEW k \in 1 .. N, k - 1 \in G PROVE k \in G
    <3>1. total[k - 1] \in Int /\ Signed(s[k]) \in Int
      BY <1>0, <2>2
    <3>2. (total[k - 1] + Signed(s[k])) % Modulus \in S
      BY <1>0, <3>1, Division
    <3>3. total[k] = (total[k - 1] + Signed(s[k])) % Modulus
      BY <1>7
    <3>4. total[k] \in S
      BY <3>2, <3>3
    <3> QED
      BY <1>0, <3>4
  <2> HIDE DEF G
  <2>3. \A k \in 0 .. N : k \in G
    BY <1>0, <2>1, <2>2, UpTo
  <2> QED
    BY <2>3 DEF G
<1>9. Runs(total, s)
  <2>1. total \in [0 .. N -> S]
    BY <1>7, <1>8
  <2> QED
    BY <1>7, <2>1 DEF Runs, N
<1> QED
  BY <1>1, <1>9 DEF N

\* A running sum is one of values of the unsigned integer.
LEMMA SumFacts == ASSUME NEW s \in Seq(Byte) PROVE Sum(s) \in 0 .. Modulus - 1
<1>1. PICK total : Runs(total, s) /\ Sum(s) = total[Len(s)]
  BY SumRuns
<1>2. Len(s) \in 0 .. Len(s)
  OBVIOUS
<1> QED
  BY <1>1, <1>2 DEF Runs

\* What two numbers leave when they are added before or after they are cut.
LEMMA CutTwice ==
  ASSUME NEW m \in Nat \ {0}, NEW x \in Int, NEW y \in Int
  PROVE  /\ ((x % m) + y) % m = (x + y) % m
         /\ (x + (y % m)) % m = (x + y) % m
<1>1. ASSUME NEW a \in Int, NEW b \in Int PROVE ((a % m) + b) % m = (a + b) % m
  <2> DEFINE q == a \div m
             r == a % m
             u == (r + b) \div m
             v == (r + b) % m
  <2>1. q \in Int /\ r \in 0 .. m - 1 /\ a = m * q + r
    BY Division
  <2> HIDE DEF q, r
  <2>2. u \in Int /\ v \in 0 .. m - 1 /\ r + b = m * u + v
    BY <2>1, Division
  <2> HIDE DEF u, v
  <2>3. a + b = m * (q + u) + v
    <3>1. m * (q + u) = m * q + m * u
      BY <2>1, <2>2
    <3>2. m * q \in Int /\ m * u \in Int
      BY <2>1, <2>2
    <3> QED
      BY <2>1, <2>2, <3>1, <3>2
  <2>4. (a + b) % m = v
    <3>1. ASSUME NEW z \in Int, NEW k \in Int, z = m * k + v PROVE z % m = v
      BY <2>2, <3>1, OnlyQuotient
    <3>2. a + b \in Int /\ q + u \in Int
      BY <2>1, <2>2
    <3> QED
      BY <2>3, <3>1, <3>2
  <2> QED
    BY <2>4 DEF v, r
<1>2. ((x % m) + y) % m = (x + y) % m
  BY <1>1
<1>3. ((y % m) + x) % m = (y + x) % m
  BY <1>1
<1>4. x + (y % m) = (y % m) + x /\ x + y = y + x
  BY Division
<1> QED
  BY <1>2, <1>3, <1>4

LEMMA Small ==
  ASSUME NEW m \in Nat \ {0}, NEW x \in 0 .. m - 1 PROVE x % m = x
<1>1. x = m * 0 + x
  OBVIOUS
<1> QED
  BY <1>1, OnlyQuotient

\* The sum of two files one after the other.
LEMMA SumOfTwo ==
  ASSUME NEW s \in Seq(Byte), NEW t \in Seq(Byte)
  PROVE  Sum(s \o t) = (Sum(s) + Sum(t)) % Modulus
<1> DEFINE N == Len(s)
           L == Len(t)
           w == s \o t
<1>1. /\ w \in Seq(Byte) /\ Len(w) = N + L /\ N \in Nat /\ L \in Nat
      /\ \A i \in 1 .. N : w[i] = s[i]
      /\ \A i \in 1 .. L : w[N + i] = t[i]
  OBVIOUS
<1>2. PICK a : Runs(a, s) /\ Sum(s) = a[N]
  BY SumRuns
<1>3. PICK b : Runs(b, t) /\ Sum(t) = b[L]
  BY SumRuns
<1>4. PICK c : Runs(c, w) /\ Sum(w) = c[Len(w)]
  BY <1>1, SumRuns
<1>5. Modulus \in Nat \ {0}
  BY ModulusFacts
<1>6. /\ \A i \in 0 .. N : a[i] \in 0 .. Modulus - 1
      /\ a[0] = 0
      /\ \A i \in 1 .. N : a[i] = (a[i - 1] + Signed(s[i])) % Modulus
  BY <1>2 DEF Runs
<1>7. /\ \A i \in 0 .. L : b[i] \in 0 .. Modulus - 1
      /\ b[0] = 0
      /\ \A i \in 1 .. L : b[i] = (b[i - 1] + Signed(t[i])) % Modulus
  BY <1>3 DEF Runs
<1>8. /\ c[0] = 0
      /\ \A i \in 1 .. N + L : c[i] = (c[i - 1] + Signed(w[i])) % Modulus
  BY <1>1, <1>4 DEF Runs
<1> HIDE DEF N, L, w
<1>9. \A i \in 0 .. N : c[i] = a[i]
  <2> DEFINE G == {i \in 0 .. N : c[i] = a[i]}
  <2>1. 0 \in G
    BY <1>1, <1>6, <1>8
  <2>2. ASSUME NEW i \in 1 .. N, i - 1 \in G PROVE i \in G
    <3>1. i \in 1 .. N + L /\ w[i] = s[i] /\ c[i - 1] = a[i - 1]
      BY <1>1, <2>2
    <3>2. c[i] = (a[i - 1] + Signed(s[i])) % Modulus
      BY <1>8, <3>1
    <3>3. c[i] = a[i]
      BY <1>6, <3>2
    <3> QED
      BY <3>3
  <2> HIDE DEF G
  <2>3. \A i \in 0 .. N : i \in G
    BY <1>1, <2>1, <2>2, UpTo
  <2> QED
    BY <2>3 DEF G
<1>10. \A j \in 0 .. L : c[N + j] = (a[N] + b[j]) % Modulus
  <2> DEFINE G == {j \in 0 .. L : c[N + j] = (a[N] + b[j]) % Modulus}
  <2>1. 0 \in G
    <3>1. a[N] \in 0 .. Modulus - 1 /\ c[N] = a[N] /\ b[0] = 0 /\ N + 0 = N
      BY <1>1, <1>6, <1>7, <1>9
    <3>2. a[N] + 0 = a[N]
      BY <3>1
    <3>3. a[N] % Modulus = a[N]
      BY <1>5, <3>1, Small
    <3> QED
      BY <1>1, <3>1, <3>2, <3>3
  <2>2. ASSUME NEW j \in 1 .. L, j - 1 \in G PROVE j \in G
    <3> DEFINE x == Signed(t[j])
    <3>1. a[N] \in Int /\ b[j - 1] \in Int /\ x \in Int
      <4>1. N \in 0 .. N /\ j - 1 \in 0 .. L /\ t[j] \in Byte
        BY <1>1 DEF L
      <4> QED
        BY <1>6, <1>7, <4>1, SignedFacts
    <3>2. c[N + j] = (c[N + (j - 1)] + x) % Modulus
      <4>1. N + j \in 1 .. N + L /\ (N + j) - 1 = N + (j - 1) /\ w[N + j] = t[j]
        BY <1>1
      <4> QED
        BY <1>8, <4>1
    <3>3. c[N + (j - 1)] = (a[N] + b[j - 1]) % Modulus
      BY <2>2
    <3>4. b[j] = (b[j - 1] + x) % Modulus
      BY <1>7
    <3> HIDE DEF x
    <3>5. (((a[N] + b[j - 1]) % Modulus) + x) % Modulus = ((a[N] + b[j - 1]) + x) % Modulus
      <4>1. ASSUME NEW e \in Int PROVE ((e % Modulus) + x) % Modulus = (e + x) % Modulus
        BY <1>5, <3>1, CutTwice
      <4>2. a[N] + b[j - 1] \in Int
        BY <3>1
      <4> QED
        BY <4>1, <4>2
    <3>6. (a[N] + ((b[j - 1] + x) % Modulus)) % Modulus = (a[N] + (b[j - 1] + x)) % Modulus
      <4>1. ASSUME NEW e \in Int PROVE (a[N] + (e % Modulus)) % Modulus = (a[N] + e) % Modulus
        BY <1>5, <3>1, CutTwice
      <4>2. b[j - 1] + x \in Int
        BY <3>1
      <4> QED
        BY <4>1, <4>2
    <3>7. (a[N] + b[j - 1]) + x = a[N] + (b[j - 1] + x)
      BY <3>1
    <3>8. c[N + j] = (a[N] + b[j]) % Modulus
      BY <3>2, <3>3, <3>4, <3>5, <3>6, <3>7
    <3> QED
      BY <3>8
  <2> HIDE DEF G
  <2>3. \A j \in 0 .. L : j \in G
    BY <1>1, <2>1, <2>2, UpTo
  <2> QED
    BY <2>3 DEF G
<1>11. L \in 0 .. L
  BY <1>1
<1>12. c[N + L] = (a[N] + b[L]) % Modulus
  BY <1>10, <1>11
<1> QED
  BY <1>1, <1>2, <1>3, <1>4, <1>12 DEF w

LEMMA TrailerFacts ==
  ASSUME NEW n \in 0 .. Modulus - 1
  PROVE  BigEndian(n) \in Seq(Byte) /\ Len(BigEndian(n)) = Width
<1>1. \A i \in 1 .. Width : (n \div Power[Width - i]) % Base \in Byte
  <2>1. ASSUME NEW i \in 1 .. Width PROVE (n \div Power[Width - i]) % Base \in Byte
    <3>1. Power[Width - i] \in Nat /\ Power[Width - i] > 0
      BY BaseFacts, PowerFacts
    <3>2. n \div Power[Width - i] \in Int
      BY <3>1, ModulusFacts, Division
    <3> QED
      BY <3>2, BaseFacts, Division DEF Byte
  <2> QED
    BY <2>1
<1>2. BigEndian(n) \in [1 .. Width -> Byte]
  BY <1>1 DEF BigEndian
<1> QED
  BY <1>2, BaseFacts

\* be64toh undoes htobe64.
LEMMA EndianFacts ==
  ASSUME NEW n \in 0 .. Modulus - 1 PROVE FromBigEndian(BigEndian(n)) = n
<1> DEFINE t == BigEndian(n)
           Step(f) == [i \in 0 .. Len(t) |-> IF i = 0 THEN 0 ELSE Base * f[i - 1] + t[i]]
           value == CHOOSE g : g = Step(g)
           Upper(i) == n \div Power[Width - i]
           cuts == [i \in 0 .. Width |-> Upper(i)]
<1>0. n \in Nat /\ Base \in Nat /\ Base > 1 /\ Width \in Nat /\ Width > 0
  BY BaseFacts, ModulusFacts
<1>1. FromBigEndian(t) = value[Len(t)]
  BY DEF FromBigEndian
<1>2. Len(t) = Width /\ t \in Seq(Byte)
  BY TrailerFacts
<1>3. \A i \in 1 .. Width : t[i] = Upper(i) % Base
  BY DEF BigEndian
<1>4. ASSUME NEW i \in 1 .. Width PROVE Upper(i) = Base * Upper(i - 1) + t[i]
  <2> DEFINE p == Power[Width - i]
  <2>1. p \in Nat /\ p > 0 /\ Power[Width - (i - 1)] = Base * p
    <3>1. Width - i \in 0 .. Width /\ Width - (i - 1) \in 1 .. Width
          /\ (Width - (i - 1)) - 1 = Width - i
      BY <1>0
    <3> QED
      BY <3>1, PowerFacts
  <2>2. Upper(i - 1) = n \div (Base * p)
    BY <2>1
  <2> HIDE DEF p
  <2>3. n \div (Base * p) = (n \div p) \div Base
    <3>1. ASSUME NEW b \in Nat, b > 0 PROVE n \div (b * p) = (n \div p) \div b
      BY <1>0, <2>1, <3>1, QuotientTwice
    <3>2. Base > 0
      BY <1>0
    <3> QED
      BY <1>0, <3>1, <3>2
  <2>4. n \div p \in Int
    BY <1>0, <2>1, Division
  <2>5. n \div p = Base * ((n \div p) \div Base) + ((n \div p) % Base)
    BY <1>0, <2>4, Division
  <2>6. Upper(i) = n \div p
    BY DEF p
  <2> HIDE DEF Upper, t
  <2> QED
    BY <1>3, <2>2, <2>3, <2>5, <2>6
<1>5. Upper(0) = 0
  <2>1. Modulus \in Nat /\ Modulus > 0 /\ n = Modulus * 0 + n
    BY <1>0, ModulusFacts
  <2>2. n \div Modulus = 0
    BY <2>1, <1>0, OnlyQuotient
  <2>3. Width - 0 = Width
    BY <1>0
  <2> QED
    BY <2>2, <2>3 DEF Modulus
<1>6. Upper(Width) = n
  <2>1. Width - Width = 0 /\ Power[0] = 1
    BY <1>0, PowerFacts
  <2>2. n = 1 * n + 0
    BY <1>0
  <2>3. n \div 1 = n
    BY <1>0
  <2> QED
    BY <2>1, <2>3
<1> HIDE DEF t, Upper
<1>7. cuts = Step(cuts)
  <2>1. \A i \in 0 .. Width : cuts[i] = Step(cuts)[i]
    BY <1>0, <1>2, <1>4, <1>5
  <2> QED
    BY <1>2, <2>1
<1>8. value = Step(value)
  <2> HIDE DEF cuts
  <2> QED
    BY <1>7
<1> HIDE DEF value
<1>9. \A i \in 0 .. Width : i \in {j \in 0 .. Width : value[j] = Upper(j)}
  <2> DEFINE G == {j \in 0 .. Width : value[j] = Upper(j)}
  <2>1. \A i \in 0 .. Width : value[i] = IF i = 0 THEN 0 ELSE Base * value[i - 1] + t[i]
    BY <1>2, <1>8
  <2>2. 0 \in G
    BY <1>0, <1>5, <2>1
  <2>3. ASSUME NEW i \in 1 .. Width, i - 1 \in G PROVE i \in G
    <3>1. value[i] = Base * value[i - 1] + t[i]
      BY <1>0, <2>1
    <3>2. value[i - 1] = Upper(i - 1)
      BY <2>3
    <3>3. value[i] = Upper(i)
      BY <1>4, <3>1, <3>2
    <3> QED
      BY <3>3
  <2> HIDE DEF G
  <2>4. \A i \in 0 .. Width : i \in G
    BY <1>0, <2>2, <2>3, UpTo
  <2> QED
    BY <2>4 DEF G
<1> QED
  BY <1>0, <1>1, <1>2, <1>6, <1>9 DEF t

\* The verdict on a file that ends in the bytes t.
LEMMA TrailerVerdict ==
  ASSUME NEW s \in Seq(Byte), NEW t \in Seq(Byte), Len(t) = Width
  PROVE  Verdicts(s \o t) = {Sum(s) = FromBigEndian(t)}
<1> DEFINE w == s \o t
<1>1. Last8(w) = {t}
  <2>1. Len(w) = Len(s) + Width /\ Len(s) \in Nat /\ Width \in Nat
    BY BaseFacts
  <2>2. SubSeq(w, Len(w) - Width + 1, Len(w)) = t
    <3>1. Len(w) - Width + 1 = Len(s) + 1
      BY <2>1
    <3>2. SubSeq(w, Len(s) + 1, Len(s) + Len(t)) = t
      OBVIOUS
    <3> QED
      BY <2>1, <3>1, <3>2
  <2>3. Len(w) >= Width
    BY <2>1
  <2> HIDE DEF w
  <2> QED
    BY <2>2, <2>3 DEF Last8
<1>2. (Sum(w) - Sum(t)) % Modulus = Sum(s)
  <2> DEFINE n == Sum(s)
             y == Sum(t)
  <2>1. y \in Int /\ n \in 0 .. Modulus - 1 /\ Modulus \in Nat \ {0}
    BY SumFacts, ModulusFacts
  <2>2. Sum(w) = (n + y) % Modulus
    BY SumOfTwo
  <2> HIDE DEF y, n
  <2>3. (((n + y) % Modulus) + (-y)) % Modulus = ((n + y) + (-y)) % Modulus
    <3>1. ASSUME NEW x \in Int, NEW z \in Int
          PROVE  ((x % Modulus) + z) % Modulus = (x + z) % Modulus
      BY <2>1, CutTwice
    <3>2. n + y \in Int /\ -y \in Int
      BY <2>1
    <3> QED
      BY <3>1, <3>2
  <2>4. (n + y) + (-y) = n /\ ((n + y) % Modulus) + (-y) = ((n + y) % Modulus) - y
    BY <2>1, Division
  <2>5. n % Modulus = n
    BY <2>1, Small
  <2> QED
    BY <2>2, <2>3, <2>4, <2>5 DEF y, n
<1>3. Matches(w, t) = (Sum(s) = FromBigEndian(t))
  BY <1>2 DEF Matches
<1> HIDE DEF w
<1>4. Verdicts(w) = {Sum(s) = FromBigEndian(t)}
  BY <1>1, <1>3 DEF Verdicts
<1> QED
  BY <1>4 DEF w

\* What mychecksum and a server seal has the right checksum, whatever the bytes:
\* the trailer is taken out of the sum again, and is what the file adds up to
\* (mychecksum.c:29-50, myunchecksum.c:29-59, fileclient.c:153-203).
THEOREM SealedMatches == \A s \in Seq(Byte) : Verdicts(Sealed(s)) = {TRUE}
<1> SUFFICES ASSUME NEW s \in Seq(Byte) PROVE Verdicts(Sealed(s)) = {TRUE}
  OBVIOUS
<1>1. Sum(s) \in 0 .. Modulus - 1
  BY SumFacts
<1>2. BigEndian(Sum(s)) \in Seq(Byte) /\ Len(BigEndian(Sum(s))) = Width
  BY <1>1, TrailerFacts
<1>3. FromBigEndian(BigEndian(Sum(s))) = Sum(s)
  BY <1>1, EndianFacts
<1> QED
  BY <1>2, <1>3, TrailerVerdict DEF Sealed

-----------------------------------------------------------------------------
\* What the checksum notices.

\* Numbers less than a modulus apart leave different remainders.
LEMMA CutDiffers ==
  ASSUME NEW m \in Nat \ {0}, NEW u \in Int, NEW v \in Int, u # v, u - v < m, v - u < m
  PROVE  u % m # v % m
<1> DEFINE q == u \div m
           p == v \div m
           r == u % m
<1>1. q \in Int /\ r \in 0 .. m - 1 /\ u = m * q + r
  BY Division
<1>2. SUFFICES ASSUME v % m = r PROVE FALSE
  OBVIOUS
<1>3. p \in Int /\ v = m * p + r
  BY <1>2, Division
<1> HIDE DEF q, p, r
<1>4. CASE q > p
  <2>1. m * (p + 1) <= m * q
    BY <1>1, <1>3, <1>4, Monotone
  <2>2. m * (p + 1) = m * p + m /\ m * p \in Int /\ m * q \in Int
    BY <1>1, <1>3
  <2> QED
    BY <1>1, <1>3, <2>1, <2>2
<1>5. CASE p > q
  <2>1. m * (q + 1) <= m * p
    BY <1>1, <1>3, <1>5, Monotone
  <2>2. m * (q + 1) = m * q + m /\ m * p \in Int /\ m * q \in Int
    BY <1>1, <1>3
  <2> QED
    BY <1>1, <1>3, <2>1, <2>2
<1>6. CASE p = q
  BY <1>1, <1>3, <1>6
<1> QED
  BY <1>1, <1>3, <1>4, <1>5, <1>6

\* Two bytes are different chars, and less than the integer's values apart.
LEMMA SignedDiffer ==
  ASSUME NEW a \in Byte, NEW b \in Byte, a # b
  PROVE  /\ Signed(a) \in Int /\ Signed(b) \in Int /\ Signed(a) # Signed(b)
         /\ Signed(a) - Signed(b) < Modulus
<1>1. Base \in Nat /\ Base > 1 /\ Base \div 2 \in Int /\ a \in Int /\ b \in Int
      /\ 0 <= a /\ a < Base /\ 0 <= b /\ b < Base
  BY BaseFacts, Division DEF Byte
<1>2. Base <= Modulus
  <2>1. /\ Power[Width - 1] \in Nat \ {0}
        /\ Modulus = Base * Power[Width - 1]
    BY PowerFacts, BaseFacts DEF Modulus
  <2>2. Base * 1 <= Base * Power[Width - 1]
    BY <1>1, <2>1, Monotone
  <2> QED
    BY <1>1, <2>1, <2>2
<1>3. PICK h : h = Base \div 2
  OBVIOUS
<1>4. /\ Signed(a) = IF a >= h THEN a - Base ELSE a
      /\ Signed(b) = IF b >= h THEN b - Base ELSE b
      /\ h \in Int
  BY <1>1, <1>3 DEF Signed
<1>5. Signed(a) \in Int /\ Signed(b) \in Int /\ Signed(a) # Signed(b)
  BY <1>1, <1>4
<1>6. Signed(a) - Signed(b) < Base
  BY <1>1, <1>4
<1>7. Modulus \in Int
  BY ModulusFacts
<1> QED
  BY <1>1, <1>2, <1>5, <1>6, <1>7

\* r is s with another byte at k.
OneChanged(s, r, k) ==
  /\ Len(r) = Len(s) /\ k \in 1 .. Len(s) /\ r[k] # s[k]
  /\ \A i \in 1 .. Len(s) : i # k => r[i] = s[i]

\* The running sums part at the byte that is changed, and stay apart.
LEMMA SumDiffers ==
  ASSUME NEW s \in Seq(Byte), NEW r \in Seq(Byte), NEW k, OneChanged(s, r, k)
  PROVE  Sum(r) # Sum(s)
<1> DEFINE N == Len(s)
<1>1. PICK a : Runs(a, s) /\ Sum(s) = a[N]
  BY SumRuns
<1>2. PICK b : Runs(b, r) /\ Sum(r) = b[N]
  BY SumRuns DEF OneChanged
<1>3. N \in Nat /\ k \in 1 .. N /\ Len(r) = N /\ Modulus \in Nat \ {0}
  BY ModulusFacts DEF OneChanged
<1>4. /\ \A i \in 0 .. N : a[i] \in 0 .. Modulus - 1 /\ b[i] \in 0 .. Modulus - 1
      /\ a[0] = b[0]
      /\ \A i \in 1 .. N : a[i] = (a[i - 1] + Signed(s[i])) % Modulus
      /\ \A i \in 1 .. N : b[i] = (b[i - 1] + Signed(r[i])) % Modulus
  BY <1>1, <1>2, <1>3 DEF Runs
<1>5. \A i \in 1 .. N : s[i] \in Byte /\ r[i] \in Byte
  BY <1>3
<1> DEFINE Apart(i) == IF i < k THEN a[i] = b[i] ELSE a[i] # b[i]
           G == {i \in 0 .. N : Apart(i)}
<1> HIDE DEF N
<1>6. 0 \in G
  BY <1>3, <1>4
<1>7. ASSUME NEW i \in 1 .. N, i - 1 \in G PROVE i \in G
  <2>0. i \in 0 .. N /\ i - 1 \in 0 .. N /\ Apart(i - 1)
    BY <1>3, <1>7
  <2>a. PICK x, y : x = a[i - 1] /\ y = b[i - 1]
    OBVIOUS
  <2>1. /\ x \in 0 .. Modulus - 1 /\ y \in 0 .. Modulus - 1
        /\ s[i] \in Byte /\ r[i] \in Byte
        /\ Signed(s[i]) \in Int /\ Signed(r[i]) \in Int
        /\ a[i] = (x + Signed(s[i])) % Modulus
        /\ b[i] = (y + Signed(r[i])) % Modulus
    BY <1>4, <1>5, <2>0, <2>a, SignedFacts
  <2>2. CASE i < k
    <3>1. i - 1 < k /\ i # k /\ i \in 1 .. Len(s)
      BY <1>3, <2>2 DEF N
    <3>2. x = y /\ r[i] = s[i]
      BY <2>0, <2>a, <3>1 DEF OneChanged
    <3> QED
      BY <2>0, <2>1, <2>2, <3>2
  <2>3. CASE i = k
    <3>1. i - 1 < k
      BY <1>3, <2>3
    <3>2. x = y /\ r[i] # s[i]
      BY <2>0, <2>3, <2>a, <3>1 DEF OneChanged
    <3>3. PICK u, v : u = x + Signed(s[i]) /\ v = x + Signed(r[i])
      OBVIOUS
    <3>4. /\ Signed(s[i]) # Signed(r[i])
          /\ Signed(s[i]) - Signed(r[i]) < Modulus /\ Signed(r[i]) - Signed(s[i]) < Modulus
      BY <2>1, <3>2, SignedDiffer
    <3>5. u \in Int /\ v \in Int /\ u # v /\ u - v < Modulus /\ v - u < Modulus
      <4>1. PICK p, q : p = Signed(s[i]) /\ q = Signed(r[i])
        OBVIOUS
      <4>2. /\ p \in Int /\ q \in Int /\ p # q /\ p - q < Modulus /\ q - p < Modulus
            /\ x \in Int /\ Modulus \in Int /\ u = x + p /\ v = x + q
        BY <1>3, <2>1, <3>3, <3>4, <4>1
      <4> QED
        BY <4>2
    <3>6. u % Modulus # v % Modulus
      BY <1>3, <3>5, CutDiffers
    <3>7. a[i] # b[i] /\ ~(i < k)
      BY <1>3, <2>1, <2>3, <3>2, <3>3, <3>6
    <3> QED
      BY <2>0, <3>7
  <2>4. CASE i > k
    <3>1. ~(i - 1 < k) /\ i # k /\ i \in 1 .. Len(s)
      BY <1>3, <2>4 DEF N
    <3>2. x # y /\ r[i] = s[i]
      BY <2>0, <2>a, <3>1 DEF OneChanged
    <3>3. PICK u, v : u = x + Signed(s[i]) /\ v = y + Signed(s[i])
      OBVIOUS
    <3>4. u \in Int /\ v \in Int /\ u # v /\ u - v < Modulus /\ v - u < Modulus
      <4>1. PICK p : p = Signed(s[i])
        OBVIOUS
      <4>2. /\ p \in Int /\ u = x + p /\ v = y + p /\ x # y /\ Modulus \in Int
            /\ x \in 0 .. Modulus - 1 /\ y \in 0 .. Modulus - 1
        BY <1>3, <2>1, <3>2, <3>3, <4>1
      <4> QED
        BY <4>2
    <3>5. u % Modulus # v % Modulus
      BY <1>3, <3>4, CutDiffers
    <3>6. a[i] # b[i] /\ ~(i < k)
      BY <1>3, <2>1, <2>4, <3>2, <3>3, <3>5
    <3> QED
      BY <2>0, <3>6
  <2> QED
    BY <1>3, <2>2, <2>3, <2>4
<1> HIDE DEF G
<1>8. \A i \in 0 .. N : i \in G
  BY <1>3, <1>6, <1>7, UpTo
<1>9. N \in 0 .. N /\ ~(N < k)
  BY <1>3
<1>10. a[N] # b[N]
  BY <1>8, <1>9 DEF G
<1> QED
  BY <1>1, <1>2, <1>10

\* value is the number that the bytes of t make.
Counts(value, t) ==
  /\ value \in [0 .. Len(t) -> Nat]
  /\ value[0] = 0
  /\ \A i \in 1 .. Len(t) : value[i] = Base * value[i - 1] + t[i]

LEMMA EndianRuns ==
  ASSUME NEW t \in Seq(Byte)
  PROVE  \E value : Counts(value, t) /\ FromBigEndian(t) = value[Len(t)]
<1> DEFINE N == Len(t)
           h == [x \in Nat \X (1 .. N) |-> Base * x[1] + t[x[2]]]
           Step(f) == [i \in 0 .. N |-> IF i = 0 THEN 0 ELSE Base * f[i - 1] + t[i]]
<1>0. Base \in Nat /\ N \in Nat /\ \A i \in 1 .. N : t[i] \in Nat
  BY BaseFacts DEF Byte
<1> DEFINE value == CHOOSE g : g = Step(g)
<1>1. FromBigEndian(t) = value[N]
  BY DEF FromBigEndian
<1> HIDE DEF N
<1>2. h \in [Nat \X (1 .. N) -> Nat]
  <2>1. ASSUME NEW x \in Nat \X (1 .. N) PROVE Base * x[1] + t[x[2]] \in Nat
    <3>1. PICK y, z : y = x[1] /\ z = t[x[2]]
      OBVIOUS
    <3>2. y \in Nat /\ z \in Nat
      BY <1>0, <3>1
    <3>3. Base * y + z \in Nat
      BY <1>0, <3>2
    <3> QED
      BY <3>1, <3>3
  <2> QED
    BY <2>1
<1>3. PICK f : Follows(f, Nat, N, 0, h)
  <2> HIDE DEF h
  <2> QED
    BY <1>0, <1>2, Recursion
<1>4. ASSUME NEW i \in 1 .. N PROVE f[i] = Base * f[i - 1] + t[i] /\ f[i] \in Nat
  <2>1. i - 1 \in 0 .. N /\ i \in 0 .. N
    BY <1>0
  <2>2. <<f[i - 1], i>> \in Nat \X (1 .. N)
    BY <1>3, <2>1 DEF Follows
  <2>3. h[<<f[i - 1], i>>] = Base * f[i - 1] + t[i]
    BY <2>2
  <2> QED
    BY <1>3, <2>1, <2>3 DEF Follows
<1>5. f = Step(f)
  <2>1. \A k \in 0 .. N : f[k] = Step(f)[k]
    BY <1>0, <1>3, <1>4 DEF Follows
  <2> QED
    BY <1>3, <2>1 DEF Follows
<1>6. value = Step(value)
  BY <1>5
<1> HIDE DEF h, value
<1>7. /\ value = [i \in 0 .. N |-> value[i]]
      /\ value[0] = 0
      /\ \A i \in 1 .. N : value[i] = Base * value[i - 1] + t[i]
  <2>1. \A k \in 0 .. N : value[k] = Step(value)[k]
    BY <1>6
  <2>2. value = [i \in 0 .. N |-> value[i]]
    BY <1>6
  <2>3. value[0] = 0
    BY <1>0, <2>1
  <2>4. ASSUME NEW i \in 1 .. N PROVE value[i] = Base * value[i - 1] + t[i]
    <3>1. i \in 0 .. N /\ i # 0
      BY <1>0
    <3> QED
      BY <2>1, <3>1
  <2> QED
    BY <2>2, <2>3, <2>4
<1>8. \A k \in 0 .. N : k \in {j \in 0 .. N : value[j] \in Nat}
  <2> DEFINE G == {j \in 0 .. N : value[j] \in Nat}
  <2>1. 0 \in G
    BY <1>0, <1>7
  <2>2. ASSUME NEW k \in 1 .. N, k - 1 \in G PROVE k \in G
    <3>1. PICK y, z : y = value[k - 1] /\ z = t[k]
      OBVIOUS
    <3>2. y \in Nat /\ z \in Nat /\ value[k] = Base * y + z
      BY <1>0, <1>7, <2>2, <3>1
    <3>3. value[k] \in Nat
      BY <1>0, <3>2
    <3> QED
      BY <1>0, <3>3
  <2> HIDE DEF G
  <2>3. \A k \in 0 .. N : k \in G
    BY <1>0, <2>1, <2>2, UpTo
  <2> QED
    BY <2>3 DEF G
<1>9. Counts(value, t)
  <2>1. value \in [0 .. N -> Nat]
    BY <1>7, <1>8
  <2> QED
    BY <1>7, <2>1 DEF Counts, N
<1> QED
  BY <1>1, <1>9 DEF N

\* So do the numbers that two trailers make.
LEMMA TrailerDiffers ==
  ASSUME NEW s \in Seq(Byte), NEW r \in Seq(Byte), NEW k, OneChanged(s, r, k)
  PROVE  FromBigEndian(r) # FromBigEndian(s)
<1> DEFINE N == Len(s)
<1>1. PICK a : Counts(a, s) /\ FromBigEndian(s) = a[N]
  BY EndianRuns
<1>2. PICK b : Counts(b, r) /\ FromBigEndian(r) = b[N]
  BY EndianRuns DEF OneChanged
<1>3. N \in Nat /\ k \in 1 .. N /\ Len(r) = N /\ Base \in Nat /\ Base > 1
  BY BaseFacts DEF OneChanged
<1>4. /\ \A i \in 0 .. N : a[i] \in Nat /\ b[i] \in Nat
      /\ a[0] = b[0]
      /\ \A i \in 1 .. N : a[i] = Base * a[i - 1] + s[i]
      /\ \A i \in 1 .. N : b[i] = Base * b[i - 1] + r[i]
  BY <1>1, <1>2, <1>3 DEF Counts
<1>5. \A i \in 1 .. N : s[i] \in Nat /\ r[i] \in Nat
  BY <1>3 DEF Byte
<1> DEFINE Apart(i) == IF i < k THEN a[i] = b[i] ELSE a[i] # b[i]
           G == {i \in 0 .. N : Apart(i)}
<1> HIDE DEF N
<1>6. 0 \in G
  BY <1>3, <1>4
<1>7. ASSUME NEW i \in 1 .. N, i - 1 \in G PROVE i \in G
  <2>0. i \in 0 .. N /\ i - 1 \in 0 .. N /\ Apart(i - 1)
    BY <1>3, <1>7
  <2>a. PICK x, y : x = a[i - 1] /\ y = b[i - 1]
    OBVIOUS
  <2>b. PICK u, v : u = s[i] /\ v = r[i]
    OBVIOUS
  <2>1. /\ x \in Nat /\ y \in Nat /\ u \in Nat /\ v \in Nat
        /\ a[i] = Base * x + u /\ b[i] = Base * y + v
    BY <1>4, <1>5, <2>0, <2>a, <2>b
  <2>2. CASE i < k
    <3>1. i - 1 < k /\ i # k /\ i \in 1 .. Len(s)
      BY <1>3, <2>2 DEF N
    <3>2. x = y /\ u = v
      BY <2>0, <2>a, <2>b, <3>1 DEF OneChanged
    <3> QED
      BY <2>0, <2>1, <2>2, <3>2
  <2>3. CASE i = k
    <3>1. i - 1 < k
      BY <1>3, <2>3
    <3>2. x = y /\ u # v
      BY <2>0, <2>3, <2>a, <2>b, <3>1 DEF OneChanged
    <3>3. Base * x \in Int
      BY <1>3, <2>1
    <3>4. a[i] # b[i] /\ ~(i < k)
      BY <1>3, <2>1, <2>3, <3>2, <3>3
    <3> QED
      BY <2>0, <3>4
  <2>4. CASE i > k
    <3>1. ~(i - 1 < k) /\ i # k /\ i \in 1 .. Len(s)
      BY <1>3, <2>4 DEF N
    <3>2. x # y /\ u = v
      BY <2>0, <2>a, <2>b, <3>1 DEF OneChanged
    <3>3. ASSUME NEW p \in Nat, NEW q \in Nat, p < q PROVE Base * p < Base * q
      <4>1. Base * (p + 1) <= Base * q
        BY <1>3, <3>3, Monotone
      <4>2. Base * (p + 1) = Base * p + Base /\ Base * p \in Int /\ Base * q \in Int
        BY <1>3
      <4> QED
        BY <1>3, <4>1, <4>2
    <3>4. Base * x \in Int /\ Base * y \in Int /\ Base * x # Base * y
      <4>1. x < y \/ y < x
        BY <2>1, <3>2
      <4>2. Base * x < Base * y \/ Base * y < Base * x
        BY <2>1, <3>3, <4>1
      <4>3. Base * x \in Int /\ Base * y \in Int
        BY <1>3, <2>1
      <4> QED
        BY <4>2, <4>3
    <3>5. a[i] # b[i] /\ ~(i < k)
      BY <1>3, <2>1, <2>4, <3>2, <3>4
    <3> QED
      BY <2>0, <3>5
  <2> QED
    BY <1>3, <2>2, <2>3, <2>4
<1> HIDE DEF G
<1>8. \A i \in 0 .. N : i \in G
  BY <1>3, <1>6, <1>7, UpTo
<1>9. N \in 0 .. N /\ ~(N < k)
  BY <1>3
<1>10. a[N] # b[N]
  BY <1>8, <1>9 DEF G
<1> QED
  BY <1>1, <1>2, <1>10

\* Two parts, and a part that is changed.
LEMMA JoinFacts ==
  ASSUME NEW s \in Seq(Byte), NEW t \in Seq(Byte)
  PROVE  /\ s \o t \in Seq(Byte) /\ Len(s \o t) = Len(s) + Len(t)
         /\ Len(s) \in Nat /\ Len(t) \in Nat
         /\ \A i \in 1 .. Len(s) + Len(t) :
              (s \o t)[i] = IF i <= Len(s) THEN s[i] ELSE t[i - Len(s)]
BY ConcatProperties

LEMMA ChangedFacts ==
  ASSUME NEW s \in Seq(Byte), NEW k \in 1 .. Len(s), NEW b \in Byte,
         NEW r, r = [s EXCEPT ![k] = b]
  PROVE  /\ r \in Seq(Byte) /\ Len(r) = Len(s) /\ r[k] = b
         /\ \A i \in 1 .. Len(s) : i # k => r[i] = s[i]
OBVIOUS

\* One byte of a sealed file that has changed, in the file or in its trailer, is
\* always noticed: the sum is never right by accident (mychecksum.c:29-50,
\* myunchecksum.c:29-59, fileclient.c:153-203).
THEOREM OneByteNoticed ==
  \A s \in Seq(Byte) : \A k \in 1 .. Len(Sealed(s)) : \A b \in Byte :
    b # Sealed(s)[k] => Verdicts([Sealed(s) EXCEPT ![k] = b]) = {FALSE}
<1> SUFFICES ASSUME NEW s \in Seq(Byte), NEW k \in 1 .. Len(Sealed(s)), NEW b \in Byte,
                    b # Sealed(s)[k]
             PROVE  Verdicts([Sealed(s) EXCEPT ![k] = b]) = {FALSE}
  OBVIOUS
<1>1. PICK t : t = BigEndian(Sum(s))
  OBVIOUS
<1>2. t \in Seq(Byte) /\ Len(t) = Width /\ FromBigEndian(t) = Sum(s)
  BY <1>1, SumFacts, TrailerFacts, EndianFacts
<1>3. /\ Sealed(s) = s \o t /\ Len(s) \in Nat /\ Len(t) \in Nat
      /\ Len(s \o t) = Len(s) + Len(t) /\ k \in 1 .. Len(s) + Len(t)
      /\ \A i \in 1 .. Len(s) + Len(t) :
           (s \o t)[i] = IF i <= Len(s) THEN s[i] ELSE t[i - Len(s)]
  <2>1. Sealed(s) = s \o t
    BY <1>1 DEF Sealed
  <2> QED
    BY <1>2, <2>1, JoinFacts
<1>4. CASE k <= Len(s)
  <2>1. PICK r : r = [s EXCEPT ![k] = b]
    OBVIOUS
  <2>2. r \in Seq(Byte) /\ OneChanged(s, r, k)
    <3>1. k \in 1 .. Len(s) /\ s[k] # b
      BY <1>3, <1>4
    <3> QED
      BY <2>1, <3>1, ChangedFacts DEF OneChanged
  <2>3. [(s \o t) EXCEPT ![k] = b] = r \o t
    <3>1. /\ Len(r \o t) = Len(s) + Len(t) /\ Len(r) = Len(s) /\ r \o t \in Seq(Byte)
          /\ \A i \in 1 .. Len(s) + Len(t) :
               (r \o t)[i] = IF i <= Len(s) THEN r[i] ELSE t[i - Len(s)]
      <4>1. Len(r) = Len(s)
        BY <2>2 DEF OneChanged
      <4>2. /\ Len(r \o t) = Len(r) + Len(t) /\ r \o t \in Seq(Byte)
            /\ \A i \in 1 .. Len(r) + Len(t) :
                 (r \o t)[i] = IF i <= Len(r) THEN r[i] ELSE t[i - Len(r)]
        BY <1>2, <2>2, JoinFacts
      <4> QED
        BY <4>1, <4>2
    <3>2. PICK w : w = [(s \o t) EXCEPT ![k] = b]
      OBVIOUS
    <3>3. w \in Seq(Byte) /\ Len(w) = Len(s) + Len(t)
          /\ w[k] = b /\ \A i \in 1 .. Len(s) + Len(t) : i # k => w[i] = (s \o t)[i]
      <4>1. s \o t \in Seq(Byte) /\ k \in 1 .. Len(s \o t)
        BY <1>2, <1>3, JoinFacts
      <4>2. /\ w \in Seq(Byte) /\ Len(w) = Len(s \o t) /\ w[k] = b
            /\ \A i \in 1 .. Len(s \o t) : i # k => w[i] = (s \o t)[i]
        <5>1. PICK z : z = s \o t
          OBVIOUS
        <5>2. z \in Seq(Byte) /\ k \in 1 .. Len(z) /\ w = [z EXCEPT ![k] = b]
          BY <3>2, <4>1, <5>1
        <5>3. /\ w \in Seq(Byte) /\ Len(w) = Len(z) /\ w[k] = b
              /\ \A i \in 1 .. Len(z) : i # k => w[i] = z[i]
          BY <5>2, ChangedFacts
        <5> QED
          BY <5>1, <5>3
      <4> QED
        BY <1>3, <4>2
    <3>4. ASSUME NEW i \in 1 .. Len(s) + Len(t) PROVE w[i] = (r \o t)[i]
      <4>1. CASE i = k
        BY <1>4, <2>1, <3>1, <3>3, <4>1, <2>2 DEF OneChanged
      <4>2. CASE i # k /\ i <= Len(s)
        <5>1. i \in 1 .. Len(s)
          BY <1>3, <4>2
        <5> QED
          BY <1>3, <2>2, <3>1, <3>3, <4>2, <5>1 DEF OneChanged
      <4>3. CASE i # k /\ ~(i <= Len(s))
        BY <1>3, <3>1, <3>3, <4>3
      <4> QED
        BY <4>1, <4>2, <4>3
    <3>5. w = r \o t
      BY <3>1, <3>3, <3>4, SeqEqual
    <3> QED
      BY <3>2, <3>5
  <2>4. Sum(r) # FromBigEndian(t)
    BY <1>2, <2>2, SumDiffers
  <2>5. Verdicts(r \o t) = {FALSE}
    BY <1>2, <2>2, <2>4, TrailerVerdict
  <2> QED
    BY <1>3, <2>3, <2>5
<1>5. CASE ~(k <= Len(s))
  <2>1. PICK j : j = k - Len(s)
    OBVIOUS
  <2>2. j \in 1 .. Len(t) /\ t[j] # b
    BY <1>3, <1>5, <2>1
  <2>3. PICK r : r = [t EXCEPT ![j] = b]
    OBVIOUS
  <2>4. r \in Seq(Byte) /\ OneChanged(t, r, j) /\ r[j] = b
    BY <1>2, <2>2, <2>3 DEF OneChanged
  <2>5. [(s \o t) EXCEPT ![k] = b] = s \o r
    <3>1. /\ Len(s \o r) = Len(s) + Len(t) /\ Len(r) = Len(t) /\ s \o r \in Seq(Byte)
          /\ \A i \in 1 .. Len(s) + Len(t) :
               (s \o r)[i] = IF i <= Len(s) THEN s[i] ELSE r[i - Len(s)]
      <4>1. Len(r) = Len(t)
        BY <2>4 DEF OneChanged
      <4>2. /\ Len(s \o r) = Len(s) + Len(r) /\ s \o r \in Seq(Byte)
            /\ \A i \in 1 .. Len(s) + Len(r) :
                 (s \o r)[i] = IF i <= Len(s) THEN s[i] ELSE r[i - Len(s)]
        BY <1>2, <2>4, JoinFacts
      <4> QED
        BY <4>1, <4>2
    <3>2. PICK w : w = [(s \o t) EXCEPT ![k] = b]
      OBVIOUS
    <3>3. w \in Seq(Byte) /\ Len(w) = Len(s) + Len(t)
          /\ w[k] = b /\ \A i \in 1 .. Len(s) + Len(t) : i # k => w[i] = (s \o t)[i]
      <4>1. s \o t \in Seq(Byte) /\ k \in 1 .. Len(s \o t)
        BY <1>2, <1>3, JoinFacts
      <4>2. /\ w \in Seq(Byte) /\ Len(w) = Len(s \o t) /\ w[k] = b
            /\ \A i \in 1 .. Len(s \o t) : i # k => w[i] = (s \o t)[i]
        <5>1. PICK z : z = s \o t
          OBVIOUS
        <5>2. z \in Seq(Byte) /\ k \in 1 .. Len(z) /\ w = [z EXCEPT ![k] = b]
          BY <3>2, <4>1, <5>1
        <5>3. /\ w \in Seq(Byte) /\ Len(w) = Len(z) /\ w[k] = b
              /\ \A i \in 1 .. Len(z) : i # k => w[i] = z[i]
          BY <5>2, ChangedFacts
        <5> QED
          BY <5>1, <5>3
      <4> QED
        BY <1>3, <4>2
    <3>4. ASSUME NEW i \in 1 .. Len(s) + Len(t) PROVE w[i] = (s \o r)[i]
      <4>1. CASE i = k
        BY <1>5, <2>1, <2>4, <3>1, <3>3, <4>1
      <4>2. CASE i # k /\ i <= Len(s)
        BY <1>3, <3>1, <3>3, <4>2
      <4>3. CASE i # k /\ ~(i <= Len(s))
        <5>1. PICK m : m = i - Len(s)
          OBVIOUS
        <5>2. m \in 1 .. Len(t) /\ m # j
          BY <1>3, <2>1, <4>3, <5>1
        <5>3. r[m] = t[m]
          BY <2>4, <5>2 DEF OneChanged
        <5> QED
          BY <1>3, <3>1, <3>3, <4>3, <5>1, <5>3
      <4> QED
        BY <4>1, <4>2, <4>3
    <3>5. w = s \o r
      BY <3>1, <3>3, <3>4, SeqEqual
    <3> QED
      BY <3>2, <3>5
  <2>6. Sum(s) # FromBigEndian(r) /\ Len(r) = Width
    BY <1>2, <2>4, TrailerDiffers DEF OneChanged
  <2>7. Verdicts(s \o r) = {FALSE}
    <3>1. Verdicts(s \o r) = {Sum(s) = FromBigEndian(r)}
      BY <2>4, <2>6, TrailerVerdict
    <3>2. (Sum(s) = FromBigEndian(r)) = FALSE
      BY <2>6
    <3> QED
      BY <3>1, <3>2
  <2> QED
    BY <1>3, <2>5, <2>7
<1> QED
  BY <1>4, <1>5

\* What it does not notice: two parts of a file that have changed places, since a
\* sum does not depend on the order.
THEOREM OrderUnnoticed ==
  \A s, t \in Seq(Byte) : Verdicts((t \o s) \o BigEndian(Sum(s \o t))) = {TRUE}
<1> SUFFICES ASSUME NEW s \in Seq(Byte), NEW t \in Seq(Byte)
             PROVE  Verdicts((t \o s) \o BigEndian(Sum(s \o t))) = {TRUE}
  OBVIOUS
<1>1. s \o t \in Seq(Byte) /\ t \o s \in Seq(Byte)
  OBVIOUS
<1>2. Sum(t \o s) = Sum(s \o t)
  <2>1. Sum(s) \in Int /\ Sum(t) \in Int
    BY SumFacts, ModulusFacts
  <2>2. Sum(s) + Sum(t) = Sum(t) + Sum(s)
    BY <2>1
  <2> QED
    BY <2>2, SumOfTwo
<1>3. Verdicts(Sealed(t \o s)) = {TRUE}
  BY <1>1, SealedMatches
<1> QED
  BY <1>2, <1>3 DEF Sealed

-----------------------------------------------------------------------------
\* Numbers and sequences.

LEMMA MaxOfTwo ==
  ASSUME NEW a \in Nat, NEW b \in Nat
  PROVE  Max({a, b}) \in {a, b} /\ Max({a, b}) >= a /\ Max({a, b}) >= b
<1>1. \E x \in {a, b} : \A y \in {a, b} : x >= y
  <2>1. CASE a >= b
    BY <2>1
  <2>2. CASE b >= a
    BY <2>2
  <2> QED
    BY <2>1, <2>2
<1> QED
  BY <1>1 DEF Max

LEMMA MinOfTwo ==
  ASSUME NEW a \in Nat, NEW b \in Nat
  PROVE  Min({a, b}) \in {a, b} /\ Min({a, b}) <= a /\ Min({a, b}) <= b
<1>1. \E x \in {a, b} : \A y \in {a, b} : x <= y
  <2>1. CASE a <= b
    BY <2>1
  <2>2. CASE b <= a
    BY <2>2
  <2> QED
    BY <2>1, <2>2
<1> QED
  BY <1>1 DEF Min

LEMMA ConcatFacts ==
  ASSUME NEW S, NEW a \in Seq(S), NEW b \in Seq(S)
  PROVE  /\ a \o b \in Seq(S) /\ Len(a \o b) = Len(a) + Len(b)
         /\ \A i \in 1 .. Len(a) : (a \o b)[i] = a[i]
         /\ \A i \in 1 .. Len(b) : (a \o b)[Len(a) + i] = b[i]
OBVIOUS

LEMMA WholeFacts ==
  ASSUME content \in Contents, content # NoFile
  PROVE  /\ content \in Seq(Byte) /\ Len(content) \in Nat
         /\ Whole \in Seq(Value) /\ Len(Whole) = Len(content) + Width
         /\ StandsAt(content, 0)
         /\ StandsAt(Trailer, Len(content)) /\ Len(Trailer) = Width
<1>1. content \in Seq(Byte)
  BY TransferAssumption
<1>2. Len(content) \in Nat /\ content \in [1 .. Len(content) -> Byte]
  BY <1>1
<1>3. Width \in Nat
  BY ChecksumAssumption
<1>4. Trailer \in [1 .. Width -> {Trailer[i] : i \in 1 .. Width}]
  <2>1. Trailer = [i \in 1 .. Width |-> Trailer[i]]
    BY Zenon DEF Trailer, BigEndian
  <2> HIDE DEF Trailer
  <2> QED
    BY <2>1
<1>5. Trailer \in Seq(Value) /\ Len(Trailer) = Width
  <2>1. Trailer \in [1 .. Width -> Value]
    BY <1>4 DEF Value
  <2> HIDE DEF Trailer
  <2> QED
    BY <1>3, <2>1
<1>6. content \in Seq(Value)
  <2>1. content \in [1 .. Len(content) -> Value]
    BY <1>2 DEF Value
  <2> QED
    BY <1>2, <2>1
<1> HIDE DEF Trailer, Value
<1>7. Whole = content \o Trailer
  BY DEF Whole, Sealed, Trailer
<1>8. /\ Whole \in Seq(Value) /\ Len(Whole) = Len(content) + Width
      /\ \A i \in 1 .. Len(content) : Whole[i] = content[i]
      /\ \A i \in 1 .. Width : Whole[Len(content) + i] = Trailer[i]
  <2>0. content \in Seq(Value) /\ Trailer \in Seq(Value)
    BY <1>5, <1>6
  <2>1. content \o Trailer \in Seq(Value)
    BY <2>0, ConcatFacts
  <2>2. Len(content \o Trailer) = Len(content) + Len(Trailer)
    BY <2>0, ConcatFacts
  <2>3. \A i \in 1 .. Len(content) : (content \o Trailer)[i] = content[i]
    BY <2>0, ConcatFacts
  <2>4. \A i \in 1 .. Len(Trailer) : (content \o Trailer)[Len(content) + i] = Trailer[i]
    BY <2>0, ConcatFacts
  <2> QED
    BY <1>5, <1>7, <2>1, <2>2, <2>3, <2>4
<1>9. StandsAt(content, 0)
  BY <1>2, <1>3, <1>6, <1>8 DEF StandsAt
<1>10. StandsAt(Trailer, Len(content))
  BY <1>2, <1>3, <1>5, <1>8 DEF StandsAt
<1> QED
  BY <1>1, <1>2, <1>5, <1>8, <1>9, <1>10

\* The first n bytes of what is on its way, and the rest.
LEMMA PieceFacts ==
  ASSUME NEW w, NEW g \in Nat, StandsAt(w, g), NEW n \in Nat, n <= Len(w),
         Len(Whole) \in Nat
  PROVE  /\ StandsAt(SubSeq(w, 1, n), g) /\ Len(SubSeq(w, 1, n)) = n
         /\ StandsAt(SubSeq(w, n + 1, Len(w)), g + n)
         /\ Len(SubSeq(w, n + 1, Len(w))) = Len(w) - n
<1>1. w \in Seq(Value) /\ Len(w) \in Nat /\ g + Len(w) <= Len(Whole)
      /\ \A i \in 1 .. Len(w) : w[i] = Whole[g + i]
  BY DEF StandsAt
<1> HIDE DEF StandsAt, Value
<1>2. /\ SubSeq(w, 1, n) \in Seq(Value) /\ Len(SubSeq(w, 1, n)) = n
      /\ \A i \in 1 .. n : SubSeq(w, 1, n)[i] = w[i]
  BY <1>1
<1>3. /\ SubSeq(w, n + 1, Len(w)) \in Seq(Value)
      /\ Len(SubSeq(w, n + 1, Len(w))) = Len(w) - n
      /\ \A i \in 1 .. Len(w) - n : SubSeq(w, n + 1, Len(w))[i] = w[n + i]
  BY <1>1
<1>4. StandsAt(SubSeq(w, 1, n), g)
  BY <1>1, <1>2 DEF StandsAt
<1>5. StandsAt(SubSeq(w, n + 1, Len(w)), g + n)
  <2>1. ASSUME NEW i \in 1 .. Len(w) - n
        PROVE  SubSeq(w, n + 1, Len(w))[i] = Whole[(g + n) + i]
    <3>1. n + i \in 1 .. Len(w) /\ g + (n + i) = (g + n) + i
      BY <1>1
    <3> QED
      BY <1>1, <1>3, <3>1
  <2>2. (g + n) + (Len(w) - n) <= Len(Whole)
    BY <1>1
  <2> QED
    BY <1>3, <2>1, <2>2 DEF StandsAt
<1> QED
  BY <1>2, <1>3, <1>4, <1>5

\* What is sent next follows what is on its way.
LEMMA SendFacts ==
  ASSUME NEW w, NEW g \in Nat, StandsAt(w, g), NEW s, StandsAt(s, g + Len(w)),
         Len(Whole) \in Nat
  PROVE  StandsAt(w \o s, g) /\ Len(w \o s) = Len(w) + Len(s)
<1>1. w \in Seq(Value) /\ Len(w) \in Nat /\ \A i \in 1 .. Len(w) : w[i] = Whole[g + i]
  BY DEF StandsAt
<1>2. s \in Seq(Value) /\ Len(s) \in Nat /\ (g + Len(w)) + Len(s) <= Len(Whole)
      /\ \A i \in 1 .. Len(s) : s[i] = Whole[(g + Len(w)) + i]
  BY DEF StandsAt
<1> HIDE DEF StandsAt, Value
<1>3. /\ w \o s \in Seq(Value) /\ Len(w \o s) = Len(w) + Len(s)
      /\ \A i \in 1 .. Len(w) : (w \o s)[i] = w[i]
      /\ \A i \in 1 .. Len(s) : (w \o s)[Len(w) + i] = s[i]
  BY <1>1, <1>2
<1>4. ASSUME NEW i \in 1 .. Len(w) + Len(s) PROVE (w \o s)[i] = Whole[g + i]
  <2>1. CASE i <= Len(w)
    <3>1. i \in 1 .. Len(w)
      BY <1>1, <1>2, <2>1
    <3> QED
      BY <1>1, <1>3, <3>1
  <2>2. CASE i > Len(w)
    <3>1. i - Len(w) \in 1 .. Len(s) /\ Len(w) + (i - Len(w)) = i
          /\ (g + Len(w)) + (i - Len(w)) = g + i
      BY <1>1, <1>2, <2>2
    <3> QED
      BY <1>2, <1>3, <3>1
  <2> QED
    BY <1>1, <1>2, <2>1, <2>2
<1>5. g + (Len(w) + Len(s)) <= Len(Whole)
  BY <1>1, <1>2
<1> QED
  BY <1>3, <1>4, <1>5 DEF StandsAt

\* A piece in its place leaves a longer first part of the whole, or the same.
LEMMA WrittenFacts ==
  ASSUME NEW f, StandsAt(f, 0), NEW pos \in Nat, pos <= Len(f),
         NEW s, StandsAt(s, pos), Len(Whole) \in Nat
  PROVE  /\ StandsAt(Written(f, pos, s), 0)
         /\ Len(Written(f, pos, s)) >= Len(f) /\ Len(Written(f, pos, s)) >= pos + Len(s)
<1> DEFINE m == Max({Len(f), pos + Len(s)})
           u == Written(f, pos, s)
<1>1. /\ f \in Seq(Value) /\ Len(f) \in Nat /\ Len(f) <= Len(Whole)
      /\ \A i \in 1 .. Len(f) : f[i] = Whole[i]
  BY DEF StandsAt
<1>2. /\ s \in Seq(Value) /\ Len(s) \in Nat /\ pos + Len(s) <= Len(Whole)
      /\ \A i \in 1 .. Len(s) : s[i] = Whole[pos + i]
  BY DEF StandsAt
<1>3. m \in {Len(f), pos + Len(s)} /\ m >= Len(f) /\ m >= pos + Len(s)
  BY <1>1, <1>2, MaxOfTwo
<1>4. u = [i \in 1 .. m |-> IF i \in pos + 1 .. pos + Len(s) THEN s[i - pos]
                            ELSE IF i <= Len(f) THEN f[i] ELSE 0]
  BY DEF Written
<1> HIDE DEF m, u, Value
<1>5. m \in Nat /\ m <= Len(Whole)
  BY <1>1, <1>2, <1>3
<1>6. ASSUME NEW i \in 1 .. m PROVE u[i] = Whole[i] /\ u[i] \in Value
  <2>1. CASE i \in pos + 1 .. pos + Len(s)
    <3>1. i - pos \in 1 .. Len(s) /\ pos + (i - pos) = i
      BY <1>2, <2>1
    <3>2. u[i] = s[i - pos]
      BY <1>4, <2>1
    <3>3. s[i - pos] \in Value
      BY <1>2, <3>1
    <3> QED
      BY <1>2, <3>1, <3>2, <3>3
  <2>2. CASE i \notin pos + 1 .. pos + Len(s)
    <3>1. i \in 1 .. Len(f)
      BY <1>1, <1>2, <1>3, <1>5, <2>2
    <3>2. u[i] = f[i] /\ f[i] \in Value
      BY <1>1, <1>4, <2>2, <3>1
    <3> QED
      BY <1>1, <3>1, <3>2
  <2> QED
    BY <2>1, <2>2
<1>7. u \in Seq(Value) /\ Len(u) = m
  <2>1. u \in [1 .. m -> Value]
    BY <1>4, <1>6
  <2> QED
    BY <1>5, <2>1
<1>8. StandsAt(u, 0)
  BY <1>5, <1>6, <1>7 DEF StandsAt
<1> QED
  BY <1>3, <1>7, <1>8 DEF u

-----------------------------------------------------------------------------
\* What a step leaves alone.

LEMMA SameWhole ==
  ASSUME content' = content
  PROVE  Whole' = Whole /\ Value' = Value
<1>1. Trailer' = Trailer
  BY DEF Trailer
<1> QED
  BY <1>1 DEF Whole, Value

\* The file has grown at its end, if at all.
Longer ==
  /\ Len(dir) <= Len(dir')
  /\ \A n \in 0 .. Len(dir) : SubSeq(dir', 1, n) = SubSeq(dir, 1, n)

DirOK == IF content = NoFile THEN dir = <<>> ELSE StandsAt(dir, 0)

ClientOK(c) == Stream(c) /\ Stored(c) /\ Reported(c)

LEMMA DirLength == ASSUME Types, DirOK PROVE Len(dir) \in Nat /\ (content # NoFile => Len(Whole) \in Nat)
<1>1. CASE content = NoFile
  BY <1>1 DEF DirOK
<1>2. CASE content # NoFile
  <2>1. Len(content) \in Nat /\ Len(Whole) = Len(content) + Width
    BY <1>2, WholeFacts DEF Types
  <2> QED
    BY <1>2, <2>1, ChecksumAssumption DEF DirOK, StandsAt
<1> QED
  BY <1>1, <1>2

LEMMA OtherClient ==
  ASSUME Types, Types', DirOK, DirOK', content' = content,
         NEW d \in Clients, ClientOK(d),
         /\ pc'[d] = pc[d] /\ got'[d] = got[d] /\ worker'[d] = worker[d]
         /\ source'[d] = source[d] /\ off'[d] = off[d] /\ wire'[d] = wire[d]
         /\ fault'[d] = fault[d],
         Longer \/ got[d] = 0
  PROVE  ClientOK(d)'
<1>1. Whole' = Whole /\ Value' = Value
  BY SameWhole
<1>2. Stream(d)'
  BY <1>1 DEF ClientOK, Stream, StandsAt, Blank
<1>3. got[d] \in Nat /\ Len(dir) \in Nat /\ Len(dir') \in Nat
  BY DirLength DEF Types
<1>4. Stored(d)'
  BY <1>3 DEF ClientOK, Stored, Longer
<1>5. Reported(d)'
  <2> SUFFICES ASSUME pc[d] = "reported"
               PROVE  /\ content # NoFile
                      /\ \/ got[d] = Len(Whole)
                         \/ fault[d] = "cut" /\ \E n \in got[d] .. Len(dir') :
                                                  LooksWhole(SubSeq(dir', 1, n))
    BY <1>1 DEF Reported
  <2>1. Longer
    BY <1>3 DEF ClientOK, Stored
  <2>2. ASSUME NEW n \in got[d] .. Len(dir), LooksWhole(SubSeq(dir, 1, n))
        PROVE  n \in got[d] .. Len(dir') /\ LooksWhole(SubSeq(dir', 1, n))
    <3>1. n \in 0 .. Len(dir) /\ n \in got[d] .. Len(dir')
      BY <1>3, <2>1 DEF Longer
    <3>2. SubSeq(dir', 1, n) = SubSeq(dir, 1, n)
      BY <2>1, <3>1 DEF Longer
    <3> QED
      BY <2>2, <3>1, <3>2
  <2> QED
    BY <2>2 DEF ClientOK, Reported
<1> QED
  BY <1>2, <1>4, <1>5 DEF ClientOK

\* A step of client c or of its worker.
LEMMA StepOf ==
  ASSUME Types, Types', Good, content' = content, NEW c \in Clients,
         DirOK', ClientOK(c)',
         \A d \in Clients : d # c =>
           /\ pc'[d] = pc[d] /\ got'[d] = got[d] /\ worker'[d] = worker[d]
           /\ source'[d] = source[d] /\ off'[d] = off[d] /\ wire'[d] = wire[d]
           /\ fault'[d] = fault[d],
         Longer \/ \A d \in Clients : d # c => got[d] = 0
  PROVE  Good'
<1>1. DirOK /\ \A d \in Clients : ClientOK(d)
  BY DEF Good, DirOK, ClientOK
<1>2. ASSUME NEW d \in Clients, d # c PROVE ClientOK(d)'
  BY <1>1, <1>2, OtherClient
<1> QED
  BY <1>2 DEF Good, DirOK, ClientOK

\* A step that does not touch the file.
LEMMA StepBeside ==
  ASSUME Types, Types', Good, content' = content, dir' = dir, NEW c \in Clients,
         ClientOK(c)',
         \A d \in Clients : d # c =>
           /\ pc'[d] = pc[d] /\ got'[d] = got[d] /\ worker'[d] = worker[d]
           /\ source'[d] = source[d] /\ off'[d] = off[d] /\ wire'[d] = wire[d]
           /\ fault'[d] = fault[d]
  PROVE  Good'
<1>1. DirOK
  BY DEF Good, DirOK
<1>2. DirOK'
  BY <1>1, SameWhole DEF DirOK, StandsAt
<1>3. Longer
  BY <1>1, DirLength DEF Longer
<1> QED
  BY <1>2, <1>3, StepOf

-----------------------------------------------------------------------------
\* Types.

LEMMA Faults ==
  ASSUME Types, NEW c \in Clients, NEW kind \in {"cut", "misled"}, Fails(c, kind)
  PROVE  /\ fault[c] = "none" /\ fault'[c] = kind
         /\ \A d \in Clients : d # c => fault'[d] = fault[d]
         /\ fault' \in [Clients -> {"none", "cut", "misled"}]
BY DEF Types, Fails

LEMMA BlockSize ==
  ASSUME Types, NEW c \in Clients, off[c] < Len(source[c]),
         NEW n, n = Min({BLOCKSIZE, Len(source[c]) - off[c]})
  PROVE  n \in Nat /\ off[c] + n <= Len(source[c]) /\ Len(source[c]) \in Nat
<1>1. Len(source[c]) \in Nat /\ off[c] \in Nat
  BY DEF Types, Files, NoFile
<1>2. Len(source[c]) - off[c] \in Nat /\ BLOCKSIZE \in Nat
  BY <1>1, TransferAssumption
<1>3. n \in {BLOCKSIZE, Len(source[c]) - off[c]} /\ n <= Len(source[c]) - off[c]
  BY <1>2, MinOfTwo
<1> QED
  BY <1>1, <1>2, <1>3

LEMMA PieceSize ==
  ASSUME NEW c \in Clients, NEW n \in Pieces(c)
  PROVE  n \in Nat /\ n > 0 /\ n <= Len(wire[c])
BY TransferAssumption DEF Pieces

LEMMA ClientTypes ==
  ASSUME Types, NEW c \in Clients, Client(c) PROVE Types'
<1>1. UNCHANGED <<content, other, program, source, off, fault>>
  BY DEF Client, Validate, Connect, First, FirstEmpty, Rest, RestEnds, Check,
         constant, workerVars
<1>2. pc' \in [Clients -> {"start", "connect", "check"} \cup Waiting \cup Ended]
  <2>1. ASSUME NEW l \in {"start", "connect", "check"} \cup Waiting \cup Ended, Goto(c, l)
        PROVE  pc' \in [Clients -> {"start", "connect", "check"} \cup Waiting \cup Ended]
    BY <2>1 DEF Types, Goto
  <2>2. CASE pc' = pc
    BY <2>2 DEF Types
  <2>3. \/ pc' = pc
        \/ \E l \in {"connect", "exists", "first", "rest", "nofile", "failed", "check",
                     "reported", "mismatch"} : Goto(c, l)
    BY DEF Client, Validate, Connect, First, FirstEmpty, Rest, RestEnds, Check
  <2> QED
    BY <2>1, <2>2, <2>3 DEF Waiting, Ended
<1>3. worker' \in [Clients -> {"none", "request", "send", "seal", "eof", "reset"}]
  BY DEF Types, Client, Validate, Connect, First, FirstEmpty, Rest, RestEnds, Check,
         workerVars
<1>4. got' \in [Clients -> Nat]
  <2>1. ASSUME NEW n \in Pieces(c), \/ got' = [got EXCEPT ![c] = n]
                                    \/ got' = [got EXCEPT ![c] = @ + n]
        PROVE  got' \in [Clients -> Nat]
    BY <2>1, PieceSize DEF Types
  <2>2. CASE got' = got
    BY <2>2 DEF Types
  <2> QED
    BY <2>1, <2>2 DEF Client, Validate, Connect, First, FirstEmpty, Rest, RestEnds, Check
<1>5. DOMAIN wire' = Clients
  <2>1. ASSUME NEW n, Read(c, n) PROVE DOMAIN wire' = Clients
    BY <2>1 DEF Read, Types
  <2>2. CASE wire' = wire
    BY <2>2 DEF Types
  <2> QED
    BY <2>1, <2>2 DEF Client, Validate, Connect, First, FirstEmpty, Rest, RestEnds, Check
<1> QED
  BY <1>1, <1>2, <1>3, <1>4, <1>5 DEF Types

LEMMA WorkerTypes ==
  ASSUME Types, NEW c \in Clients, Worker(c) \/ Cut(c) PROVE Types'
<1>1. UNCHANGED <<content, other, program, pc, got>>
  BY DEF Worker, Cut, Request, RequestInPieces, SendBlock, SendEnds, ReadFails, Seal,
         constant, clientVars
<1>2. fault' \in [Clients -> {"none", "cut", "misled"}]
  BY DEF Worker, Cut, Request, RequestInPieces, SendBlock, SendEnds, ReadFails, Seal,
         Fails, Types
<1>3. source' \in [Clients -> Files]
  <2>1. content \in Files /\ other \in Files /\ NoFile \in Files
    BY TransferAssumption DEF Types, Files
  <2>2. ASSUME NEW f \in Files, Opens(c, f) PROVE source' \in [Clients -> Files]
    BY <2>2 DEF Opens, Types
  <2>3. CASE source' = source
    BY <2>3 DEF Types
  <2> QED
    BY <2>1, <2>2, <2>3
       DEF Worker, Cut, Request, RequestInPieces, SendBlock, SendEnds, ReadFails, Seal
<1>4. worker' \in [Clients -> {"none", "request", "send", "seal", "eof", "reset"}]
  <2>1. ASSUME NEW f, Opens(c, f)
        PROVE  worker' \in [Clients -> {"none", "request", "send", "seal", "eof", "reset"}]
    BY <2>1 DEF Opens, Types
  <2>2. ASSUME NEW w \in {"seal", "eof", "reset"}, worker' = [worker EXCEPT ![c] = w]
        PROVE  worker' \in [Clients -> {"none", "request", "send", "seal", "eof", "reset"}]
    BY <2>2 DEF Types
  <2>3. CASE worker' = worker
    BY <2>3 DEF Types
  <2> QED
    BY <2>1, <2>2, <2>3 DEF Worker, Cut, Request, RequestInPieces, SendBlock, SendEnds,
                            ReadFails, Seal, AfterSeal
<1>5. off' \in [Clients -> Nat]
  <2>1. CASE SendBlock(c)
    <3>1. PICK n : /\ n = Min({BLOCKSIZE, Len(source[c]) - off[c]})
                   /\ off' = [off EXCEPT ![c] = @ + n]
      BY <2>1 DEF SendBlock
    <3>2. n \in Nat
      BY <2>1, <3>1, BlockSize DEF SendBlock
    <3> QED
      BY <3>1, <3>2 DEF Types
  <2>2. CASE off' = off
    BY <2>2 DEF Types
  <2> QED
    BY <2>1, <2>2 DEF Worker, Cut, Request, RequestInPieces, SendEnds, ReadFails, Seal
<1>6. DOMAIN wire' = Clients
  <2>1. ASSUME NEW b, Sends(c, b) PROVE DOMAIN wire' = Clients
    BY <2>1 DEF Sends, Types
  <2>2. CASE wire' = wire
    BY <2>2 DEF Types
  <2>3. CASE Cut(c)
    BY <2>3 DEF Cut, Types
  <2> QED
    BY <2>1, <2>2, <2>3 DEF Worker, Request, RequestInPieces, SendBlock, SendEnds,
                            ReadFails, Seal
<1> QED
  BY <1>1, <1>2, <1>3, <1>4, <1>5, <1>6 DEF Types

\* What spoils a download is never undone.
LEMMA Spoiled ==
  ASSUME Types, NEW c \in Clients, Client(c) \/ Worker(c) \/ Cut(c)
  PROVE  /\ Misled => Misled'
         /\ emptied => emptied'
<1>1. ASSUME NEW d \in Clients, fault[d] = "misled" PROVE fault'[d] = "misled"
  <2>1. CASE fault' = fault
    BY <1>1, <2>1
  <2>2. ASSUME NEW kind, Fails(c, kind) PROVE fault'[d] = "misled"
    BY <1>1, <2>2 DEF Fails, Types
  <2> QED
    BY <2>1, <2>2 DEF Client, Validate, Connect, First, FirstEmpty, Rest, RestEnds, Check,
         Worker, Cut, Request, RequestInPieces, SendBlock, SendEnds, ReadFails, Seal
<1>4. Misled => Misled'
  BY <1>1 DEF Misled
<1>5. emptied => emptied'
  BY DEF Client, Validate, Connect, First, FirstEmpty, Rest, RestEnds, Check,
         Worker, Cut, Request, RequestInPieces, SendBlock, SendEnds, ReadFails, Seal,
         clientVars
<1> QED
  BY <1>4, <1>5

-----------------------------------------------------------------------------
\* The worker.

LEMMA RequestGood ==
  ASSUME Types, Types', Good, NEW c \in Clients, Request(c) PROVE Good'
<1>1. /\ worker[c] = "request"
      /\ worker'[c] = IF content = NoFile THEN "eof" ELSE "send"
      /\ source'[c] = content
      /\ UNCHANGED <<content, dir, pc, got, off, wire, fault>>
      /\ \A d \in Clients : d # c => worker'[d] = worker[d] /\ source'[d] = source[d]
  BY DEF Request, Opens, Types, constant, clientVars
<1>2. ClientOK(c)
  BY DEF Good, ClientOK
<1>3. wire[c] = <<>> /\ got[c] = 0 /\ off[c] = 0
  BY <1>1, <1>2 DEF ClientOK, Stream, Blank
<1>4. Whole' = Whole /\ Value' = Value
  BY <1>1, SameWhole
<1>5. Stream(c)'
  <2>1. IF content = NoFile THEN Blank(c) ELSE StandsAt(wire[c], got[c])
    BY <1>2 DEF ClientOK, Stream
  <2>2. content # NoFile => off'[c] = got'[c] + Len(wire'[c]) /\ off'[c] <= Len(content)
    BY <1>1, <1>3, WholeFacts DEF Types
  <2> QED
    BY <1>1, <1>3, <1>4, <2>1, <2>2 DEF Stream, StandsAt, Blank
<1>6. Stored(c)' /\ Reported(c)'
  BY <1>1, <1>2, <1>4 DEF ClientOK, Stored, Reported
<1> QED
  BY <1>1, <1>5, <1>6, StepBeside DEF ClientOK

\* A request that is refused cuts the connection, one that is misread misleads.
LEMMA RequestInPiecesGood ==
  ASSUME Types, Types', Good, NEW c \in Clients, RequestInPieces(c), ~Misled' PROVE Good'
<1>1. Fails(c, "cut") /\ Opens(c, NoFile)
  <2>1. ~Fails(c, "misled")
    BY Faults DEF Misled
  <2> QED
    BY <2>1 DEF RequestInPieces
<1>2. /\ fault'[c] = "cut"
      /\ \A d \in Clients : d # c => fault'[d] = fault[d]
  BY <1>1, Faults
<1>3. /\ worker[c] = "request" /\ worker'[c] = "eof" /\ source'[c] = NoFile
      /\ UNCHANGED <<content, dir, pc, got, off, wire>>
      /\ \A d \in Clients : d # c => worker'[d] = worker[d] /\ source'[d] = source[d]
  BY <1>1 DEF RequestInPieces, Opens, Types, constant, clientVars
<1>4. ClientOK(c)
  BY DEF Good, ClientOK
<1>5. Whole' = Whole /\ Value' = Value
  BY <1>3, SameWhole
<1>6. Stream(c)'
  BY <1>2, <1>3, <1>4, <1>5 DEF ClientOK, Stream, StandsAt, Blank
<1>7. fault[c] = "none"
  BY <1>1 DEF Fails
<1>8. Stored(c)' /\ Reported(c)'
  BY <1>2, <1>3, <1>4, <1>5, <1>7 DEF ClientOK, Stored, Reported
<1> QED
  BY <1>2, <1>3, <1>6, <1>8, StepBeside DEF ClientOK

LEMMA BlockFacts ==
  ASSUME content \in Contents, content # NoFile,
         NEW o \in Nat, NEW n \in Nat, o + n <= Len(content)
  PROVE  StandsAt(SubSeq(content, o + 1, o + n), o) /\ Len(SubSeq(content, o + 1, o + n)) = n
<1>1. /\ content \in Seq(Value) /\ Len(content) \in Nat
      /\ Len(Whole) = Len(content) + Width /\ Width \in Nat
      /\ \A i \in 1 .. Len(content) : content[i] = Whole[i]
  BY WholeFacts, ChecksumAssumption DEF StandsAt
<1> HIDE DEF Value
<1>2. /\ SubSeq(content, o + 1, o + n) \in Seq(Value)
      /\ Len(SubSeq(content, o + 1, o + n)) = n
      /\ \A i \in 1 .. n : SubSeq(content, o + 1, o + n)[i] = content[o + i]
                           /\ o + i \in 1 .. Len(content)
  BY <1>1
<1>3. \A i \in 1 .. n : SubSeq(content, o + 1, o + n)[i] = Whole[o + i]
  BY <1>1, <1>2
<1>4. o + n <= Len(Whole)
  BY <1>1
<1> DEFINE s == SubSeq(content, o + 1, o + n)
<1>5. s \in Seq(Value) /\ Len(s) = n /\ \A i \in 1 .. n : s[i] = Whole[o + i]
  BY <1>2, <1>3
<1> HIDE DEF s
<1>6. StandsAt(s, o)
  BY <1>4, <1>5 DEF StandsAt
<1> QED
  BY <1>5, <1>6 DEF s

\* What is sent follows what was sent before.
LEMMA SendsGood ==
  ASSUME Types, Types', Good, NEW c \in Clients,
         worker[c] \in {"send", "seal"},
         NEW b, StandsAt(b, off[c]), Sends(c, b),
         UNCHANGED <<content, dir, pc, got, source, fault>>,
         \A d \in Clients : d # c => worker'[d] = worker[d] /\ off'[d] = off[d],
         \/ /\ worker'[c] = "send" /\ off'[c] = off[c] + Len(b) /\ off'[c] <= Len(content)
         \/ /\ worker'[c] = "eof" /\ off'[c] = off[c] /\ off[c] + Len(b) = Len(Whole)
  PROVE  Good'
<1>1. ClientOK(c)
  BY DEF Good, ClientOK
<1>2. /\ source[c] = content /\ content # NoFile /\ off[c] = got[c] + Len(wire[c])
      /\ StandsAt(wire[c], got[c])
  BY <1>1 DEF ClientOK, Stream
<1>3. Len(Whole) \in Nat
  BY <1>2, DirLength DEF Good, DirOK
<1>4. got[c] \in Nat /\ off[c] \in Nat /\ Len(b) \in Nat /\ Len(wire[c]) \in Nat
  BY <1>2 DEF Types, StandsAt
<1>5. StandsAt(wire[c] \o b, got[c]) /\ Len(wire[c] \o b) = Len(wire[c]) + Len(b)
  BY <1>2, <1>3, <1>4, SendFacts
<1>6. wire'[c] = wire[c] \o b /\ \A d \in Clients : d # c => wire'[d] = wire[d]
  BY DEF Sends, Types
<1>7. Whole' = Whole /\ Value' = Value
  BY SameWhole
<1>8. StandsAt(wire'[c], got'[c]) /\ Len(wire'[c]) = Len(wire[c]) + Len(b) /\ got'[c] = got[c]
  BY <1>5, <1>6
<1>9. Stream(c)'
  <2>1. StandsAt(wire[c], got[c])'
    BY <1>7, <1>8 DEF StandsAt
  <2>2. CASE worker'[c] = "send"
    BY <1>2, <1>4, <1>8, <2>1, <2>2 DEF Stream
  <2>3. CASE worker'[c] = "eof"
    BY <1>2, <1>4, <1>7, <1>8, <2>1, <2>3 DEF Stream
  <2> QED
    BY <2>2, <2>3
<1>10. Stored(c)' /\ Reported(c)'
  BY <1>1, <1>7 DEF ClientOK, Stored, Reported
<1> QED
  BY <1>6, <1>9, <1>10, StepBeside DEF ClientOK

LEMMA SendBlockGood ==
  ASSUME Types, Types', Good, NEW c \in Clients, SendBlock(c) PROVE Good'
<1>1. PICK n :
        /\ n = Min({BLOCKSIZE, Len(source[c]) - off[c]})
        /\ Sends(c, SubSeq(source[c], off[c] + 1, off[c] + n))
        /\ off' = [off EXCEPT ![c] = @ + n]
  BY DEF SendBlock
<1>2. worker[c] = "send" /\ off[c] < Len(source[c])
      /\ UNCHANGED <<content, dir, pc, got, worker, source, fault>>
  BY DEF SendBlock, constant, clientVars
<1>3. n \in Nat /\ off[c] + n <= Len(source[c])
  BY <1>1, <1>2, BlockSize
<1>4. source[c] = content /\ content # NoFile
  BY <1>2 DEF Good, Stream
<1>5. off[c] \in Nat /\ off'[c] = off[c] + n /\ \A d \in Clients : d # c => off'[d] = off[d]
  BY <1>1 DEF Types
<1> DEFINE b == SubSeq(source[c], off[c] + 1, off[c] + n)
<1>6. StandsAt(b, off[c]) /\ Len(b) = n
  BY <1>3, <1>4, <1>5, BlockFacts DEF Types
<1>7. Sends(c, b)
  BY <1>1
<1> HIDE DEF b
<1> QED
  BY <1>2, <1>3, <1>4, <1>5, <1>6, <1>7, SendsGood

LEMMA SealGood ==
  ASSUME Types, Types', Good, NEW c \in Clients, Seal(c) PROVE Good'
<1>1. /\ worker[c] = "seal"
      /\ Sends(c, BigEndian(Sum(SubSeq(source[c], 1, off[c]))))
      /\ worker' = [worker EXCEPT ![c] = "eof"]
      /\ UNCHANGED <<content, dir, pc, got, source, off, fault>>
  BY DEF Seal, AfterSeal, constant, clientVars
<1>2. source[c] = content /\ content # NoFile /\ off[c] = Len(content)
  BY <1>1 DEF Good, Stream
<1>3. /\ content \in Seq(Byte) /\ StandsAt(Trailer, Len(content)) /\ Len(Trailer) = Width
      /\ Len(Whole) = Len(content) + Width
  BY <1>2, WholeFacts DEF Types
<1>4. SubSeq(source[c], 1, off[c]) = content
  BY <1>2, <1>3
<1>5. Sends(c, Trailer)
  BY <1>1, <1>4 DEF Trailer
<1>6. worker'[c] = "eof" /\ \A d \in Clients : d # c => worker'[d] = worker[d]
  BY <1>1 DEF Types
<1> QED
  BY <1>1, <1>2, <1>3, <1>5, <1>6, SendsGood

\* The worker only moves, or its connection ends early.
LEMMA WorkerMoves ==
  ASSUME Types, Types', Good, NEW c \in Clients,
         worker[c] \in {"request", "send", "seal"},
         UNCHANGED <<content, dir, pc, got, source, off>>,
         \A d \in Clients : d # c =>
           worker'[d] = worker[d] /\ wire'[d] = wire[d] /\ fault'[d] = fault[d],
         \/ /\ worker[c] = "send" /\ worker'[c] = "seal" /\ off[c] = Len(source[c])
            /\ wire'[c] = wire[c] /\ fault'[c] = fault[c]
         \/ /\ worker'[c] \in {"eof", "reset"}
            /\ wire'[c] \in {wire[c], <<>>} /\ fault[c] = "none" /\ fault'[c] = "cut"
  PROVE  Good'
<1>1. ClientOK(c)
  BY DEF Good, ClientOK
<1>2. Whole' = Whole /\ Value' = Value
  BY SameWhole
<1>3. IF content = NoFile THEN Blank(c)' ELSE StandsAt(wire[c], got[c])'
  <2>1. CASE content = NoFile
    BY <1>1, <2>1 DEF ClientOK, Stream, Blank
  <2>2. CASE content # NoFile
    <3>1. StandsAt(wire[c], got[c])
      BY <1>1, <2>2 DEF ClientOK, Stream
    <3>2. Len(Whole) \in Nat /\ got[c] \in Nat /\ Len(wire[c]) \in Nat
      BY <2>2, <3>1, DirLength DEF Good, DirOK, Types, StandsAt
    <3>3. StandsAt(<<>>, got[c])
      BY <3>1, <3>2 DEF StandsAt
    <3>4. StandsAt(wire'[c], got'[c])
      BY <3>1, <3>3
    <3> QED
      BY <1>2, <2>2, <3>4 DEF StandsAt
  <2> QED
    BY <2>1, <2>2
<1>4. Stream(c)'
  BY <1>1, <1>3 DEF ClientOK, Stream
<1>5. Stored(c)' /\ Reported(c)'
  BY <1>1, <1>2 DEF ClientOK, Stored, Reported
<1> QED
  BY <1>4, <1>5, StepBeside DEF ClientOK

LEMMA SendEndsGood ==
  ASSUME Types, Types', Good, NEW c \in Clients, SendEnds(c) PROVE Good'
<1>1. /\ worker[c] = "send" /\ off[c] = Len(source[c])
      /\ worker' = [worker EXCEPT ![c] = "seal"]
      /\ UNCHANGED <<content, dir, pc, got, source, off, wire, fault>>
  BY DEF SendEnds, constant, clientVars
<1>2. worker'[c] = "seal" /\ \A d \in Clients : d # c => worker'[d] = worker[d]
  BY <1>1 DEF Types
<1> QED
  BY <1>1, <1>2, WorkerMoves

\* The C server seals a file it could not read to the end, and misleads; the
\* Java server ends the connection.
LEMMA ReadFailsGood ==
  ASSUME Types, Types', Good, NEW c \in Clients, ReadFails(c), ~Misled' PROVE Good'
<1>1. /\ worker[c] = "send"
      /\ Fails(c, "cut") /\ worker' = [worker EXCEPT ![c] = "eof"]
      /\ UNCHANGED <<content, dir, pc, got, source, off, wire>>
  <2>1. ~Fails(c, "misled")
    BY Faults DEF Misled
  <2> QED
    BY <2>1 DEF ReadFails, constant, clientVars
<1>2. /\ fault[c] = "none" /\ fault'[c] = "cut"
      /\ \A d \in Clients : d # c => fault'[d] = fault[d]
  BY <1>1, Faults
<1>3. worker'[c] = "eof" /\ \A d \in Clients : d # c => worker'[d] = worker[d]
  BY <1>1 DEF Types
<1> QED
  BY <1>1, <1>2, <1>3, WorkerMoves

LEMMA CutGood ==
  ASSUME Types, Types', Good, NEW c \in Clients, Cut(c) PROVE Good'
<1>1. /\ worker[c] \in {"request", "send", "seal"} /\ Fails(c, "cut")
      /\ UNCHANGED <<content, dir, pc, got, source, off>>
  BY DEF Cut, constant, clientVars
<1>2. /\ fault[c] = "none" /\ fault'[c] = "cut"
      /\ \A d \in Clients : d # c => fault'[d] = fault[d]
  BY <1>1, Faults
<1>3. /\ worker'[c] \in {"eof", "reset"} /\ wire'[c] \in {wire[c], <<>>}
      /\ \A d \in Clients : d # c => worker'[d] = worker[d] /\ wire'[d] = wire[d]
  BY DEF Cut, Types
<1> QED
  BY <1>1, <1>2, <1>3, WorkerMoves

-----------------------------------------------------------------------------
\* The client.

LEMMA PrefixesAgree ==
  ASSUME NEW f, StandsAt(f, 0), NEW u, StandsAt(u, 0), Len(f) <= Len(u),
         NEW n \in 0 .. Len(f)
  PROVE  SubSeq(u, 1, n) = SubSeq(f, 1, n)
<1>1. f \in Seq(Value) /\ Len(f) \in Nat /\ \A i \in 1 .. Len(f) : f[i] = Whole[i]
  BY DEF StandsAt
<1>2. u \in Seq(Value) /\ Len(u) \in Nat /\ \A i \in 1 .. Len(u) : u[i] = Whole[i]
  BY DEF StandsAt
<1> HIDE DEF Value, StandsAt
<1>3. SubSeq(f, 1, n) \in Seq(Value) /\ Len(SubSeq(f, 1, n)) = n
      /\ \A i \in 1 .. n : SubSeq(f, 1, n)[i] = Whole[i]
  BY <1>1
<1>4. SubSeq(u, 1, n) \in Seq(Value) /\ Len(SubSeq(u, 1, n)) = n
      /\ \A i \in 1 .. n : SubSeq(u, 1, n)[i] = Whole[i]
  BY <1>1, <1>2
<1> QED
  BY <1>3, <1>4

\* A piece that is stored in its place, in the file or in an empty one that no
\* other client has written.
LEMMA ReadGood ==
  ASSUME Types, Types', Good, NEW c \in Clients, pc[c] \in Waiting,
         NEW n \in Pieces(c), Read(c, n), NEW f, got[c] <= Len(f),
         f = dir \/ (f = <<>> /\ \A d \in Clients : d # c => got[d] = 0),
         dir' = Written(f, got[c], SubSeq(wire[c], 1, n)),
         got' = [got EXCEPT ![c] = got[c] + n],
         pc'[c] = "rest", \A d \in Clients : d # c => pc'[d] = pc[d],
         UNCHANGED <<content, worker, source, off, fault>>
  PROVE  Good'
<1> DEFINE s == SubSeq(wire[c], 1, n)
           r == SubSeq(wire[c], n + 1, Len(wire[c]))
<1>1. n \in Nat /\ n > 0 /\ n <= Len(wire[c]) /\ got[c] \in Nat
  BY PieceSize DEF Types
<1>2. ClientOK(c) /\ DirOK
  BY DEF Good, ClientOK, DirOK
<1>3. content # NoFile /\ StandsAt(wire[c], got[c])
  BY <1>1, <1>2 DEF ClientOK, Stream, Blank
<1>4. Len(Whole) \in Nat /\ Len(wire[c]) \in Nat
  BY <1>2, <1>3, DirLength DEF StandsAt
<1>5. StandsAt(s, got[c]) /\ Len(s) = n
      /\ StandsAt(r, got[c] + n) /\ Len(r) = Len(wire[c]) - n
  BY <1>1, <1>3, <1>4, PieceFacts
<1>6. wire'[c] = r /\ got'[c] = got[c] + n
      /\ \A d \in Clients : d # c => wire'[d] = wire[d] /\ got'[d] = got[d]
  BY DEF Read, Types
<1>7. dir' = Written(f, got[c], s)
  OBVIOUS
<1> HIDE DEF s, r
<1>8. StandsAt(f, 0)
  <2>1. StandsAt(dir, 0)
    BY <1>2, <1>3 DEF DirOK
  <2>2. StandsAt(<<>>, 0)
    BY <1>4 DEF StandsAt
  <2> QED
    BY <2>1, <2>2
<1>9. StandsAt(dir', 0) /\ Len(dir') >= Len(f) /\ Len(dir') >= got[c] + n
  BY <1>1, <1>4, <1>5, <1>7, <1>8, WrittenFacts
<1>10. Whole' = Whole /\ Value' = Value
  BY SameWhole
<1>11. DirOK'
  BY <1>3, <1>9, <1>10 DEF DirOK, StandsAt
<1>12. Stream(c)'
  <2>1. StandsAt(wire[c], got[c])'
    BY <1>5, <1>6, <1>10 DEF StandsAt
  <2>2. worker[c] \notin {"none", "request"}
    BY <1>1, <1>2, <1>4 DEF ClientOK, Stream, Blank
  <2>3. got'[c] + Len(wire'[c]) = got[c] + Len(wire[c])
    BY <1>1, <1>4, <1>5, <1>6
  <2> QED
    BY <1>2, <1>3, <1>10, <2>1, <2>2, <2>3 DEF ClientOK, Stream
<1>13. Stored(c)' /\ Reported(c)'
  BY <1>1, <1>6, <1>9, <1>11, DirLength DEF Stored, Reported
<1>14. Longer \/ \A d \in Clients : d # c => got[d] = 0
  <2>1. CASE f = dir
    BY <1>8, <1>9, <2>1, PrefixesAgree, DirLength, <1>2, <1>11 DEF Longer
  <2> QED
    BY <2>1
<1> QED
  BY <1>6, <1>11, <1>12, <1>13, <1>14, StepOf DEF ClientOK

\* A client that stores nothing.
LEMMA ClientMoves ==
  ASSUME Types, Types', Good, NEW c \in Clients,
         UNCHANGED <<content, dir, got, source, off, wire, fault>>,
         worker'[c] = worker[c] \/ (worker[c] = "none" /\ worker'[c] = "request"),
         \A d \in Clients : d # c => pc'[d] = pc[d] /\ worker'[d] = worker[d],
         Stored(c)', Reported(c)'
  PROVE  Good'
<1>1. ClientOK(c)
  BY DEF Good, ClientOK
<1>2. Whole' = Whole /\ Value' = Value
  BY SameWhole
<1>3. Stream(c)'
  BY <1>1, <1>2 DEF ClientOK, Stream, StandsAt, Blank
<1> QED
  BY <1>3, StepBeside DEF ClientOK

LEMMA ValidateGood ==
  ASSUME Types, Types', Good, NEW c \in Clients, Validate(c) PROVE Good'
<1>1. /\ pc[c] = "start" /\ pc'[c] \in {"connect", "exists"}
      /\ \A d \in Clients : d # c => pc'[d] = pc[d] /\ worker'[d] = worker[d]
      /\ UNCHANGED <<content, dir, got, worker, source, off, wire, fault>>
  BY DEF Validate, Goto, Types, constant, workerVars
<1>2. Stored(c)
  BY DEF Good
<1>3. Stored(c)' /\ Reported(c)'
  BY <1>1, <1>2 DEF Stored, Reported
<1> QED
  BY <1>1, <1>3, ClientMoves

LEMMA ConnectGood ==
  ASSUME Types, Types', Good, NEW c \in Clients, Connect(c) PROVE Good'
<1>1. /\ pc[c] = "connect" /\ pc'[c] = "first" /\ worker'[c] = "request"
      /\ \A d \in Clients : d # c => pc'[d] = pc[d] /\ worker'[d] = worker[d]
      /\ UNCHANGED <<content, dir, got, source, off, wire, fault>>
  BY DEF Connect, Goto, Types, constant
<1>2. Stored(c)
  BY DEF Good
<1>3. worker[c] = "none"
  BY <1>1, <1>2 DEF Stored
<1>4. Stored(c)' /\ Reported(c)'
  BY <1>1, <1>2 DEF Stored, Reported
<1> QED
  BY <1>1, <1>3, <1>4, ClientMoves

\* A Java client empties the file: when another client has written to it, that
\* one's file is gone.
LEMMA FirstGood ==
  ASSUME Types, Types', Good, NEW c \in Clients, First(c), ~emptied' PROVE Good'
<1>1. PICK n \in Pieces(c) :
        /\ Read(c, n)
        /\ dir' = Written(Opened(c), 0, SubSeq(wire[c], 1, n))
        /\ got' = [got EXCEPT ![c] = n]
  BY DEF First
<1>2. /\ pc[c] = "first" /\ pc'[c] = "rest"
      /\ \A d \in Clients : d # c => pc'[d] = pc[d]
      /\ UNCHANGED <<program, content, worker, source, off, fault>>
  BY DEF First, Goto, Types, constant, workerVars
<1>3. got[c] = 0
  BY <1>2 DEF Good, Stored
<1>4. n \in Nat /\ n > 0
  BY PieceSize
<1>5. got' = [got EXCEPT ![c] = got[c] + n]
  BY <1>1, <1>3, <1>4
<1>6. got[c] <= Len(dir) /\ got[c] <= Len(<<>>)
  BY <1>3 DEF Good, Stored
<1>7. CASE program[c] = "Java"
  <2>1. ASSUME NEW d \in Clients, d # c PROVE got[d] = 0
    <3>1. dir = <<>>
      BY <1>7 DEF First, Opened
    <3>2. Stored(d) /\ got[d] \in Nat
      BY DEF Good, Types
    <3> QED
      BY <3>1, <3>2 DEF Stored
  <2>2. dir' = Written(<<>>, got[c], SubSeq(wire[c], 1, n))
    BY <1>1, <1>3, <1>7 DEF Opened
  <2> QED
    BY <1>1, <1>2, <1>5, <1>6, <2>1, <2>2, ReadGood DEF Waiting
<1>8. CASE program[c] # "Java"
  <2>1. PICK f : f = dir
    OBVIOUS
  <2>2. dir' = Written(f, got[c], SubSeq(wire[c], 1, n))
    BY <1>1, <1>3, <1>8, <2>1 DEF Opened
  <2> QED
    BY <1>1, <1>2, <1>5, <1>6, <2>1, <2>2, ReadGood DEF Waiting
<1> QED
  BY <1>7, <1>8

LEMMA RestGood ==
  ASSUME Types, Types', Good, NEW c \in Clients, Rest(c) PROVE Good'
<1>1. PICK n \in Pieces(c) :
        /\ Read(c, n)
        /\ dir' = Written(dir, got[c], SubSeq(wire[c], 1, n))
        /\ got' = [got EXCEPT ![c] = got[c] + n]
  BY DEF Rest
<1>2. pc[c] = "rest" /\ UNCHANGED <<content, pc, worker, source, off, fault>>
  BY DEF Rest, constant, workerVars
<1>3. PICK f : f = dir
  OBVIOUS
<1>4. got[c] <= Len(f) /\ dir' = Written(f, got[c], SubSeq(wire[c], 1, n))
  BY <1>1, <1>3 DEF Good, Stored
<1> QED
  BY <1>1, <1>2, <1>3, <1>4, ReadGood DEF Waiting

LEMMA FirstEmptyGood ==
  ASSUME Types, Types', Good, NEW c \in Clients, FirstEmpty(c) PROVE Good'
<1>1. /\ pc[c] = "first" /\ pc'[c] = "nofile"
      /\ \A d \in Clients : d # c => pc'[d] = pc[d] /\ worker'[d] = worker[d]
      /\ UNCHANGED <<content, dir, got, worker, source, off, wire, fault>>
  BY DEF FirstEmpty, Goto, Types, constant, workerVars
<1>2. Stored(c)
  BY DEF Good
<1>3. Stored(c)' /\ Reported(c)'
  BY <1>1, <1>2 DEF Stored, Reported
<1> QED
  BY <1>1, <1>3, ClientMoves

LEMMA RestEndsGood ==
  ASSUME Types, Types', Good, NEW c \in Clients, RestEnds(c) PROVE Good'
<1>1. /\ pc[c] = "rest" /\ pc'[c] \in {"failed", "check"}
      /\ wire[c] = <<>> /\ worker[c] \in {"eof", "reset"}
      /\ \A d \in Clients : d # c => pc'[d] = pc[d] /\ worker'[d] = worker[d]
      /\ UNCHANGED <<content, dir, got, worker, source, off, wire, fault>>
  BY DEF RestEnds, Goto, Types, constant, workerVars
<1>2. Stored(c)
  BY DEF Good
<1>3. Stored(c)' /\ Reported(c)'
  BY <1>1, <1>2 DEF Stored, Reported
<1> QED
  BY <1>1, <1>3, ClientMoves

LEMMA VerdictFacts == ASSUME NEW s PROVE Verdicts(s) \subseteq BOOLEAN
BY DEF Verdicts, Matches

\* A client that reports has all that was sent, or was cut off where the file
\* looks whole.
LEMMA CheckGood ==
  ASSUME Types, Types', Good, NEW c \in Clients, Check(c), ~Misled' PROVE Good'
<1>1. /\ pc[c] = "check" /\ pc'[c] \in {"reported", "mismatch"}
      /\ pc'[c] = "reported" => TRUE \in Verdicts(dir)
      /\ \A d \in Clients : d # c => pc'[d] = pc[d] /\ worker'[d] = worker[d]
      /\ UNCHANGED <<content, dir, got, worker, source, off, wire, fault>>
  <2>1. PICK match \in BOOLEAN :
          /\ match => TRUE \in Verdicts(dir)
          /\ pc' = [pc EXCEPT ![c] = IF match THEN "reported" ELSE "mismatch"]
    BY VerdictFacts DEF Check, Goto
  <2>2. pc[c] = "check" /\ pc \in [Clients -> {"start", "connect", "check"} \cup Waiting \cup Ended]
        /\ UNCHANGED <<content, dir, got, worker, source, off, wire, fault>>
    BY DEF Check, Types, constant, workerVars
  <2> QED
    BY <2>1, <2>2
<1>2. Stored(c) /\ Stream(c) /\ DirOK
  BY DEF Good, DirOK
<1>3. /\ got[c] > 0 /\ got[c] <= Len(dir) /\ wire[c] = <<>> /\ worker[c] \in {"eof", "reset"}
      /\ got[c] \in Nat
  BY <1>1, <1>2 DEF Stored, Types
<1>4. content # NoFile
  BY <1>2, <1>3 DEF Stream, Blank
<1>5. \/ got[c] = Len(Whole)
      \/ fault[c] = "cut"
  BY <1>2, <1>3, <1>4 DEF Stream
<1>6. dir \in Seq(Value) /\ Len(dir) \in Nat
  BY <1>2, <1>4 DEF DirOK, StandsAt
<1>7. SubSeq(dir, 1, Len(dir)) = dir /\ Len(dir) \in got[c] .. Len(dir)
  BY <1>3, <1>6
<1>8. Whole' = Whole
  BY <1>1, SameWhole
<1>9. Reported(c)'
  BY <1>1, <1>4, <1>5, <1>7, <1>8 DEF Reported, LooksWhole
<1>10. Stored(c)'
  BY <1>1, <1>2 DEF Stored
<1> QED
  BY <1>1, <1>9, <1>10, ClientMoves

-----------------------------------------------------------------------------
\* The invariant.

LEMMA InitGood == Init => IInv
<1> SUFFICES ASSUME Init PROVE IInv
  OBVIOUS
<1>1. Types
  BY DEF Init, Types, Files
<1>2. ASSUME content # NoFile PROVE StandsAt(<<>>, 0)
  <2>1. Len(content) \in Nat /\ Len(Whole) = Len(content) + Width
    BY <1>1, <1>2, WholeFacts DEF Types
  <2> QED
    BY <2>1, ChecksumAssumption DEF StandsAt
<1>3. DirOK
  BY <1>2 DEF Init, DirOK
<1>4. ASSUME NEW c \in Clients PROVE ClientOK(c)
  <2>1. pc[c] = "start" /\ got[c] = 0 /\ worker[c] = "none" /\ off[c] = 0
        /\ wire[c] = <<>> /\ dir = <<>>
    BY DEF Init
  <2> QED
    BY <1>2, <2>1 DEF ClientOK, Stream, Stored, Reported, Blank
<1> QED
  BY <1>1, <1>3, <1>4 DEF IInv, Good, DirOK, ClientOK

LEMMA StepGood == IInv /\ [Next]_vars => IInv'
<1> SUFFICES ASSUME IInv, [Next]_vars PROVE IInv'
  OBVIOUS
<1>1. CASE UNCHANGED vars
  <2>1. UNCHANGED <<content, other, program, pc, got, worker, source, off, fault, wire, dir, emptied>>
    BY <1>1 DEF vars
  <2>2. Whole' = Whole /\ Value' = Value
    BY <2>1, SameWhole
  <2> QED
    BY <2>1, <2>2 DEF IInv, Types, Misled, Good, Stream, Stored, Reported, Blank,
                      StandsAt
<1>2. ASSUME NEW c \in Clients, Client(c) \/ Worker(c) \/ Cut(c) PROVE IInv'
  <2>1. Types /\ Types'
    BY <1>2, ClientTypes, WorkerTypes DEF IInv
  <2>2. CASE Misled \/ emptied
    BY <1>2, <2>1, <2>2, Spoiled DEF IInv
  <2>3. CASE Good
    <3> SUFFICES ASSUME ~Misled', ~emptied' PROVE Good'
      BY <2>1 DEF IInv
    <3>1. CASE Client(c)
      BY <2>1, <2>3, <3>1, ValidateGood, ConnectGood, FirstGood, FirstEmptyGood, RestGood,
         RestEndsGood, CheckGood DEF Client
    <3>2. CASE Worker(c)
      BY <2>1, <2>3, <3>2, RequestGood, RequestInPiecesGood, SendBlockGood, SendEndsGood,
         ReadFailsGood, SealGood DEF Worker
    <3>3. CASE Cut(c)
      BY <2>1, <2>3, <3>3, CutGood
    <3> QED
      BY <1>2, <3>1, <3>2, <3>3
  <2> QED
    BY <2>2, <2>3 DEF IInv
<1> QED
  BY <1>1, <1>2 DEF Next

\* A first part of the whole is the whole when it is as long.
LEMMA AllOfIt ==
  ASSUME NEW f, StandsAt(f, 0), Whole \in Seq(Value)
  PROVE  IsPrefix(f, Whole) /\ (Len(f) = Len(Whole) => f = Whole)
<1>1. f \in Seq(Value) /\ Len(f) \in Nat /\ Len(Whole) \in Nat /\ Len(f) <= Len(Whole)
      /\ \A i \in 1 .. Len(f) : f[i] = Whole[i]
  BY DEF StandsAt
<1> HIDE DEF Value, Whole, StandsAt
<1>2. /\ SubSeq(Whole, 1, Len(f)) \in Seq(Value) /\ Len(SubSeq(Whole, 1, Len(f))) = Len(f)
      /\ \A i \in 1 .. Len(f) : SubSeq(Whole, 1, Len(f))[i] = Whole[i]
  BY <1>1
<1>3. f = SubSeq(Whole, 1, Len(f))
  BY <1>1, <1>2
<1>4. IsPrefix(f, Whole)
  BY <1>1, <1>3 DEF IsPrefix
<1> QED
  BY <1>1, <1>4

LEMMA InvMeans == IInv => ReportMeansFile
<1> SUFFICES ASSUME IInv, ~Misled, ~emptied, NEW c \in Clients, pc[c] = "reported"
             PROVE  \/ dir = Sealed(content)
                    \/ /\ fault[c] = "cut" /\ IsPrefix(dir, Sealed(content))
                       /\ \E n \in got[c]..Len(dir) : LooksWhole(SubSeq(dir, 1, n))
  BY DEF ReportMeansFile
<1>1. Types /\ Good
  BY DEF IInv
<1>2. /\ content # NoFile /\ got[c] <= Len(dir) /\ StandsAt(dir, 0)
      /\ \/ got[c] = Len(Whole)
         \/ fault[c] = "cut" /\ \E n \in got[c] .. Len(dir) : LooksWhole(SubSeq(dir, 1, n))
  BY <1>1 DEF Good, Stored, Reported
<1>3. Whole \in Seq(Value) /\ Len(Whole) \in Nat
  BY <1>1, <1>2, WholeFacts DEF Types
<1>4. IsPrefix(dir, Whole) /\ (Len(dir) = Len(Whole) => dir = Whole)
  BY <1>2, <1>3, AllOfIt
<1>5. Len(dir) \in Nat /\ Len(dir) <= Len(Whole)
  BY <1>2 DEF StandsAt
<1>6. got[c] = Len(Whole) => dir = Whole
  BY <1>2, <1>3, <1>4, <1>5
<1> QED
  BY <1>2, <1>4, <1>6 DEF Whole

\* A file that a client has reported is the server's with its trailer, and stays
\* so while others write it; unless a client was sent something else or has
\* emptied it, or the connection was cut where the sum happens to match
\* (fileclient.c:240-383, fileserver.c:225-325 and their Java counterparts).
THEOREM ReportMeansFileAlways == Spec => []ReportMeansFile
<1>1. Spec => []IInv
  BY InitGood, StepGood, PTL DEF Spec
<1> QED
  BY <1>1, InvMeans, PTL

-----------------------------------------------------------------------------
\* The types, and whom a failure is to blame on.

\* A worker is where its client has brought it.
Tidy(c) ==
  /\ pc[c] \in {"start", "connect", "exists"} => worker[c] = "none"
  /\ worker[c] \in {"none", "request"} => off[c] = 0 /\ wire[c] = <<>>
  /\ worker[c] \in {"send", "seal"} => source[c] # NoFile

\* What makes a client fail has happened: its connection was cut, or there is no
\* file, or what it stores is not what it reads back.
Blamed(c) ==
  /\ worker[c] = "reset" => fault[c] # "none"
  /\ pc[c] = "first" /\ worker[c] = "eof" /\ wire[c] = <<>>
       => fault[c] # "none" \/ content = NoFile
  /\ pc[c] = "nofile" => fault[c] # "none" \/ content = NoFile
  /\ pc[c] = "failed" => fault[c] # "none"
  /\ pc[c] = "mismatch" => fault[c] # "none" \/ Misled \/ emptied

TInv == TypeOK /\ \A c \in Clients : Tidy(c)

FInv == IInv /\ TInv /\ \A c \in Clients : Blamed(c)

LEMMA TypesFollow == TypeOK => Types
BY DEF TypeOK, Types

LEMMA OneStep ==
  ASSUME Types, NEW c \in Clients, Client(c) \/ Worker(c) \/ Cut(c)
  PROVE  \A d \in Clients : d # c =>
           /\ pc'[d] = pc[d] /\ worker'[d] = worker[d] /\ source'[d] = source[d]
           /\ off'[d] = off[d] /\ wire'[d] = wire[d] /\ fault'[d] = fault[d]
<1> SUFFICES ASSUME NEW d \in Clients, d # c
             PROVE  /\ pc'[d] = pc[d] /\ worker'[d] = worker[d] /\ source'[d] = source[d]
                    /\ off'[d] = off[d] /\ wire'[d] = wire[d] /\ fault'[d] = fault[d]
  OBVIOUS
<1>1. pc'[d] = pc[d]
  BY DEF Client, Validate, Connect, First, FirstEmpty, Rest, RestEnds, Check, Goto,
         Worker, Cut, Request, RequestInPieces, SendBlock, SendEnds, ReadFails, Seal,
         clientVars, Types
<1>2. worker'[d] = worker[d] /\ source'[d] = source[d]
  BY DEF Client, Validate, Connect, First, FirstEmpty, Rest, RestEnds, Check,
         Worker, Cut, Request, RequestInPieces, SendBlock, SendEnds, ReadFails, Seal,
         Opens, workerVars, Types
<1>3. off'[d] = off[d]
  BY DEF Client, Validate, Connect, First, FirstEmpty, Rest, RestEnds, Check,
         Worker, Cut, Request, RequestInPieces, SendBlock, SendEnds, ReadFails, Seal,
         workerVars, Types
<1>4. wire'[d] = wire[d]
  BY DEF Client, Validate, Connect, First, FirstEmpty, Rest, RestEnds, Check, Read,
         Worker, Cut, Request, RequestInPieces, SendBlock, SendEnds, ReadFails, Seal,
         Sends, Types
<1>5. fault'[d] = fault[d]
  BY DEF Client, Validate, Connect, First, FirstEmpty, Rest, RestEnds, Check,
         Worker, Cut, Request, RequestInPieces, SendBlock, SendEnds, ReadFails, Seal,
         Fails, Types
<1> QED
  BY <1>1, <1>2, <1>3, <1>4, <1>5

LEMMA WrittenType ==
  ASSUME NEW f \in Seq(Byte), NEW p \in Nat, NEW s \in Seq(Byte)
  PROVE  Written(f, p, s) \in Seq(Byte)
<1> DEFINE m == Max({Len(f), p + Len(s)})
           u == Written(f, p, s)
<1>1. m \in {Len(f), p + Len(s)} /\ m \in Nat
  BY MaxOfTwo
<1>2. u = [i \in 1 .. m |-> IF i \in p + 1 .. p + Len(s) THEN s[i - p]
                            ELSE IF i <= Len(f) THEN f[i] ELSE 0]
  BY DEF Written
<1>3. 0 \in Byte
  BY BaseFacts DEF Byte
<1> HIDE DEF m, u
<1>4. ASSUME NEW i \in 1 .. m PROVE u[i] \in Byte
  <2>1. CASE i \in p + 1 .. p + Len(s)
    <3>1. i - p \in 1 .. Len(s)
      BY <2>1
    <3> QED
      BY <1>2, <2>1, <3>1
  <2>2. CASE i \notin p + 1 .. p + Len(s)
    BY <1>1, <1>2, <1>3, <2>2
  <2> QED
    BY <2>1, <2>2
<1>5. u \in [1 .. m -> Byte]
  BY <1>2, <1>4
<1> QED
  BY <1>1, <1>5 DEF u

LEMMA PartType ==
  ASSUME NEW s \in Seq(Byte), NEW a \in Nat, NEW b \in Nat, a >= 1, b <= Len(s)
  PROVE  SubSeq(s, a, b) \in Seq(Byte)
OBVIOUS

\* One client's wire is changed, if any.
LEMMA WireType ==
  ASSUME TypeOK, NEW c \in Clients, NEW w \in Seq(Byte),
         wire' = [wire EXCEPT ![c] = w]
  PROVE  wire' \in [Clients -> Seq(Byte)] /\ wire'[c] = w
BY DEF TypeOK

\* It remains to show what a step does to the client and to the file.
LEMMA TInvOf ==
  ASSUME TInv, Types', NEW c \in Clients, Client(c) \/ Worker(c) \/ Cut(c),
         server' \in {"C", "Java"}, dir' \in Seq(Byte), wire' \in [Clients -> Seq(Byte)],
         source'[c] # NoFile => off'[c] <= Len(source'[c]), Tidy(c)'
  PROVE  TInv'
<1>1. \A d \in Clients : d # c =>
           /\ pc'[d] = pc[d] /\ worker'[d] = worker[d] /\ source'[d] = source[d]
           /\ off'[d] = off[d] /\ wire'[d] = wire[d] /\ fault'[d] = fault[d]
  BY OneStep, TypesFollow DEF TInv
<1>2. ASSUME NEW d \in Clients
      PROVE  Tidy(d)' /\ (source'[d] # NoFile => off'[d] <= Len(source'[d]))
  <2>1. CASE d = c
    BY <2>1
  <2>2. CASE d # c
    BY <1>1, <2>2 DEF TInv, TypeOK, Tidy, NoFile
  <2> QED
    BY <2>1, <2>2
<1>3. emptied' \in BOOLEAN
  <2>1. emptied \in BOOLEAN
    BY DEF TInv, TypeOK
  <2>2. CASE First(c)
    <3>1. emptied' = (emptied \/ Opened(c) # dir)
      BY <2>2 DEF First
    <3> QED
      BY <3>1
  <2>3. CASE ~First(c)
    <3>1. emptied' = emptied
      BY <2>3, Zenon DEF Client, Validate, Connect, FirstEmpty, Rest, RestEnds, Check,
           Worker, Cut, Request, RequestInPieces, SendBlock, SendEnds, ReadFails, Seal,
           clientVars
    <3> QED
      BY <2>1, <3>1
  <2> QED
    BY <2>2, <2>3
<1>4. TypeOK'
  <2>1. \A d \in Clients : source'[d] # NoFile => off'[d] <= Len(source'[d])
    BY <1>2
  <2> QED
    BY <1>3, <2>1, Zenon DEF Types, TypeOK
<1> QED
  BY <1>2, <1>4 DEF TInv

\* A piece is read and stored in a file.
LEMMA ReadTypes ==
  ASSUME TypeOK, NEW c \in Clients, NEW n \in Pieces(c), Read(c, n),
         NEW f \in Seq(Byte), NEW p \in Nat
  PROVE  /\ wire' \in [Clients -> Seq(Byte)] /\ wire[c] # <<>>
         /\ Written(f, p, SubSeq(wire[c], 1, n)) \in Seq(Byte)
<1>1. n \in Nat /\ n > 0 /\ n <= Len(wire[c]) /\ wire[c] \in Seq(Byte)
  BY PieceSize DEF TypeOK
<1>2. SubSeq(wire[c], 1, n) \in Seq(Byte)
  BY <1>1, PartType
<1>3. SubSeq(wire[c], n + 1, Len(wire[c])) \in Seq(Byte)
  BY <1>1
<1>4. wire' = [wire EXCEPT ![c] = SubSeq(wire[c], n + 1, Len(wire[c]))]
  BY DEF Read
<1>5. wire' \in [Clients -> Seq(Byte)]
  BY <1>3, <1>4, WireType
<1>6. Written(f, p, SubSeq(wire[c], 1, n)) \in Seq(Byte)
  BY <1>2, WrittenType
<1> QED
  BY <1>1, <1>5, <1>6

LEMMA TInvClient ==
  ASSUME TInv, NEW c \in Clients, Client(c) PROVE TInv'
<1>1. Types /\ Types' /\ TypeOK /\ Tidy(c)
  BY TypesFollow, ClientTypes DEF TInv
<1>2. UNCHANGED <<server, source, off>> /\ server' \in {"C", "Java"}
      /\ (source'[c] # NoFile => off'[c] <= Len(source'[c]))
  <2>1. UNCHANGED <<server, source, off>>
    BY DEF Client, Validate, Connect, First, FirstEmpty, Rest, RestEnds, Check,
           constant, workerVars
  <2> QED
    BY <1>1, <2>1 DEF TypeOK, NoFile
<1>3. dir' \in Seq(Byte) /\ wire' \in [Clients -> Seq(Byte)] /\ Tidy(c)'
  <2>1. CASE First(c)
    <3>1. PICK n \in Pieces(c) :
            Read(c, n) /\ dir' = Written(Opened(c), 0, SubSeq(wire[c], 1, n))
      BY <2>1 DEF First
    <3>2. Opened(c) \in Seq(Byte)
      BY <1>1 DEF Opened, TypeOK
    <3>3. wire' \in [Clients -> Seq(Byte)] /\ wire[c] # <<>> /\ dir' \in Seq(Byte)
      BY <1>1, <3>1, <3>2, ReadTypes
    <3>4. pc'[c] = "rest" /\ worker' = worker
      BY <1>1, <2>1 DEF First, Goto, workerVars, Types
    <3> QED
      BY <1>1, <1>2, <3>3, <3>4 DEF Tidy
  <2>2. CASE Rest(c)
    <3>1. PICK n \in Pieces(c) :
            Read(c, n) /\ dir' = Written(dir, got[c], SubSeq(wire[c], 1, n))
      BY <2>2 DEF Rest
    <3>2. dir \in Seq(Byte) /\ got[c] \in Nat
      BY <1>1 DEF TypeOK
    <3>3. PICK f, g : f = dir /\ g = got[c]
      OBVIOUS
    <3>4. wire' \in [Clients -> Seq(Byte)] /\ wire[c] # <<>>
          /\ Written(f, g, SubSeq(wire[c], 1, n)) \in Seq(Byte)
      BY <1>1, <3>1, <3>2, <3>3, ReadTypes
    <3>5. pc'[c] = "rest" /\ worker' = worker
      BY <2>2 DEF Rest, workerVars
    <3> QED
      BY <1>1, <1>2, <3>1, <3>3, <3>4, <3>5 DEF Tidy
  <2>3. CASE Validate(c) \/ Connect(c) \/ FirstEmpty(c) \/ RestEnds(c) \/ Check(c)
    <3>1. dir' \in Seq(Byte) /\ wire' \in [Clients -> Seq(Byte)] /\ wire' = wire
      BY <1>1, <2>3 DEF Validate, Connect, FirstEmpty, RestEnds, Check, TypeOK
    <3>2. CASE Validate(c)
      BY <1>1, <1>2, <3>1, <3>2 DEF Validate, workerVars, Tidy
    <3>3. CASE Connect(c)
      <4>1. worker[c] = "none" /\ worker'[c] = "request" /\ pc'[c] = "first"
        BY <1>1, <3>3 DEF Connect, Goto, Tidy, Types
      <4> QED
        BY <1>1, <1>2, <3>1, <4>1 DEF Tidy
    <3>4. CASE FirstEmpty(c) \/ RestEnds(c) \/ Check(c)
      <4>1. worker' = worker
        BY <3>4 DEF FirstEmpty, RestEnds, Check, workerVars
      <4>2. \E l \in {"nofile", "failed", "check", "reported", "mismatch"} : Goto(c, l)
        BY <3>4 DEF FirstEmpty, RestEnds, Check
      <4>3. pc'[c] \notin {"start", "connect", "exists"}
        BY <1>1, <4>2 DEF Goto, Types
      <4> QED
        BY <1>1, <1>2, <3>1, <4>1, <4>3 DEF Tidy
    <3> QED
      BY <2>3, <3>1, <3>2, <3>3, <3>4
  <2> QED
    BY <2>1, <2>2, <2>3 DEF Client
<1> QED
  BY <1>1, <1>2, <1>3, TInvOf

LEMMA TInvWorker ==
  ASSUME TInv, NEW c \in Clients, Worker(c) \/ Cut(c) PROVE TInv'
<1>1. Types /\ Types' /\ TypeOK /\ Tidy(c)
  BY TypesFollow, WorkerTypes DEF TInv
<1>2. dir' \in Seq(Byte) /\ pc'[c] = pc[c] /\ server' \in {"C", "Java"}
  BY <1>1 DEF Worker, Cut, Request, RequestInPieces, SendBlock, SendEnds, ReadFails, Seal,
              constant, clientVars, TypeOK
<1> DEFINE Safe == source'[c] # NoFile => off'[c] <= Len(source'[c])
<1>3. pc[c] \in {"start", "connect", "exists"} => worker[c] = "none"
  BY <1>1 DEF Tidy
<1>4. off[c] \in Nat /\ wire[c] \in Seq(Byte) /\ source[c] \in Files
      /\ (source[c] # NoFile => source[c] \in Seq(Byte) /\ off[c] <= Len(source[c]))
  BY <1>1 DEF TypeOK, Files
<1>5. wire' \in [Clients -> Seq(Byte)] /\ Safe /\ Tidy(c)'
  <2>1. CASE Request(c) \/ RequestInPieces(c)
    <3>1. worker[c] = "request" /\ UNCHANGED <<off, wire>>
          /\ \E f \in {content, other, NoFile} : Opens(c, f)
      BY <2>1 DEF Request, RequestInPieces
    <3>2. PICK f \in {content, other, NoFile} : Opens(c, f)
      BY <3>1
    <3>3. source'[c] = f /\ worker'[c] = IF f = NoFile THEN "eof" ELSE "send"
      BY <1>1, <3>2 DEF Opens, Types
    <3>4. off'[c] = 0 /\ f \in Files
      BY <1>1, <3>1, TransferAssumption DEF Tidy, TypeOK, Files
    <3>5. Safe
      BY <3>3, <3>4 DEF Files
    <3>6. wire' \in [Clients -> Seq(Byte)]
      BY <1>1, <3>1 DEF TypeOK
    <3> HIDE DEF Safe
    <3> QED
      BY <1>2, <1>3, <3>1, <3>3, <3>5, <3>6 DEF Tidy
  <2>2. CASE SendBlock(c)
    <3>1. PICK n :
            /\ n = Min({BLOCKSIZE, Len(source[c]) - off[c]})
            /\ Sends(c, SubSeq(source[c], off[c] + 1, off[c] + n))
            /\ off' = [off EXCEPT ![c] = @ + n]
      BY <2>2 DEF SendBlock
    <3>2. worker[c] = "send" /\ off[c] < Len(source[c]) /\ UNCHANGED <<worker, source>>
      BY <2>2 DEF SendBlock
    <3>3. n \in Nat /\ off[c] + n <= Len(source[c])
      BY <1>1, <3>1, <3>2, BlockSize
    <3>4. source[c] # NoFile
      BY <1>1, <3>2 DEF Tidy
    <3>5. off'[c] = off[c] + n
      BY <1>1, <3>1 DEF Types
    <3>6. SubSeq(source[c], off[c] + 1, off[c] + n) \in Seq(Byte)
      BY <1>4, <3>3, <3>4, PartType
    <3>7. wire[c] \o SubSeq(source[c], off[c] + 1, off[c] + n) \in Seq(Byte)
      BY <1>4, <3>6
    <3>8. wire' = [wire EXCEPT ![c] = wire[c] \o SubSeq(source[c], off[c] + 1, off[c] + n)]
      BY <3>1 DEF Sends
    <3>9. wire' \in [Clients -> Seq(Byte)]
      BY <1>1, <3>7, <3>8, WireType
    <3>10. Safe
      BY <3>2, <3>3, <3>5
    <3> HIDE DEF Safe
    <3> QED
      BY <1>2, <1>3, <3>2, <3>4, <3>9, <3>10 DEF Tidy
  <2>3. CASE Seal(c)
    <3>1. /\ worker[c] = "seal" /\ UNCHANGED <<source, off>>
          /\ Sends(c, BigEndian(Sum(SubSeq(source[c], 1, off[c]))))
          /\ worker'[c] = "eof"
      BY <1>1, <2>3 DEF Seal, AfterSeal, Types
    <3>2. source[c] # NoFile
      BY <1>1, <3>1 DEF Tidy
    <3>3. SubSeq(source[c], 1, off[c]) \in Seq(Byte)
      BY <1>4, <3>2, PartType
    <3>4. BigEndian(Sum(SubSeq(source[c], 1, off[c]))) \in Seq(Byte)
      BY <3>3, SumFacts, TrailerFacts
    <3>5. wire[c] \o BigEndian(Sum(SubSeq(source[c], 1, off[c]))) \in Seq(Byte)
      BY <1>4, <3>4
    <3>6. wire' = [wire EXCEPT ![c] = wire[c] \o BigEndian(Sum(SubSeq(source[c], 1, off[c])))]
      BY <3>1 DEF Sends
    <3>7. wire' \in [Clients -> Seq(Byte)]
      BY <1>1, <3>5, <3>6, WireType
    <3>8. Safe
      BY <1>4, <3>1
    <3> HIDE DEF Safe
    <3> QED
      BY <1>2, <1>3, <3>1, <3>7, <3>8 DEF Tidy
  <2>4. CASE SendEnds(c) \/ ReadFails(c)
    <3>1. /\ worker[c] = "send" /\ worker'[c] \in {"seal", "eof"}
          /\ UNCHANGED <<source, off, wire>>
      BY <1>1, <2>4 DEF SendEnds, ReadFails, Types
    <3>2. wire' \in [Clients -> Seq(Byte)] /\ Safe
      BY <1>1, <1>4, <3>1 DEF TypeOK
    <3> HIDE DEF Safe
    <3> QED
      BY <1>1, <1>2, <1>3, <3>1, <3>2 DEF Tidy
  <2>5. CASE Cut(c)
    <3>1. /\ worker[c] \in {"request", "send", "seal"} /\ worker'[c] \in {"eof", "reset"}
          /\ UNCHANGED <<source, off>>
          /\ wire' = wire \/ wire' = [wire EXCEPT ![c] = <<>>]
      BY <1>1, <2>5 DEF Cut, Types
    <3>2. <<>> \in Seq(Byte)
      OBVIOUS
    <3>3. wire' \in [Clients -> Seq(Byte)]
      BY <1>1, <3>1, <3>2, WireType DEF TypeOK
    <3>4. Safe
      BY <1>4, <3>1
    <3> HIDE DEF Safe
    <3> QED
      BY <1>2, <1>3, <3>1, <3>3, <3>4 DEF Tidy
  <2> QED
    BY <2>1, <2>2, <2>3, <2>4, <2>5 DEF Worker
<1> QED
  BY <1>1, <1>2, <1>5, TInvOf

\* A fault is there to stay.
LEMMA FaultStays ==
  ASSUME Types, NEW c \in Clients, Client(c) \/ Worker(c) \/ Cut(c), NEW d \in Clients
  PROVE  fault[d] # "none" => fault'[d] # "none"
<1>1. CASE fault' = fault
  BY <1>1
<1>2. ASSUME NEW kind \in {"cut", "misled"}, Fails(c, kind)
      PROVE  fault[d] # "none" => fault'[d] # "none"
  BY <1>2 DEF Fails, Types
<1> QED
  BY <1>1, <1>2 DEF Client, Validate, Connect, First, FirstEmpty, Rest, RestEnds, Check,
       Worker, Cut, Request, RequestInPieces, SendBlock, SendEnds, ReadFails, Seal

\* It remains to show that the client of the step is blamed on something.
LEMMA BlamedOf ==
  ASSUME Types, NEW c \in Clients, Client(c) \/ Worker(c) \/ Cut(c),
         \A d \in Clients : Blamed(d), Blamed(c)'
  PROVE  \A d \in Clients : Blamed(d)'
<1> SUFFICES ASSUME NEW d \in Clients, d # c PROVE Blamed(d)'
  OBVIOUS
<1>1. pc'[d] = pc[d] /\ worker'[d] = worker[d] /\ wire'[d] = wire[d]
  BY OneStep
<1>2. fault[d] # "none" => fault'[d] # "none"
  BY FaultStays
<1>3. (Misled => Misled') /\ (emptied => emptied')
  BY Spoiled
<1>4. content' = content
  BY DEF Client, Validate, Connect, First, FirstEmpty, Rest, RestEnds, Check, Worker, Cut,
         Request, RequestInPieces, SendBlock, SendEnds, ReadFails, Seal, constant
<1>5. Blamed(d)
  OBVIOUS
<1> HIDE DEF Misled
<1> QED
  BY <1>1, <1>2, <1>3, <1>4, <1>5 DEF Blamed

\* A client that has all that was sent finds that it matches.
LEMMA CheckBlamed ==
  ASSUME IInv, TypeOK, NEW c \in Clients, Check(c), fault[c] = "none", ~Misled, ~emptied
  PROVE  pc'[c] # "mismatch"
<1>1. Types /\ Good
  BY DEF IInv
<1>2. /\ got[c] > 0 /\ got[c] <= Len(dir) /\ wire[c] = <<>> /\ worker[c] \in {"eof", "reset"}
      /\ got[c] \in Nat /\ Stream(c)
  BY <1>1 DEF Check, Good, Stored, Types
<1>3. content # NoFile /\ got[c] + Len(wire[c]) = Len(Whole)
  BY <1>2 DEF Stream, Blank
<1>4. StandsAt(dir, 0)
  BY <1>1, <1>3 DEF Good
<1>5. /\ Whole \in Seq(Value) /\ content \in Seq(Byte) /\ Len(Whole) = Len(content) + Width
      /\ Len(content) \in Nat
  BY <1>1, <1>3, WholeFacts DEF Types
<1>6. dir = Whole
  <2>1. Len(dir) = Len(Whole)
    <3>1. Len(dir) \in Nat /\ Len(dir) <= Len(Whole) /\ Len(Whole) \in Nat
      BY <1>4, <1>5, BaseFacts DEF StandsAt
    <3>2. Len(wire[c]) = 0
      BY <1>2
    <3> QED
      BY <1>2, <1>3, <3>1, <3>2
  <2> QED
    BY <1>4, <1>5, <2>1, AllOfIt
<1>7. Verdicts(dir) = {TRUE}
  BY <1>5, <1>6, SealedMatches DEF Whole
<1>8. ~(Len(dir) < Width)
  BY <1>5, <1>6, BaseFacts
<1>9. Goto(c, "reported")
  BY <1>7, <1>8 DEF Check
<1> QED
  BY <1>1, <1>9 DEF Goto, Types

LEMMA BlamedClient ==
  ASSUME IInv, TInv, NEW c \in Clients, Client(c), Blamed(c) PROVE Blamed(c)'
<1>1. Types /\ TypeOK /\ Tidy(c)
  BY TypesFollow DEF TInv
<1>2. UNCHANGED <<content, fault>>
  BY DEF Client, Validate, Connect, First, FirstEmpty, Rest, RestEnds, Check, constant
<1>3. (Misled => Misled') /\ (emptied => emptied')
  BY <1>1, Spoiled
<1>4. \/ worker' = worker
      \/ pc[c] = "connect" /\ worker'[c] = "request"
  BY <1>1 DEF Client, Validate, Connect, First, FirstEmpty, Rest, RestEnds, Check,
              workerVars, Types
<1>5. worker'[c] = "reset" => fault'[c] # "none"
  BY <1>2, <1>4 DEF Blamed
<1>6. CASE Validate(c)
  <2>1. pc'[c] \in {"connect", "exists"}
    BY <1>1, <1>6 DEF Validate, Goto, Types
  <2> QED
    BY <1>5, <2>1 DEF Blamed
<1>7. CASE Connect(c)
  <2>1. pc'[c] = "first" /\ worker'[c] = "request"
    BY <1>1, <1>7 DEF Connect, Goto, Types
  <2> QED
    BY <2>1 DEF Blamed
<1>8. CASE First(c) \/ Rest(c)
  <2>1. pc'[c] = "rest"
    BY <1>1, <1>8 DEF First, Rest, Goto, Types
  <2> QED
    BY <1>5, <2>1 DEF Blamed
<1>9. CASE FirstEmpty(c)
  <2>1. pc'[c] = "nofile" /\ (fault[c] # "none" \/ content = NoFile)
    BY <1>1, <1>9 DEF FirstEmpty, Goto, Types, Blamed
  <2> QED
    BY <1>2, <1>5, <2>1 DEF Blamed
<1>10. CASE RestEnds(c)
  <2>1. pc'[c] = "check" \/ (pc'[c] = "failed" /\ worker[c] = "reset")
    BY <1>1, <1>10 DEF RestEnds, Goto, Types
  <2>2. pc'[c] = "failed" => fault'[c] # "none"
    BY <1>2, <2>1 DEF Blamed
  <2> QED
    BY <1>5, <2>1, <2>2 DEF Blamed
<1>11. CASE Check(c)
  <2>1. pc'[c] \in {"reported", "mismatch"}
    <3>1. \E l \in {"reported", "mismatch"} : Goto(c, l)
      BY <1>11 DEF Check
    <3> QED
      BY <1>1, <3>1 DEF Goto, Types
  <2>2. pc'[c] = "mismatch" => fault[c] # "none" \/ Misled \/ emptied
    BY <1>1, <1>11, CheckBlamed
  <2> HIDE DEF Misled
  <2> QED
    BY <1>2, <1>3, <1>5, <2>1, <2>2 DEF Blamed
<1> QED
  BY <1>6, <1>7, <1>8, <1>9, <1>10, <1>11 DEF Client

LEMMA BlamedWorker ==
  ASSUME TInv, NEW c \in Clients, Worker(c) \/ Cut(c), Blamed(c) PROVE Blamed(c)'
<1>1. Types /\ TypeOK /\ Tidy(c)
  BY TypesFollow DEF TInv
<1>2. UNCHANGED <<content, pc>>
  BY DEF Worker, Cut, Request, RequestInPieces, SendBlock, SendEnds, ReadFails, Seal,
         constant, clientVars
<1>3. (Misled => Misled') /\ (emptied => emptied')
  BY <1>1, Spoiled
<1>4. fault[c] # "none" => fault'[c] # "none"
  BY <1>1, FaultStays
<1>5. \/ fault'[c] # "none"
      \/ worker'[c] \notin {"reset", "eof"}
      \/ content = NoFile /\ worker'[c] # "reset"
      \/ worker'[c] = "eof" /\ wire'[c] # <<>>
  <2>1. CASE Request(c)
    BY <1>1, <2>1 DEF Request, Opens, Types
  <2>2. CASE RequestInPieces(c)
    BY <1>1, <2>2, Faults DEF RequestInPieces
  <2>3. CASE SendBlock(c) \/ SendEnds(c)
    BY <1>1, <2>3 DEF SendBlock, SendEnds, Types
  <2>4. CASE ReadFails(c)
    BY <1>1, <2>4, Faults DEF ReadFails
  <2>5. CASE Cut(c)
    BY <1>1, <2>5, Faults DEF Cut
  <2>6. CASE Seal(c)
    <3> DEFINE s == SubSeq(source[c], 1, off[c])
               t == BigEndian(Sum(s))
    <3>1. /\ worker[c] = "seal" /\ worker'[c] = "eof" /\ wire'[c] = wire[c] \o t
      BY <1>1, <2>6 DEF Seal, Sends, AfterSeal, TypeOK
    <3>2. source[c] # NoFile
      BY <1>1, <3>1 DEF Tidy
    <3>3. source[c] \in Seq(Byte) /\ off[c] \in Nat /\ off[c] <= Len(source[c])
          /\ wire[c] \in Seq(Byte)
      BY <1>1, <3>2 DEF TypeOK, Files
    <3>4. s \in Seq(Byte)
      BY <3>3, PartType
    <3> HIDE DEF s
    <3>5. t \in Seq(Byte) /\ Len(t) = Width
      BY <3>4, SumFacts, TrailerFacts
    <3> HIDE DEF t
    <3>6. wire[c] \o t # <<>>
      BY <3>3, <3>5, BaseFacts
    <3> QED
      BY <3>1, <3>6
  <2> QED
    BY <2>1, <2>2, <2>3, <2>4, <2>5, <2>6 DEF Worker
<1> HIDE DEF Misled
<1> QED
  BY <1>2, <1>3, <1>4, <1>5 DEF Blamed

LEMMA FInvInit == Init => FInv
<1> SUFFICES ASSUME Init PROVE FInv
  OBVIOUS
<1>1. TypeOK
  <2>1. emptied \in BOOLEAN
    BY Zenon DEF Init
  <2>2. /\ dir \in Seq(Byte) /\ wire \in [Clients -> Seq(Byte)]
        /\ got \in [Clients -> Nat] /\ off \in [Clients -> Nat]
        /\ source \in [Clients -> Files]
        /\ \A c \in Clients : source[c] = NoFile
    BY DEF Init, Files, NoFile
  <2>3. /\ pc \in [Clients -> {"start", "connect", "check"} \cup Waiting \cup Ended]
        /\ worker \in [Clients -> {"none", "request", "send", "seal", "eof", "reset"}]
        /\ fault \in [Clients -> {"none", "cut", "misled"}]
    BY DEF Init
  <2>4. /\ server \in {"C", "Java"} /\ program \in [Clients -> {"C", "Java"}]
        /\ content \in Contents /\ other \in Others
    BY DEF Init
  <2> QED
    BY <2>1, <2>2, <2>3, <2>4, Zenon DEF TypeOK
<1>2. \A c \in Clients : Tidy(c) /\ Blamed(c)
  BY DEF Init, Tidy, Blamed
<1> QED
  BY <1>1, <1>2, InitGood DEF FInv, TInv

LEMMA FInvStep == FInv /\ [Next]_vars => FInv'
<1> SUFFICES ASSUME FInv, [Next]_vars PROVE FInv'
  OBVIOUS
<1>1. IInv'
  BY StepGood DEF FInv
<1>2. CASE UNCHANGED vars
  <2>1. TypeOK' /\ \A c \in Clients : Tidy(c)' /\ Blamed(c)'
    BY <1>2 DEF FInv, TInv, TypeOK, Tidy, Blamed, Misled, vars
  <2> QED
    BY <1>1, <2>1 DEF FInv, TInv
<1>3. ASSUME NEW c \in Clients, Client(c) \/ Worker(c) \/ Cut(c) PROVE FInv'
  <2>1. TInv'
    BY <1>3, TInvClient, TInvWorker DEF FInv
  <2>2. Blamed(c)'
    BY <1>3, BlamedClient, BlamedWorker DEF FInv
  <2>3. Types /\ \A d \in Clients : Blamed(d)
    BY TypesFollow DEF FInv, TInv
  <2>4. \A d \in Clients : Blamed(d)'
    BY <1>3, <2>2, <2>3, BlamedOf
  <2> QED
    BY <1>1, <2>1, <2>4 DEF FInv
<1> QED
  BY <1>2, <1>3 DEF Next

\* The invariants hold of every behaviour of server and clients.
THEOREM FInvAlways == Spec => []FInv
BY FInvInit, FInvStep, PTL DEF Spec

\* What comes, what is stored and what is sent are bytes, and a worker never
\* reads past its file, whichever file it was misled to (fileserver.c:225-325,
\* fileclient.c:240-383).
THEOREM TypeOKAlways == Spec => []TypeOK
<1>1. FInv => TypeOK
  BY DEF FInv, TInv
<1> QED
  BY <1>1, FInvAlways, PTL

\* A client fails only when something has failed: its connection was cut, there
\* is no file, or what is stored was not sent or was emptied.  Without that the
\* sum of the file matches its trailer, for every file
\* (fileclient.c:153-203, 240-383).
THEOREM FailNeedsFaultAlways == Spec => []FailNeedsFault
<1>1. FInv => FailNeedsFault
  BY DEF FInv, Blamed, FailNeedsFault
<1> QED
  BY <1>1, FInvAlways, PTL
=============================================================================
