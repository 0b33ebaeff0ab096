-------------------------- MODULE GapSearchProofs --------------------------
(***************************************************************************)
(* The sieve of GapSearch loses no prime and leaves no multiple of a small *)
(* prime, for every segment size, prime table and hash.  The invariant     *)
(* says that the position kept for a prime is its first multiple in the    *)
(* next segment and that a bucket entry is a multiple.  The search for     *)
(* gaps on top of it misses none but those that end beyond the sieve and   *)
(* those two short of the size that is looked for: what was tested so far  *)
(* of an interval is exactly its primes, and the last one is remembered.   *)
(***************************************************************************)
EXTENDS GapSearch, WellFoundedInduction, TLAPS

USE SMTT(30)

-----------------------------------------------------------------------------
(* Arithmetic *)

\* Division with remainder.
LEMMA Remainder ==
  ASSUME NEW x \in Int, NEW p \in Nat, p > 0
  PROVE  /\ x \div p \in Int /\ x % p \in 0 .. p - 1
         /\ x % p = x - p * (x \div p)
<1>1. x \div p \in Int /\ x % p \in 0 .. p - 1
  OBVIOUS
<1>2. x % p = x - p * (x \div p)
  BY Z3T(30)
<1>3. QED BY <1>1, <1>2, Zenon

\* A multiple that is smaller than the divisor is zero.
LEMMA SmallMultiple ==
  ASSUME NEW p \in Nat, NEW q \in Int, p * q < p, p * q > -p
  PROVE  q = 0
<1>1. CASE q >= 1
  <2>1. p * q >= p BY <1>1
  <2>2. QED BY <2>1
<1>2. CASE q <= -1
  <2>1. p * q <= -p BY <1>2
  <2>2. QED BY <2>1
<1>3. QED BY <1>1, <1>2

\* Being a multiple, with and without %.
LEMMA Divides ==
  ASSUME NEW x \in Int, NEW p \in Nat, p > 0
  PROVE  (x % p = 0) <=> (\E q \in Int : x = p * q)
<1>1. ASSUME x % p = 0 PROVE \E q \in Int : x = p * q
  <2>1. x = p * (x \div p) /\ x \div p \in Int
    <3>1. PICK d \in Int, r \in 0 .. p - 1 : d = x \div p /\ r = x % p
      BY Remainder
    <3>2. r = x - p * d
      BY <3>1, Remainder
    <3>3. PICK m \in Int : m = p * d
      OBVIOUS
    <3>4. x = m
      BY <1>1, <3>1, <3>2, <3>3
    <3>5. QED BY <3>1, <3>3, <3>4
  <2>2. QED BY <2>1
<1>2. ASSUME NEW q \in Int, x = p * q PROVE x % p = 0
  <2>1. PICK d \in Int, r \in 0 .. p - 1 : d = x \div p /\ r = x % p
    BY Remainder
  <2>2. r = x - p * d
    BY <2>1, Remainder
  <2>3. PICK e \in Int : e = q - d
    OBVIOUS
  <2>4. p * e = p * q - p * d
    BY <2>3
  <2>5. r = p * e
    BY <1>2, <2>2, <2>4
  <2>6. e = 0
    <3>1. p * e < p /\ p * e > -p
      BY <2>5
    <3>2. QED BY <3>1, SmallMultiple
  <2>7. QED BY <2>1, <2>5, <2>6
<1>3. QED BY <1>1, <1>2, Zenon

\* An odd number divides the double of a number only if it divides the number.
LEMMA HalfMultiple ==
  ASSUME NEW m \in Int, NEW p \in Nat, p > 0, p % 2 = 1, (2 * m) % p = 0
  PROVE  m % p = 0
<1>1. PICK q \in Int : 2 * m = p * q
  BY Divides
<1>2. PICK u \in Nat : p = 2 * u + 1
  <2>1. p = 2 * (p \div 2) + 1 /\ p \div 2 \in Nat
    OBVIOUS
  <2>2. QED BY <2>1
<1>3. p * q = 2 * (u * q) + q
  BY <1>2
<1>4. PICK v \in Int : v = u * q
  OBVIOUS
<1>5. q = 2 * (m - v) /\ m - v \in Int
  BY <1>1, <1>3, <1>4
<1>6. p * q = 2 * (p * (m - v))
  BY <1>5
<1>7. m = p * (m - v)
  <2>1. PICK w \in Int : w = p * (m - v)
    BY <1>5
  <2>2. QED BY <1>1, <1>6, <2>1
<1>8. QED BY <1>5, <1>7, Divides, Zenon

\* Numbers that differ by a multiple of p are both multiples or both not.
LEMMA SameResidue ==
  ASSUME NEW x \in Int, NEW j \in Int, NEW p \in Nat, p > 0
  PROVE  (x % p = 0) <=> ((x + p * j) % p = 0)
<1>1. ASSUME x % p = 0 PROVE (x + p * j) % p = 0
  <2>1. PICK q \in Int : x = p * q
    BY <1>1, Divides
  <2>2. x + p * j = p * (q + j)
    BY <2>1
  <2>3. PICK y \in Int : y = x + p * j
    OBVIOUS
  <2>4. q + j \in Int /\ y = p * (q + j)
    BY <2>2, <2>3
  <2>5. y % p = 0
    BY <2>4, Divides
  <2>6. QED BY <2>3, <2>5
<1>2. ASSUME (x + p * j) % p = 0 PROVE x % p = 0
  <2>1. PICK q \in Int : x + p * j = p * q
    <3>1. PICK y \in Int : y = x + p * j
      OBVIOUS
    <3>2. QED BY <1>2, <3>1, Divides
  <2>2. x = p * (q - j)
    <3>1. PICK a \in Int, b \in Int : a = p * q /\ b = p * j
      OBVIOUS
    <3>2. p * (q - j) = p * q - p * j
      OBVIOUS
    <3>3. QED BY <2>1, <3>1, <3>2
  <2>3. QED BY <2>2, Divides
<1>3. QED BY <1>1, <1>2

-----------------------------------------------------------------------------
(* Positions *)

\* The number that bit b of segment s of the interval that starts at n stands
\* for is a multiple of p.
Hit(n, s, b, p) == (n + Offset(s, b)) % p = 0

LEMMA OffsetType ==
  ASSUME NEW s \in Nat, NEW b \in Int
  PROVE  Offset(s, b) = 2 * (s * Seg) + 2 * b + 1 /\ Offset(s, b) \in Int /\ s * Seg \in Nat
<1>1. Seg \in Nat
  BY SieveAssumption
<1>2. s * Seg \in Nat
  BY <1>1
<1>3. PICK m \in Nat : m = s * Seg
  BY <1>2
<1>4. QED BY <1>3 DEF Offset

\* calc_starts() finds the first odd multiple after the start.
LEMMA CalcStartHits ==
  ASSUME NEW h \in Nat, NEW p \in Nat, p > 1, Odd(p)
  PROVE  /\ CalcStart(h, p) \in 0 .. p - 1
         /\ Hit(Start(h), 0, CalcStart(h, p), p)
<1>1. PICK n \in Nat : n = Start(h)
  BY SieveAssumption DEF Start
<1>2. PICK d \in Int, r \in 0 .. p - 1 : r = n % p /\ r = n - p * d
  BY Remainder
<1>3. PICK o \in 0 .. p - 1 : o = IF r = 0 THEN 0 ELSE p - r
  OBVIOUS
<1>4. PICK e \in Int : n + o = p * e
  <2>1. CASE r = 0
    BY <2>1, <1>2, <1>3
  <2>2. CASE r # 0
    <3>1. n + o = p * d + p
      BY <1>2, <1>3, <2>2
    <3>2. p * (d + 1) = p * d + p
      OBVIOUS
    <3>3. n + o = p * (d + 1) /\ d + 1 \in Int
      BY <3>1, <3>2
    <3>4. QED BY <3>3
  <2>3. QED BY <2>1, <2>2
<1>5. PICK a \in Nat : a = IF Odd(o) THEN o ELSE o + p
  OBVIOUS
<1>6. a % 2 = 1 /\ a < 2 * p
  BY <1>3, <1>5 DEF Odd
<1>7. PICK f \in Int : n + a = p * f
  <2>1. CASE Odd(o)
    BY <2>1, <1>4, <1>5, Zenon
  <2>2. CASE ~Odd(o)
    <3>1. n + a = p * e + p
      BY <2>2, <1>4, <1>5
    <3>2. p * (e + 1) = p * e + p
      OBVIOUS
    <3>3. n + a = p * (e + 1) /\ e + 1 \in Int
      BY <3>1, <3>2
    <3>4. QED BY <3>3
  <2>3. QED BY <2>1, <2>2
<1>8. PICK c \in Nat : c = a \div 2
  OBVIOUS
<1>9. 2 * c + 1 = a /\ c < p
  BY <1>6, <1>8
<1>10. CalcStart(h, p) = c
  BY <1>1, <1>2, <1>3, <1>5, <1>8, Zenon DEF CalcStart
<1>11. Offset(0, c) = a
  BY <1>9, SieveAssumption DEF Offset
<1>12. (n + a) % p = 0
  <2>1. PICK y \in Int : y = n + a
    OBVIOUS
  <2>2. y = p * f
    BY <1>7, <2>1
  <2>3. y % p = 0
    BY <2>2, Divides
  <2>4. QED BY <2>1, <2>3
<1>13. QED BY <1>1, <1>9, <1>10, <1>11, <1>12 DEF Hit

\* The position the sieve loop leaves behind, relative to the next segment, is
\* a multiple again and lies below the prime.
LEMMA NextStartHits ==
  ASSUME NEW n \in Nat, NEW s \in Nat, NEW p \in Nat, p > 1,
         NEW pos \in 0 .. p - 1, Hit(n, s, pos, p)
  PROVE  /\ NextStart(pos, p) \in 0 .. p - 1
         /\ Hit(n, s + 1, NextStart(pos, p), p)
<1>0. Seg \in Nat /\ Seg > 0
  BY SieveAssumption
<1>1. PICK np \in Int, j \in Int : /\ np = NextStart(pos, p)
                                   /\ np \in 0 .. p - 1
                                   /\ np + Seg = pos + p * j
  <2>1. CASE pos >= Seg
    <3>1. NextStart(pos, p) = pos - Seg
      BY <2>1 DEF NextStart
    <3>2. pos - Seg \in 0 .. p - 1 /\ p * 0 = 0
      BY <1>0, <2>1
    <3>3. (pos - Seg) + Seg = pos + p * 0
      BY <1>0, <3>2
    <3>4. QED BY <1>0, <3>1, <3>2, <3>3
  <2>2. CASE pos < Seg
    <3>1. PICK y \in Nat : y = Seg - 1 - pos
      BY <1>0, <2>2
    <3>2. PICK t \in Int, r \in 0 .. p - 1 : t = y \div p /\ r = y - p * t
      BY Remainder
    <3>3. NextStart(pos, p) = pos + (t + 1) * p - Seg
      <4>1. ~(pos >= Seg)
        BY <1>0, <2>2
      <4>2. NextStart(pos, p) = pos + ((Seg - 1 - pos) \div p + 1) * p - Seg
        BY <4>1 DEF NextStart
      <4>3. QED BY <4>2, <3>1, <3>2
    <3>4. PICK m \in Int : m = p * t
      OBVIOUS
    <3>5. (t + 1) * p = m + p /\ p * (t + 1) = m + p
      BY <3>4
    <3>6. pos + (m + p) - Seg \in 0 .. p - 1
      BY <1>0, <3>1, <3>2, <3>4
    <3>7. NextStart(pos, p) = pos + (m + p) - Seg
      BY <3>3, <3>5
    <3>8. NextStart(pos, p) + Seg = pos + p * (t + 1)
      BY <1>0, <3>7, <3>5
    <3>9. t + 1 \in Int /\ NextStart(pos, p) \in Int /\ NextStart(pos, p) \in 0 .. p - 1
      BY <3>6, <3>7
    <3>10. QED BY <3>8, <3>9, Zenon
  <2>3. QED BY <1>0, <2>1, <2>2
<1>2. PICK m \in Nat : m = s * Seg /\ (s + 1) * Seg = m + Seg
  BY <1>0
<1>3. Offset(s, pos) = 2 * m + 2 * pos + 1
  BY <1>2 DEF Offset
<1>4. Offset(s + 1, np) = 2 * (m + Seg) + 2 * np + 1
  BY <1>0, <1>2 DEF Offset
<1>5. PICK x \in Int : x = n + Offset(s, pos)
  BY <1>3
<1>6. PICK i \in Int : i = 2 * j
  OBVIOUS
<1>7. p * i = 2 * (p * j)
  BY <1>6
<1>8. n + Offset(s + 1, np) = x + p * i
  <2>1. PICK w \in Int : w = p * j
    OBVIOUS
  <2>2. np + Seg = pos + w /\ p * i = 2 * w
    BY <1>1, <1>7, <2>1
  <2>3. x + p * i = n + (2 * m + 2 * pos + 1) + 2 * w
    BY <1>3, <1>5, <2>2
  <2>4. n + Offset(s + 1, np) = n + (2 * (m + Seg) + 2 * np + 1)
    BY <1>4
  <2>5. 2 * (m + Seg) + 2 * np + 1 = (2 * m + 2 * pos + 1) + 2 * w
    BY <1>0, <2>2
  <2>6. QED BY <1>0, <2>3, <2>4, <2>5
<1>9. x % p = 0
  BY <1>5 DEF Hit
<1>10. (x + p * i) % p = 0
  BY <1>9, SameResidue
<1>11. QED BY <1>1, <1>8, <1>10 DEF Hit

\* Every bit the loop strikes out stands for a multiple of the prime.
LEMMA StruckHits ==
  ASSUME NEW n \in Nat, NEW s \in Nat, NEW p \in Nat, p > 1,
         NEW pos \in 0 .. p - 1, Hit(n, s, pos, p), NEW b \in Struck(pos, p)
  PROVE  Hit(n, s, b, p)
<1>0. Seg \in Nat /\ Seg > 0
  BY SieveAssumption
<1>1. b \in Int /\ b - pos \in Int /\ (b - pos) % p = 0
  BY <1>0 DEF Struck, Bits
<1>2. PICK j \in Int : b - pos = p * j
  BY <1>1, Divides
<1>3. PICK i \in Int : i = 2 * j
  OBVIOUS
<1>4. p * i = 2 * (p * j)
  BY <1>3
<1>5. PICK m \in Nat : m = s * Seg
  BY <1>0
<1>6. PICK x \in Int : x = n + Offset(s, pos)
  BY <1>5 DEF Offset
<1>7. n + Offset(s, b) = x + p * i
  <2>1. PICK w \in Int : w = p * j
    OBVIOUS
  <2>2. b - pos = w /\ p * i = 2 * w
    BY <1>2, <1>4, <2>1
  <2>3. Offset(s, pos) = 2 * (m + pos) + 1 /\ Offset(s, b) = 2 * (m + b) + 1
    BY <1>5 DEF Offset
  <2>4. n + (2 * (m + b) + 1) = (n + (2 * (m + pos) + 1)) + 2 * w
    BY <1>1, <2>2
  <2>5. QED BY <1>6, <2>2, <2>3, <2>4
<1>8. (x + p * i) % p = 0
  BY <1>6, SameResidue DEF Hit
<1>9. QED BY <1>7, <1>8 DEF Hit

\* And every bit that stands for a multiple is struck out: the prime is odd, so
\* its odd multiples are 2 * p apart, which is p bits.
LEMMA HitsStruck ==
  ASSUME NEW n \in Nat, NEW s \in Nat, NEW p \in Nat, p > 1, Odd(p),
         NEW pos \in 0 .. p - 1, Hit(n, s, pos, p),
         NEW b \in Bits, Hit(n, s, b, p)
  PROVE  b \in Struck(pos, p)
<1>0. Seg \in Nat /\ Seg > 0
  BY SieveAssumption
<1>1. PICK m \in Nat : m = s * Seg
  BY <1>0
<1>2. b \in Nat /\ b - pos \in Int
  BY <1>0 DEF Bits
<1>3. PICK x \in Int, y \in Int : x = n + Offset(s, pos) /\ y = n + Offset(s, b)
  BY <1>1, <1>2 DEF Offset
<1>4. y - x = 2 * (b - pos)
  BY <1>1, <1>2, <1>3 DEF Offset
<1>5. PICK q \in Int, r \in Int : x = p * q /\ y = p * r
  <2>1. x % p = 0 /\ y % p = 0
    BY <1>3 DEF Hit
  <2>2. \E q \in Int : x = p * q
    BY <2>1, Divides
  <2>3. \E r \in Int : y = p * r
    BY <2>1, Divides
  <2>4. QED BY <2>2, <2>3
<1>6. PICK u \in Int : u = r - q
  OBVIOUS
<1>7. p * u = p * r - p * q
  BY <1>6
<1>8. PICK d \in Int, w \in Int : d = b - pos /\ w = 2 * d
  BY <1>2
<1>9. w = p * u
  BY <1>4, <1>5, <1>7, <1>8
<1>10. d % p = 0
  <2>1. w % p = 0
    BY <1>9, Divides
  <2>2. (2 * d) % p = 0 /\ p % 2 = 1
    BY <1>8, <2>1 DEF Odd
  <2>3. QED BY <2>2, HalfMultiple
<1>11. PICK v \in Int : d = p * v
  BY <1>10, Divides
<1>12. d >= 0
  <2>1. SUFFICES ASSUME d < 0 PROVE FALSE
    OBVIOUS
  <2>2. d > -p
    BY <1>2, <1>8
  <2>3. v = 0
    BY <1>11, <2>1, <2>2, SmallMultiple
  <2>4. QED BY <1>11, <2>1, <2>3
<1>13. b >= pos
  BY <1>2, <1>8, <1>12
<1>14. QED BY <1>8, <1>10, <1>13 DEF Struck

-----------------------------------------------------------------------------
(* Types *)

\* A non-empty set of natural numbers has a smallest element, a bounded one a
\* largest.
LEMMA Smallest ==
  ASSUME NEW T, T \subseteq Nat, T # {}
  PROVE  \E x \in T : \A y \in T : x <= y
<1>1. PICK x \in T : \A y \in T : ~(<<y, x>> \in OpToRel(<, Nat))
  BY WFMin, NatLessThanWellFounded, Zenon
<1>2. \A y \in T : ~(y < x)
  BY <1>1, Zenon DEF OpToRel
<1>3. QED BY <1>2

LEMMA Largest ==
  ASSUME NEW N \in Nat, NEW T, T \subseteq 0 .. N, T # {}
  PROVE  \E x \in T : \A y \in T : y <= x
<1>1. {N - x : x \in T} \subseteq Nat /\ {N - x : x \in T} # {}
  <2>1. PICK t \in T : TRUE
    BY Zenon
  <2>2. N - t \in {N - x : x \in T}
    OBVIOUS
  <2>3. \A x \in T : N - x \in Nat
    OBVIOUS
  <2>4. QED BY <2>2, <2>3
<1>2. PICK z \in {N - x : x \in T} : \A y \in {N - x : x \in T} : z <= y
  BY <1>1, Smallest, Zenon
<1>3. PICK x \in T : z = N - x
  BY <1>2
<1>4. \A y \in T : N - x <= N - y
  BY <1>2, <1>3, Zenon
<1>5. QED BY <1>4

LEMMA SegmentCount == TotalSegments \in Nat
<1>1. Seg \in Nat /\ Seg > 0 /\ SieveCap \in Nat /\ Range \in Nat
  BY SieveAssumption
<1>2. PICK c \in Nat : c = IF Range \div 2 < SieveCap THEN Range \div 2 ELSE SieveCap
  BY <1>1
<1>3. PICK d \in Nat : d = (c + Seg - 1) \div Seg
  BY <1>1
<1>4. TotalSize = d * Seg
  BY <1>2, <1>3 DEF TotalSize, RoundUp
<1>5. PICK t \in Nat : t = d * Seg
  BY <1>1
<1>6. t \div Seg \in Nat
  BY <1>1, <1>5
<1>7. QED BY <1>4, <1>5, <1>6 DEF TotalSegments

LEMMA PrimeTypes ==
  /\ \A p \in SievePrimes : p \in Nat /\ p > 1 /\ Odd(p)
  /\ SmallPrimes \subseteq SievePrimes /\ LargePrimes \subseteq SievePrimes
  /\ \A p \in LargePrimes : p > Seg
  /\ Seg \in Nat /\ Seg > 0
  BY PrimeAssumption, SieveAssumption DEF SmallPrimes, LargePrimes

\* The primes of a segment have a last one.
LEMMA LastExists ==
  ASSUME TypeOK, current_segment > 0, NEW i \in Intervals, PrimesIn(i) # {}
  PROVE  /\ \E a \in PrimesIn(i) : \A b \in PrimesIn(i) : b <= a
         /\ PrimesIn(i) \subseteq Nat
<1>1. PICK s \in Nat : s = current_segment - 1
  BY SegmentCount DEF TypeOK
<1>2. PICK m \in Nat : m = s * Seg
  BY PrimeTypes
<1>3. \A b \in Bits : Offset(s, b) \in 0 .. 2 * (m + Seg) + 1
  BY <1>2, PrimeTypes DEF Bits, Offset
<1>4. PrimesIn(i) \subseteq 0 .. 2 * (m + Seg) + 1
  BY <1>1, <1>3 DEF PrimesIn, Candidates
<1>5. 2 * (m + Seg) + 1 \in Nat
  BY PrimeTypes
<1>6. QED BY <1>4, <1>5, Largest

LEMMA NewLastType ==
  ASSUME TypeOK, current_segment > 0, NEW i \in Intervals
  PROVE  NewLast(i) \in Nat
<1>1. CASE PrimesIn(i) = {}
  BY <1>1 DEF NewLast, TypeOK
<1>2. CASE PrimesIn(i) # {}
  <2>1. NewLast(i) \in PrimesIn(i)
    BY <1>2, LastExists, Zenon DEF NewLast
  <2>2. QED BY <1>2, <2>1, LastExists
<1>3. QED BY <1>1, <1>2

-----------------------------------------------------------------------------
(* The inductive invariant *)

\* The position kept for a small prime is that of a multiple in the segment
\* that is sieved next, as are the bits of the bucket; the positions of the
\* large primes count from the first segment and are used after it.
PositionsHit ==
  /\ \A i \in active : \A p \in SmallPrimes :
       Hit(Start(hash[i]), current_segment, starts[i][p], p)
  /\ current_segment = 0 =>
       \A i \in active : \A p \in LargePrimes :
         Hit(Start(hash[i]), 0, starts[i][p], p)
  /\ \A e \in bucket : e[1] \in active /\ Hit(Start(hash[e[1]]), current_segment, e[3], e[2])

\* Every bit struck out in the segment being scanned is a multiple.
OnlyMultiples ==
  Scanning =>
    \A i \in active : \A b \in segment[i] :
      \E p \in SievePrimes : Hit(Start(hash[i]), current_segment - 1, b, p)

SieveInv ==
  /\ TypeOK
  /\ \A i \in active : hash[i] >= MinHash
  /\ pc = "scan" => current_segment > 0
  /\ PositionsHit /\ OnlyMultiples /\ NoSmallMultiple

LEMMA InitSieve == Init => SieveInv
<1> SUFFICES ASSUME Init PROVE SieveInv
  OBVIOUS
<1>1. TypeOK
  <2>1. 0 \in Intervals
    BY SieveAssumption DEF Intervals
  <2>2. \A i \in Intervals : \A p \in SievePrimes : starts[i][p] < p
    BY PrimeTypes DEF Init
  <2>3. current_segment \in 0 .. TotalSegments
    BY SegmentCount DEF Init
  <2>4. QED BY <2>1, <2>2, <2>3 DEF TypeOK, Init
<1>2. QED BY <1>1 DEF Init, SieveInv, PositionsHit, OnlyMultiples, NoSmallMultiple, Scanning

\* An entry that process_buckets_combined() carries over.
LEMMA CarriedHits ==
  ASSUME SieveInv, NEW e \in Carried
  PROVE  /\ e \in Intervals \X LargePrimes \X Bits
         /\ e[1] \in active /\ Hit(Start(hash[e[1]]), current_segment + 1, e[3], e[2])
<1>1. PICK f \in bucket : /\ e = <<f[1], f[2], f[3] + f[2] - Seg>>
                          /\ f[1] \in active
                          /\ f[3] + f[2] >= Seg /\ f[3] + f[2] < 2 * Seg
  BY DEF Carried
<1>2. f[1] \in Intervals /\ f[2] \in LargePrimes /\ f[3] \in Bits
  BY DEF SieveInv, TypeOK
<1>3. PICK p \in Nat, b \in Nat : p = f[2] /\ b = f[3] /\ p > 1
  BY <1>2, PrimeTypes DEF Bits
<1>4. PICK c \in Int : c = b + p - Seg
  BY PrimeTypes
<1>5. c \in Bits
  BY <1>1, <1>3, <1>4, PrimeTypes DEF Bits
<1>6. PICK s \in Nat : s = current_segment
  BY SegmentCount DEF SieveInv, TypeOK
<1>7. PICK n \in Nat : n = Start(hash[f[1]])
  BY <1>2, SieveAssumption DEF SieveInv, TypeOK, Start
<1>8. PICK m \in Nat : m = s * Seg /\ (s + 1) * Seg = m + Seg
  BY PrimeTypes
<1>9. PICK x \in Int : x = n + Offset(s, b)
  BY <1>8 DEF Offset
<1>10. n + Offset(s + 1, c) = x + p * 2
  <2>1. Offset(s, b) = 2 * (m + b) + 1 /\ Offset(s + 1, c) = 2 * ((m + Seg) + c) + 1
    BY <1>8 DEF Offset
  <2>2. QED BY <1>4, <1>9, <2>1, PrimeTypes
<1>11. x % p = 0
  BY <1>3, <1>6, <1>7, <1>9, Zenon DEF SieveInv, PositionsHit, Hit
<1>12. (x + p * 2) % p = 0
  BY <1>3, <1>11, SameResidue
<1>13. Hit(n, s + 1, c, p)
  BY <1>10, <1>12 DEF Hit
<1>14. e = <<f[1], p, c>>
  BY <1>1, <1>3, <1>4
<1>15. QED BY <1>1, <1>2, <1>3, <1>5, <1>6, <1>7, <1>13, <1>14

\* An entry that advance_buckets() makes after the first segment.
LEMMA FirstBucketHits ==
  ASSUME SieveInv, current_segment = 0, NEW e \in FirstBucket
  PROVE  /\ e \in Intervals \X LargePrimes \X Bits
         /\ e[1] \in active /\ Hit(Start(hash[e[1]]), current_segment + 1, e[3], e[2])
<1>1. \A i \in active : \A p \in LargePrimes :
        /\ i \in Intervals /\ p \in Nat /\ p > Seg
        /\ starts[i][p] \in Nat /\ starts[i][p] < p
  BY PrimeTypes DEF SieveInv, TypeOK
<1>2. \A i \in active : \A p \in LargePrimes : (starts[i][p] + p) \div Seg # 0
  <2> TAKE i \in active
  <2> TAKE p \in LargePrimes
  <2>1. PICK y \in Nat : y = starts[i][p] + p /\ y > Seg
    BY <1>1, PrimeTypes
  <2>2. PICK d \in Int, r \in 0 .. Seg - 1 : d = y \div Seg /\ r = y - Seg * d
    BY Remainder, PrimeTypes
  <2>3. d # 0
    BY <2>1, <2>2, PrimeTypes
  <2>4. QED BY <2>1, <2>2, <2>3
<1>3. PICK ip \in active \X LargePrimes :
        starts[ip[1]][ip[2]] \div Seg = 1 /\ e = <<ip[1], ip[2], starts[ip[1]][ip[2]] % Seg>>
  BY <1>2, Zenon DEF FirstBucket
<1>4. PICK i \in active, p \in LargePrimes : i = ip[1] /\ p = ip[2]
  OBVIOUS
<1>5. PICK q \in Nat : q = starts[i][p]
  BY <1>1
<1>6. PICK b \in 0 .. Seg - 1 : b = q % Seg /\ b = q - Seg
  <2>1. PICK d \in Int, r \in 0 .. Seg - 1 : d = q \div Seg /\ r = q % Seg /\ r = q - Seg * d
    BY Remainder, PrimeTypes
  <2>2. d = 1
    BY <1>3, <1>4, <1>5, <2>1, Zenon
  <2>3. r = q - Seg
    BY <2>1, <2>2, PrimeTypes
  <2>4. QED BY <2>1, <2>3
<1>7. PICK n \in Nat : n = Start(hash[i])
  BY <1>1, SieveAssumption DEF SieveInv, TypeOK, Start
<1>8. Hit(n, 0, q, p)
  BY <1>5, <1>7 DEF SieveInv, PositionsHit
<1>9. Offset(1, b) = Offset(0, q)
  BY <1>6, PrimeTypes DEF Offset
<1>10. Hit(n, 1, b, p)
  BY <1>8, <1>9 DEF Hit
<1>11. e = <<i, p, b>>
  BY <1>3, <1>4, <1>5, <1>6, Zenon
<1>12. QED BY <1>1, <1>6, <1>7, <1>10, <1>11 DEF Bits

-----------------------------------------------------------------------------
(* Steps *)

LEMMA NewBatchSieve ==
  ASSUME SieveInv, NewBatch PROVE SieveInv'
<1>1. PICK h \in [Intervals -> Hashes] :
        /\ hash' = h
        /\ active' = {i \in Intervals : h[i] >= MinHash}
        /\ starts' = [i \in Intervals |->
                        IF h[i] >= MinHash
                        THEN [p \in SievePrimes |-> CalcStart(h[i], p)]
                        ELSE starts[i]]
        /\ pc' = IF active' = {} THEN "batch" ELSE "sieve"
  BY Zenon DEF NewBatch
<1>2. h \in [Intervals -> Nat]
  BY SieveAssumption, Zenon
<1>3. \A i \in Intervals : \A p \in SievePrimes :
        /\ CalcStart(h[i], p) \in Nat /\ CalcStart(h[i], p) < p
        /\ Hit(Start(h[i]), 0, CalcStart(h[i], p), p)
  <2> TAKE i \in Intervals
  <2> TAKE p \in SievePrimes
  <2>1. h[i] \in Nat /\ p \in Nat /\ p > 1 /\ Odd(p)
    BY <1>2, PrimeTypes
  <2>2. CalcStart(h[i], p) \in 0 .. p - 1 /\ Hit(Start(h[i]), 0, CalcStart(h[i], p), p)
    BY <2>1, CalcStartHits
  <2>3. QED BY <2>1, <2>2
<1>4. starts' \in [Intervals -> [SievePrimes -> Nat]]
  BY <1>1, <1>3 DEF SieveInv, TypeOK
<1>5. \A i \in Intervals : \A p \in SievePrimes : starts'[i][p] < p
  BY <1>1, <1>3 DEF SieveInv, TypeOK
<1>6. TypeOK'
  <2>1. 0 \in Intervals /\ 0 \in 0 .. TotalSegments
    BY SieveAssumption, SegmentCount DEF Intervals
  <2>2. pc' \in {"batch", "sieve"} /\ active' \subseteq Intervals /\ hash' \in [Intervals -> Nat]
    BY <1>1, <1>2
  <2>3. bucket' = {} /\ current_segment' = 0 /\ k' = 0 /\ segment' = segment
    BY DEF NewBatch
  <2>4. last_prime' \in [Intervals -> Nat]
    BY DEF NewBatch
  <2>5. QED BY <1>4, <1>5, <2>1, <2>2, <2>3, <2>4 DEF SieveInv, TypeOK
<1>7. \A i \in active' : hash'[i] >= MinHash
  BY <1>1
<1>8. pc' # "scan"
  BY <1>1
<1>9. PositionsHit'
  <2>1. \A i \in active' : \A p \in SievePrimes : Hit(Start(hash'[i]), 0, starts'[i][p], p)
    BY <1>1, <1>3
  <2>2. bucket' = {} /\ current_segment' = 0
    BY DEF NewBatch
  <2>3. QED BY <2>1, <2>2, PrimeTypes, Zenon DEF PositionsHit
<1>10. OnlyMultiples' /\ NoSmallMultiple'
  BY <1>8 DEF OnlyMultiples, NoSmallMultiple, Scanning
<1>11. QED BY <1>6, <1>7, <1>8, <1>9, <1>10 DEF SieveInv

LEMMA SieveStep ==
  ASSUME SieveInv, SieveNextSegment PROVE SieveInv'
<1> DEFINE s == current_segment
<1>1. s \in Nat /\ s' = s + 1 /\ s < TotalSegments /\ s + 1 - 1 = s
  BY SegmentCount DEF SieveInv, TypeOK, SieveNextSegment
<1>2. \A i \in active : /\ i \in Intervals /\ hash[i] \in Nat /\ Start(hash[i]) \in Nat
  BY SieveAssumption DEF SieveInv, TypeOK, Start
<1>3. \A i \in active : \A p \in SmallPrimes :
        /\ p \in SievePrimes /\ p \in Nat /\ p > 1 /\ Odd(p)
        /\ starts[i][p] \in 0 .. p - 1 /\ Hit(Start(hash[i]), s, starts[i][p], p)
  BY <1>2, PrimeTypes DEF SieveInv, TypeOK, PositionsHit
<1>4. \A i \in active : \A p \in SmallPrimes :
        /\ NextStart(starts[i][p], p) \in 0 .. p - 1
        /\ Hit(Start(hash[i]), s + 1, NextStart(starts[i][p], p), p)
  BY <1>1, <1>2, <1>3, NextStartHits, Zenon
<1>5. starts' = [i \in Intervals |-> [p \in SievePrimes |->
                  IF i \in active /\ p \in SmallPrimes
                  THEN NextStart(starts[i][p], p) ELSE starts[i][p]]]
  BY DEF SieveNextSegment
<1>6. \A i \in Intervals : \A p \in SievePrimes : starts'[i][p] \in Nat /\ starts'[i][p] < p
  <2> TAKE i \in Intervals
  <2> TAKE p \in SievePrimes
  <2>1. p \in Nat
    BY PrimeTypes
  <2>2. CASE i \in active /\ p \in SmallPrimes
    BY <1>4, <1>5, <2>1, <2>2
  <2>3. CASE ~(i \in active /\ p \in SmallPrimes)
    BY <1>5, <2>3 DEF SieveInv, TypeOK
  <2>4. QED BY <2>2, <2>3
<1>7. \A e \in bucket' : /\ e \in Intervals \X LargePrimes \X Bits
                         /\ e[1] \in active /\ Hit(Start(hash[e[1]]), s + 1, e[3], e[2])
  <2>1. bucket' \subseteq Carried \cup (IF s = 0 THEN FirstBucket ELSE {})
    BY Zenon DEF SieveNextSegment
  <2>2. QED BY <2>1, CarriedHits, FirstBucketHits
<1>8. segment' = [i \in Intervals |->
                    IF i \in active THEN SmallHits(i) \cup BucketHits(i) ELSE segment[i]]
  BY Zenon DEF SieveNextSegment
<1>9. \A i \in active : \A p \in SmallPrimes : Struck(starts[i][p], p) \subseteq SmallHits(i)
  BY DEF SmallHits
<1>10. \A i \in active : SmallHits(i) \subseteq Bits /\ BucketHits(i) \subseteq Bits
  BY DEF SmallHits, BucketHits, Struck
<1>11. pc' = "scan" /\ k' = 0 /\ hash' = hash /\ active' = active /\ last_prime' = last_prime
  BY DEF SieveNextSegment
<1>12. TypeOK'
  <2>1. starts' \in [Intervals -> [SievePrimes -> Nat]]
    BY <1>5, <1>6
  <2>2. segment' \in [Intervals -> SUBSET Bits]
    BY <1>8, <1>10 DEF SieveInv, TypeOK
  <2>3. current_segment' \in 0 .. TotalSegments
    BY <1>1, SegmentCount
  <2>4. bucket' \subseteq Intervals \X LargePrimes \X Bits
    BY <1>7
  <2>5. k' \in Intervals
    BY <1>11, SieveAssumption DEF Intervals
  <2>6. QED BY <1>6, <1>11, <2>1, <2>2, <2>3, <2>4, <2>5 DEF SieveInv, TypeOK
<1>13. PositionsHit'
  <2>1. \A i \in active : \A p \in SmallPrimes : Hit(Start(hash[i]), s + 1, starts'[i][p], p)
    BY <1>2, <1>3, <1>4, <1>5, Zenon
  <2>2. s' # 0
    BY <1>1
  <2>3. QED BY <1>1, <1>7, <1>11, <2>1, <2>2, Zenon DEF PositionsHit
<1>14. OnlyMultiples'
  <2>1. SUFFICES ASSUME NEW i \in active, NEW b \in segment'[i]
                 PROVE  \E p \in SievePrimes : Hit(Start(hash[i]), s, b, p)
    BY <1>1, <1>11 DEF OnlyMultiples
  <2>2. b \in SmallHits(i) \/ b \in BucketHits(i)
    BY <1>2, <1>8
  <2>3. CASE b \in SmallHits(i)
    <3>1. PICK p \in SmallPrimes : b \in Struck(starts[i][p], p)
      BY <2>3 DEF SmallHits
    <3>2. Hit(Start(hash[i]), s, b, p)
      BY <1>1, <1>2, <1>3, <3>1, StruckHits, Zenon
    <3>3. QED BY <1>3, <3>2, Zenon
  <2>4. CASE b \in BucketHits(i)
    <3>1. PICK e \in bucket : e[1] = i /\ e[3] = b
      BY <2>4 DEF BucketHits
    <3>2. Hit(Start(hash[i]), s, b, e[2])
      BY <3>1, Zenon DEF SieveInv, PositionsHit
    <3>3. e[2] \in SievePrimes
      BY PrimeTypes, Zenon DEF SieveInv, TypeOK
    <3>4. QED BY <3>2, <3>3, Zenon
  <2>5. QED BY <2>2, <2>3, <2>4, Zenon
<1>15. NoSmallMultiple'
  <2>1. SUFFICES ASSUME NEW i \in active, NEW p \in SmallPrimes, NEW b \in Bits,
                        Hit(Start(hash[i]), s, b, p)
                 PROVE  b \in segment'[i]
    BY <1>1, <1>11 DEF NoSmallMultiple, Hit
  <2>2. b \in Struck(starts[i][p], p)
    BY <1>1, <1>2, <1>3, <2>1, HitsStruck, Zenon
  <2>3. QED BY <1>2, <1>8, <1>9, <2>2, Zenon
<1>16. QED BY <1>1, <1>11, <1>12, <1>13, <1>14, <1>15 DEF SieveInv

\* Steps that leave the sieve alone.
LEMMA QuietSieve ==
  ASSUME SieveInv, UNCHANGED <<hash, active, starts, bucket, segment, current_segment>>,
         pc' \in {"sieve", "scan", "done", "found"}, pc' = "scan" => pc = "scan",
         k' \in Intervals, last_prime' \in [Intervals -> Nat]
  PROVE  SieveInv'
<1>1. TypeOK'
  BY DEF SieveInv, TypeOK
<1>2. PositionsHit'
  BY Zenon DEF SieveInv, PositionsHit
<1>3. OnlyMultiples' /\ NoSmallMultiple'
  BY DEF SieveInv, OnlyMultiples, NoSmallMultiple, Scanning
<1>4. QED BY <1>1, <1>2, <1>3 DEF SieveInv

LEMMA NextSieve == SieveInv /\ [Next]_vars => SieveInv'
<1> SUFFICES ASSUME SieveInv, [Next]_vars PROVE SieveInv'
  OBVIOUS
<1>0. k \in Intervals /\ (k + 1 < Batch => k + 1 \in Intervals) /\ 0 \in Intervals
  BY SieveAssumption DEF SieveInv, TypeOK, Intervals
<1>1. CASE NewBatch
  BY <1>1, NewBatchSieve
<1>2. CASE SieveNextSegment
  BY <1>2, SieveStep
<1>3. CASE EndBatch
  <2>1. last_prime' \in [Intervals -> Nat]
    BY <1>3 DEF EndBatch, SieveInv, TypeOK
  <2>2. QED BY <1>0, <1>3, <2>1, QuietSieve DEF EndBatch
<1>4. CASE Scan
  <2>1. current_segment > 0
    BY <1>4 DEF Scan, SieveInv
  <2>2. NewLast(k) \in Nat
    BY <1>0, <2>1, NewLastType DEF SieveInv
  <2>3. last_prime' \in [Intervals -> Nat]
    BY <1>4, <2>2 DEF Scan, SieveInv, TypeOK
  <2>4. pc' \in {"scan", "sieve"} /\ k' \in Intervals
    BY <1>0, <1>4 DEF Scan, NextInterval
  <2>5. QED BY <1>4, <2>3, <2>4, QuietSieve, Zenon DEF Scan
<1>5. CASE SkipInterval
  <2>1. last_prime' \in [Intervals -> Nat]
    BY <1>5 DEF SkipInterval, SieveInv, TypeOK
  <2>2. pc' \in {"scan", "sieve"} /\ k' \in Intervals
    BY <1>0, <1>5 DEF SkipInterval, NextInterval
  <2>3. QED BY <1>5, <2>1, <2>2, QuietSieve DEF SkipInterval
<1>6. CASE ScanUntilAccepted
  <2>1. last_prime' \in [Intervals -> Nat]
    BY <1>6, Zenon DEF ScanUntilAccepted, SieveInv, TypeOK
  <2>2. QED BY <1>0, <1>6, <2>1, QuietSieve DEF ScanUntilAccepted
<1>7. CASE UNCHANGED vars
  BY <1>7, Zenon DEF vars, SieveInv, TypeOK, PositionsHit, OnlyMultiples, NoSmallMultiple, Scanning
<1>8. QED BY <1>1, <1>2, <1>3, <1>4, <1>5, <1>6, <1>7 DEF Next

-----------------------------------------------------------------------------
(* Theorems *)

LEMMA SieveInvariant == Spec => []SieveInv
  BY InitSieve, NextSieve, PTL DEF Spec

\* Positions and bucket bits stay in their ranges, for every segment size and
\* prime table: nothing is written outside a segment.
THEOREM SieveTypes == Spec => []TypeOK
<1>1. SieveInv => TypeOK
  BY DEF SieveInv
<1>2. QED BY <1>1, SieveInvariant, PTL

\* sieve_small_primes_combined() never skips a multiple of a small prime.
THEOREM SmallPrimesComplete == Spec => []NoSmallMultiple
<1>1. SieveInv => NoSmallMultiple
  BY DEF SieveInv
<1>2. QED BY <1>1, SieveInvariant, PTL

\* A prime is a multiple of nothing that is sieved with.
LEMMA PrimeNotHit ==
  ASSUME NEW n \in Nat, n >= MinHash * Range, NEW s \in Nat, NEW b \in Bits,
         n + Offset(s, b) \in Primes, NEW p \in Nat, p > 1, p <= MinHash * Range
  PROVE  (n + Offset(s, b)) % p # 0
<1>1. PICK m \in Nat : m = s * Seg
  BY PrimeTypes
<1>2. PICK c \in Nat : c = MinHash * Range
  BY SieveAssumption
<1>3. PICK x \in Nat : x = n + Offset(s, b) /\ x > n
  BY <1>1, PrimeTypes DEF Offset, Bits
<1>4. p \in 2 .. x - 1
  BY <1>2, <1>3
<1>5. x \in Primes /\ \A d \in 2 .. x - 1 : x % d # 0
  BY <1>3, PrimeAssumption
<1>6. QED BY <1>3, <1>4, <1>5

\* The bits that are struck out leave the primes alone.
LEMMA SieveKeepsPrimes == SieveInv => NoPrimeLost
<1> SUFFICES ASSUME SieveInv, Scanning, NEW i \in active, NEW b \in Bits,
                    Start(hash[i]) + Offset(current_segment - 1, b) \in Primes
             PROVE  Offset(current_segment - 1, b) \in Candidates(i)
  BY DEF NoPrimeLost
<1>1. PICK s \in Nat : s = current_segment - 1
  BY SegmentCount DEF SieveInv, TypeOK, Scanning
<1>2. PICK n \in Nat : n = Start(hash[i]) /\ n >= MinHash * Range
  <2>1. PICK h \in Nat : h = hash[i] /\ h >= MinHash
    BY DEF SieveInv, TypeOK
  <2>2. h * Range \in Nat /\ h * Range >= MinHash * Range
    BY <2>1, SieveAssumption
  <2>3. QED BY <2>1, <2>2 DEF Start
<1>3. n + Offset(s, b) \in Primes
  BY <1>1, <1>2
<1>4. \A p \in SievePrimes \cup WheelPrimes : (n + Offset(s, b)) % p # 0
  BY <1>2, <1>3, PrimeNotHit, PrimeAssumption, Zenon
<1>5. b \notin segment[i]
  BY <1>1, <1>2, <1>4, Zenon DEF SieveInv, OnlyMultiples, Hit
<1>6. QED BY <1>1, <1>2, <1>4, <1>5 DEF Candidates

\* No prime is lost by the combined sieve, for every batch, segment size,
\* prime table and hash.
THEOREM PrimesSurvive == Spec => []NoPrimeLost
  BY SieveKeepsPrimes, SieveInvariant, PTL

\* What PoW::valid() lets through, CheckProofOfWork() accepts.
LEMMA ValidAccepted ==
  ASSUME NEW h \in Nat, NEW add \in Nat, Valid(h, add)
  PROVE  CheckProofOfWork(h, add, Target)
<1>1. EndPoints(h, add)
  BY FixedPointAssumption DEF Valid, PowDifficulty
<1>2. Difficulty(Start(h) + add, NextPrime(Start(h) + add)) >= Target
  BY <1>1 DEF Valid, PowDifficulty
<1>3. QED BY <1>1, <1>2, SieveAssumption, FixedPointAssumption DEF EndPoints, CheckProofOfWork

\* The adders that are tried are natural numbers.
LEMMA ProofsType ==
  ASSUME TypeOK, current_segment > 0, NEW i \in Intervals, NEW a \in Proofs(i)
  PROVE  a \in Nat
<1>1. PICK s \in Nat : s = current_segment - 1
  BY SegmentCount DEF TypeOK
<1>2. PICK m \in Nat : m = s * Seg
  BY PrimeTypes
<1>3. \A b \in Bits : Offset(s, b) \in Nat
  BY <1>2, PrimeTypes DEF Bits, Offset
<1>4. PrimesIn(i) \subseteq Nat
  BY <1>1, <1>3 DEF PrimesIn, Candidates
<1>5. last_prime[i] \in Nat
  BY DEF TypeOK
<1>6. \A ab \in Pairs(i) : ab[1] \in Nat
  BY <1>4, <1>5 DEF Pairs
<1>7. QED BY <1>6 DEF Proofs

\* Every proof the miner reports is one CheckProofOfWork() accepts, wherever
\* the rounded-up sieve found it.
THEOREM ReportsAccepted == Spec => []ReportedAccepted
<1>1. Init => ReportedAccepted
  BY DEF Init, ReportedAccepted
<1>2. SieveInv /\ ReportedAccepted /\ [Next]_vars => ReportedAccepted'
  <2> SUFFICES ASSUME SieveInv, ReportedAccepted, [Next]_vars PROVE ReportedAccepted'
    OBVIOUS
  <2>1. CASE pc = "scan" /\ k \in active
    <3>1. \A a \in Proofs(k) : CheckProofOfWork(hash[k], a, Target)
      <4> TAKE a \in Proofs(k)
      <4>1. k \in Intervals /\ hash[k] \in Nat
        BY DEF SieveInv, TypeOK
      <4>2. a \in Nat
        BY <2>1, <4>1, ProofsType DEF SieveInv
      <4>3. Valid(hash[k], a)
        BY DEF Proofs
      <4>4. QED BY <4>1, <4>2, <4>3, ValidAccepted
    <3>2. reported' \subseteq reported \cup {<<hash[k], a>> : a \in Proofs(k)}
      BY <2>1, Zenon DEF Next, vars, NewBatch, SieveNextSegment, EndBatch, Scan, SkipInterval,
                  ScanUntilAccepted
    <3>3. \A r \in reported' : CheckProofOfWork(r[1], r[2], Target)
      BY <3>1, <3>2 DEF ReportedAccepted
    <3>4. QED BY <3>3 DEF ReportedAccepted
  <2>2. CASE ~(pc = "scan" /\ k \in active)
    <3>1. reported' = reported \/ reported' = {}
      BY <2>2, Zenon DEF Next, vars, NewBatch, SieveNextSegment, EndBatch, Scan, SkipInterval,
                  ScanUntilAccepted
    <3>2. QED BY <3>1 DEF ReportedAccepted
  <2>3. QED BY <2>1, <2>2
<1>3. QED BY <1>1, <1>2, SieveInvariant, PTL DEF Spec

-----------------------------------------------------------------------------
(* The gaps the miner does not look at *)

\* Rounding down: d * (x \div d) does not exceed x.
LEMMA FloorBelow ==
  ASSUME NEW x \in Nat, NEW d \in Nat, d > 0
  PROVE  x \div d \in Nat /\ d * (x \div d) <= x /\ x < d * (x \div d) + d
<1>1. PICK q \in Int, r \in 0 .. d - 1 : q = x \div d /\ r = x - d * q
  BY Remainder
<1>2. PICK m \in Int : m = d * q
  OBVIOUS
<1>3. m <= x /\ x < m + d
  BY <1>1, <1>2
<1>4. x \div d \in Nat
  OBVIOUS
<1>5. QED BY <1>1, <1>2, <1>3, <1>4

LEMMA ModBelow ==
  ASSUME NEW x \in Nat, NEW d \in Nat, d > 0
  PROVE  x % d \in Nat /\ x % d <= x /\ x % d < d
<1>1. PICK q \in Nat, r \in 0 .. d - 1 : q = x \div d /\ r = x % d /\ r = x - d * q
  BY Remainder, FloorBelow
<1>2. PICK m \in Nat : m = d * q
  OBVIOUS
<1>3. QED BY <1>1, <1>2

\* The difficulty of a gap of size g is less than what a gap of g + 2 would
\* have without the random part.
LEMMA DifficultyBound ==
  ASSUME NEW p \in Nat, NEW g \in Nat, Ln(p) \in Nat \ {0}, Rand(p, p + g) \in Nat
  PROVE  /\ Difficulty(p, p + g) \in Nat
         /\ \/ Difficulty(p, p + g) * Ln(p) < (g + 2) * (Unit * Unit)
            \/ Difficulty(p, p + g) * Ln(p) <= g * (Unit * Unit)
<1>1. PICK U \in Nat : U = Unit * Unit
  BY FixedPointAssumption
<1>2. PICK L \in Nat : L = Ln(p) /\ L > 0
  OBVIOUS
<1>3. PICK x \in Nat : x = g * U /\ ((p + g) - p) * Unit * Unit = x
  <2>1. (p + g) - p = g
    OBVIOUS
  <2>2. g * Unit * Unit = g * (Unit * Unit)
    BY FixedPointAssumption
  <2>3. QED BY <1>1, <2>1, <2>2
<1>4. PICK a \in Nat : a = Merit(p, p + g) /\ L * a <= x
  <2>1. PICK f \in Nat : f = x \div L /\ L * f <= x
    BY <1>2, FloorBelow
  <2>2. Merit(p, p + g) = Fit(f)
    BY <1>2, <1>3, <2>1 DEF Merit
  <2>3. Fit(f) = f \/ Fit(f) = 0
    BY DEF Fit
  <2>4. L * 0 <= x
    OBVIOUS
  <2>5. QED BY <2>1, <2>2, <2>3, <2>4
<1>5. PICK f \in Nat : f = (2 * Unit * Unit) \div L /\ L * f <= 2 * U
  <2>1. 2 * Unit * Unit = 2 * U
    BY <1>1, FixedPointAssumption
  <2>2. QED BY <1>2, <2>1, FloorBelow
<1>6. PICK r \in Nat : /\ r = Rand(p, p + g) % AtLeastOne(Fit((2 * Unit * Unit) \div Ln(p)))
                       /\ (r = 0 \/ r + 1 <= f)
  <2>1. PICK e \in Nat : e = AtLeastOne(Fit(f)) /\ e > 0 /\ (e = 1 \/ e = f)
    BY DEF AtLeastOne, Fit
  <2>2. PICK r \in Nat : r = Rand(p, p + g) % e /\ r < e
    BY <2>1, ModBelow
  <2>3. r = 0 \/ r + 1 <= f
    BY <2>1, <2>2
  <2>4. QED BY <1>2, <1>5, <2>1, <2>2, <2>3, Zenon
<1>7. PICK c \in Nat : c = Difficulty(p, p + g) /\ c <= a + r
  <2>1. Difficulty(p, p + g) = (a + r) % Word
    BY <1>4, <1>6, Zenon DEF Difficulty
  <2>2. Word \in Nat /\ Word > 0 /\ a + r \in Nat
    BY FixedPointAssumption
  <2>3. QED BY <2>1, <2>2, ModBelow
<1>8. L * c <= L * a + L * r
  <2>1. L * c <= L * (a + r)
    BY <1>7
  <2>2. QED BY <2>1
<1>9. CASE r = 0
  <2>1. L * c <= x
    <3>1. c <= a
      BY <1>7, <1>9
    <3>2. L * c <= L * a
      BY <3>1
    <3>3. QED BY <1>4, <3>2
  <2>2. c * L = L * c
    OBVIOUS
  <2>3. QED BY <1>1, <1>2, <1>3, <1>7, <2>1, <2>2, Zenon
<1>10. CASE r + 1 <= f
  <2>1. L * (r + 1) <= L * f
    BY <1>10
  <2>2. L * (r + 1) = L * r + L
    OBVIOUS
  <2>3. PICK lc \in Nat, la \in Nat, lr \in Nat, lf \in Nat :
          lc = L * c /\ la = L * a /\ lr = L * r /\ lf = L * f
    OBVIOUS
  <2>4. lc <= la + lr /\ la <= x /\ lr + L <= lf /\ lf <= 2 * U
    BY <1>4, <1>5, <1>8, <2>1, <2>2, <2>3, Zenon
  <2>5. lc < x + 2 * U
    BY <1>2, <2>4
  <2>6. (g + 2) * U = x + 2 * U
    BY <1>3
  <2>7. c * L = lc
    BY <2>3
  <2>8. QED BY <1>1, <1>2, <1>7, <2>5, <2>6, <2>7
<1>11. QED BY <1>6, <1>9, <1>10, Zenon

\* A gap of even size that reaches the target difficulty is at most two short
\* of the size the miner looks for (target_size() of the start of the
\* interval, made even), whatever the random part of the difficulty adds: the
\* gaps the miner skips and consensus would take are these only.
THEOREM NearMiss ==
  ASSUME NEW h \in Nat, NEW p \in Nat, NEW g \in Nat, g % 2 = 0,
         Ln(Start(h)) \in Nat \ {0}, Ln(p) \in Nat \ {0}, Ln(Start(h)) <= Ln(p),
         Rand(p, p + g) \in Nat, Difficulty(p, p + g) >= Target
  PROVE  g + 2 >= MinGap(h)
<1>1. PICK U \in Nat : U = Unit * Unit /\ U > 0
  BY FixedPointAssumption
<1>2. PICK L \in Nat, S \in Nat : L = Ln(p) /\ S = Ln(Start(h)) /\ S <= L
  OBVIOUS
<1>3. PICK c \in Nat : /\ c = Difficulty(p, p + g)
                       /\ (c * L < (g + 2) * U \/ c * L <= g * U)
  BY <1>1, <1>2, DifficultyBound, Zenon
<1>4. PICK y \in Nat : y = (g + 2) * U /\ y = g * U + 2 * U
  OBVIOUS
<1>5. c * L < y
  BY <1>1, <1>3, <1>4
<1>6. Target \in Nat /\ Target <= c
  BY <1>3, FixedPointAssumption, Zenon
<1>7. Target * S <= c * L
  <2>1. Target * S <= c * S
    BY <1>6
  <2>2. c * S <= c * L
    BY <1>2
  <2>3. QED BY <1>6, <2>1, <2>2
<1>8. PICK z \in Nat : z = Target * S /\ z < y
  BY <1>5, <1>6, <1>7
<1>9. PICK f \in Nat : f = z \div U /\ U * f <= z
  BY <1>1, FloorBelow
<1>10. f < g + 2
  <2>1. SUFFICES ASSUME f >= g + 2 PROVE FALSE
    OBVIOUS
  <2>2. U * f >= U * (g + 2)
    BY <2>1
  <2>3. QED BY <1>4, <1>8, <1>9, <2>2
<1>11. PICK t \in Nat : t = TargetSize(Start(h)) /\ t < g + 2
  <2>1. TargetSize(Start(h)) = Fit(f)
    BY <1>1, <1>2, <1>8, <1>9, Zenon DEF TargetSize
  <2>2. Fit(f) = f \/ Fit(f) = 0
    BY Zenon DEF Fit
  <2>3. QED BY <1>10, <2>1, <2>2
<1>12. MinGap(h) = t + (t % 2)
  BY <1>11 DEF MinGap
<1>13. QED BY <1>11, <1>12
-----------------------------------------------------------------------------
(* A batch that was searched to its end *)

\* Segments of interval i whose candidates have been tested.
Scanned(i) == IF pc = "scan" /\ ~(i < k) THEN current_segment - 1 ELSE current_segment

\* The primes among the first n odd numbers after the start.
PrimesTo(h, n) == {o \in 0 .. 2 * n : Odd(o) /\ Start(h) + o \in Primes}

Seen(i) == PrimesTo(hash[i], Scanned(i) * Seg)

\* a and b are neighbours in S.
Neighbours(S, a, b) == a < b /\ \A c \in S : ~(a < c /\ c < b)

\* last_prime_offset is the last prime that was seen, 0 if there was none.
LastSeen(i) ==
  last_prime[i] \in Seen(i) \cup {0} /\ \A o \in Seen(i) : o <= last_prime[i]

\* Every long enough gap between primes that were seen went to process(), if
\* PoW::valid() let it.
GapsReported(i) ==
  \A a, b \in Seen(i) :
    Neighbours(Seen(i), a, b) /\ b - a >= MinGap(hash[i]) /\ Valid(hash[i], a)
      => <<hash[i], a>> \in reported

\* What the loops of parallel_worker() keep for every interval in use.
SearchInv ==
  /\ pc = "done" => current_segment = TotalSegments
  /\ pc \in {"sieve", "scan", "done"} =>
       \A i \in active : hash[i] \in Hashes /\ LastSeen(i) /\ GapsReported(i)
LEMMA SizeOfSieve == TotalSize = TotalSegments * Seg /\ TotalSize \in Nat
<1>1. Seg \in Nat /\ Seg > 0 /\ SieveCap \in Nat /\ Range \in Nat
  BY SieveAssumption
<1>2. PICK c \in Nat : c = IF Range \div 2 < SieveCap THEN Range \div 2 ELSE SieveCap
  BY <1>1
<1>3. PICK d \in Nat : d = (c + Seg - 1) \div Seg
  BY <1>1
<1>4. PICK x \in Nat : x = d * Seg /\ TotalSize = x
  BY <1>1, <1>2, <1>3 DEF TotalSize, RoundUp
<1>5. x % Seg = 0
  <2>1. x = Seg * d
    BY <1>1, <1>4
  <2>2. QED BY <1>1, <2>1, Divides
<1>6. PICK q \in Int : q = x \div Seg /\ x % Seg = x - Seg * q
  BY <1>1, Remainder
<1>7. x = q * Seg
  BY <1>1, <1>5, <1>6
<1>8. QED BY <1>4, <1>6, <1>7, Zenon DEF TotalSegments

\* The bits of segment s stand for the odd numbers between its borders.
LEMMA SegmentBits ==
  ASSUME NEW s \in Nat, NEW m \in Nat, m = s * Seg
  PROVE  /\ \A b \in Bits : /\ Offset(s, b) \in Nat /\ Odd(Offset(s, b))
                            /\ 2 * m < Offset(s, b) /\ Offset(s, b) < 2 * (m + Seg)
         /\ \A o \in Nat : Odd(o) /\ 2 * m <= o /\ o <= 2 * (m + Seg)
                             => \E b \in Bits : o = Offset(s, b)
<1>1. Seg \in Nat /\ Seg > 0
  BY PrimeTypes
<1>2. \A b \in Bits : Offset(s, b) = 2 * m + 2 * b + 1
  BY <1>1 DEF Offset, Bits
<1>3. ASSUME NEW b \in Bits
      PROVE  /\ Offset(s, b) \in Nat /\ Odd(Offset(s, b))
             /\ 2 * m < Offset(s, b) /\ Offset(s, b) < 2 * (m + Seg)
  BY <1>1, <1>2 DEF Bits, Odd
<1>4. ASSUME NEW o \in Nat, Odd(o), 2 * m <= o, o <= 2 * (m + Seg)
      PROVE  \E b \in Bits : o = Offset(s, b)
  <2>1. PICK j \in Int : o = 2 * j + 1
    BY <1>4 DEF Odd
  <2>2. j - m \in Bits
    BY <1>1, <1>4, <2>1 DEF Bits
  <2>3. o = Offset(s, j - m)
    BY <1>2, <2>1, <2>2
  <2>4. QED BY <2>2, <2>3, Zenon
<1>5. QED BY <1>3, <1>4, Zenon

\* The primes of a segment add those between its borders to the ones before.
LEMMA SegmentPrimes ==
  ASSUME SieveInv, NoPrimeLost, pc = "scan", NEW i \in active
  PROVE  LET S == PrimesTo(hash[i], (current_segment - 1) * Seg) IN
         /\ PrimesTo(hash[i], current_segment * Seg) = S \cup PrimesIn(i)
         /\ S \subseteq Nat /\ PrimesIn(i) \subseteq Nat /\ 0 \notin S
         /\ \A a \in S : \A b \in PrimesIn(i) : a < b
<1>1. PICK s \in Nat : s = current_segment - 1 /\ current_segment = s + 1
  BY SegmentCount DEF SieveInv, TypeOK
<1>2. PICK m \in Nat : m = s * Seg
  BY PrimeTypes
<1>3. Seg \in Nat /\ (s + 1) * Seg = m + Seg
  BY <1>2, PrimeTypes
<1>4. PICK h : h = hash[i]
  BY Zenon
<1>5. \A b \in Bits : /\ Offset(s, b) \in Nat /\ Odd(Offset(s, b))
                      /\ 2 * m < Offset(s, b) /\ Offset(s, b) < 2 * (m + Seg)
  BY <1>2, SegmentBits, Zenon
<1>6. \A o \in Nat : Odd(o) /\ 2 * m <= o /\ o <= 2 * (m + Seg)
                             => \E b \in Bits : o = Offset(s, b)
  BY <1>2, SegmentBits, Zenon
<1>7. ASSUME NEW o \in PrimesIn(i)
      PROVE  /\ o \in Nat /\ Odd(o) /\ Start(h) + o \in Primes
             /\ 2 * m < o /\ o < 2 * (m + Seg)
  <2>1. PICK b \in Bits : o = Offset(s, b) /\ Start(h) + o \in Primes
    BY <1>1, <1>4, <1>7, Zenon DEF PrimesIn, Candidates
  <2>2. QED BY <1>5, <2>1, Zenon
<1>8. ASSUME NEW o \in Nat, Odd(o), Start(h) + o \in Primes,
             2 * m <= o, o <= 2 * (m + Seg)
      PROVE  o \in PrimesIn(i)
  <2>1. PICK b \in Bits : o = Offset(s, b)
    BY <1>6, <1>8, Zenon
  <2>2. Scanning
    BY DEF Scanning, SieveInv
  <2>3. o \in Candidates(i)
    BY <1>1, <1>4, <1>8, <2>1, <2>2, Zenon DEF NoPrimeLost
  <2>4. QED BY <1>4, <1>8, <2>3, Zenon DEF PrimesIn
<1>9. PICK S : S = {o \in 0 .. 2 * m : Odd(o) /\ Start(h) + o \in Primes}
  BY Zenon
<1>10. PrimesTo(h, m) = S
  BY <1>9, Zenon DEF PrimesTo
<1>11. PrimesTo(h, m + Seg) = S \cup PrimesIn(i)
  <2>1. ASSUME NEW o \in PrimesTo(h, m + Seg) PROVE o \in S \cup PrimesIn(i)
    <3>1. o \in Nat /\ o <= 2 * (m + Seg) /\ Odd(o) /\ Start(h) + o \in Primes
      BY <1>3, <2>1 DEF PrimesTo
    <3>2. CASE o <= 2 * m
      BY <1>9, <3>1, <3>2
    <3>3. CASE 2 * m <= o
      BY <1>8, <3>1, <3>3, Zenon
    <3>4. QED BY <3>1, <3>2, <3>3
  <2>2. S \subseteq PrimesTo(h, m + Seg)
    BY <1>3, <1>9 DEF PrimesTo
  <2>3. ASSUME NEW o \in PrimesIn(i) PROVE o \in PrimesTo(h, m + Seg)
    <3>1. /\ o \in Nat /\ Odd(o) /\ Start(h) + o \in Primes
          /\ 2 * m < o /\ o < 2 * (m + Seg)
      BY <1>7, <2>3, Zenon
    <3>2. o \in 0 .. 2 * (m + Seg)
      BY <1>3, <3>1
    <3>3. QED BY <3>1, <3>2, Zenon DEF PrimesTo
  <2>4. QED BY <2>1, <2>2, <2>3, Zenon
<1>12. ASSUME NEW o \in S PROVE o \in Nat /\ o # 0 /\ o <= 2 * m
  BY <1>9 DEF Odd
<1>13. S \subseteq Nat /\ 0 \notin S /\ PrimesIn(i) \subseteq Nat
  BY <1>7, <1>12, Zenon
<1>14. \A a \in S : \A b \in PrimesIn(i) : a < b
  <2> TAKE a \in S
  <2> TAKE b \in PrimesIn(i)
  <2>1. a \in Nat /\ a <= 2 * m /\ b \in Nat /\ 2 * m < b
    BY <1>7, <1>12, Zenon
  <2>2. QED BY <2>1
<1>15. S = PrimesTo(hash[i], (current_segment - 1) * Seg)
  BY <1>1, <1>2, <1>4, <1>10, Zenon
<1>16. PrimesTo(hash[i], current_segment * Seg) = S \cup PrimesIn(i)
  BY <1>1, <1>3, <1>4, <1>11, Zenon
<1>17. QED BY <1>13, <1>14, <1>15, <1>16, Zenon

\* The test of one interval's candidates: what was kept of the segments before
\* is kept of this one too.
LEMMA ScanSearch ==
  ASSUME SieveInv, Scan, NEW i \in Intervals, i = k, LastSeen(i), GapsReported(i)
  PROVE  LastSeen(i)' /\ GapsReported(i)'
<1>1. i \in active /\ pc = "scan" /\ i \in Int /\ ~(i < k)
  BY DEF Scan, SieveInv, TypeOK, Intervals
<1>2. PICK S, T, l, h : /\ S = PrimesTo(hash[i], (current_segment - 1) * Seg)
                        /\ T = PrimesIn(i) /\ l = last_prime[i] /\ h = hash[i]
  BY Zenon
<1>3. /\ PrimesTo(h, current_segment * Seg) = S \cup T
      /\ S \subseteq Nat /\ T \subseteq Nat /\ 0 \notin S
      /\ \A a \in S : \A b \in T : a < b
  BY <1>1, <1>2, SegmentPrimes, SieveKeepsPrimes, Zenon
<1>4. Seen(i) = S
  <2>1. Scanned(i) = current_segment - 1
    BY <1>1, Zenon DEF Scanned
  <2>2. QED BY <1>2, <2>1, Zenon DEF Seen
<1>5. hash'[i] = h /\ current_segment' = current_segment
  BY <1>2, Zenon DEF Scan
<1>6. Seen(i)' = S \cup T
  <2>1. Scanned(i)' = current_segment
    <3>1. pc' = "scan" => i < k'
      <4>1. pc' = "scan" => k' = i + 1
        BY DEF Scan, NextInterval
      <4>2. QED BY <1>1, <4>1
    <3>2. QED BY <1>5, <3>1, Zenon DEF Scanned
  <2>2. QED BY <1>3, <1>5, <2>1, Zenon DEF Seen
<1>7. last_prime'[i] = NewLast(i)
  BY DEF Scan, SieveInv, TypeOK
<1>8. l \in S \cup {0} /\ \A o \in S : o <= l
  BY <1>2, <1>4, Zenon DEF LastSeen
<1>9. LastSeen(i)'
  <2>1. CASE T = {}
    <3>1. NewLast(i) = l
      BY <1>2, <2>1, Zenon DEF NewLast
    <3>2. QED BY <1>6, <1>7, <1>8, <2>1, <3>1, Zenon DEF LastSeen
  <2>2. CASE T # {}
    <3>1. PICK y \in T : y = NewLast(i) /\ \A b \in T : b <= y
      <4>1. \E a \in T : \A b \in T : b <= a
        BY <1>1, <1>2, <2>2, LastExists DEF SieveInv
      <4>2. NewLast(i) = CHOOSE a \in T : \A b \in T : b <= a
        BY <1>2, <2>2, Zenon DEF NewLast
      <4>3. QED BY <4>1, <4>2, Zenon
    <3>2. \A o \in S \cup T : o <= y
      BY <1>3, <3>1
    <3>3. QED BY <1>6, <1>7, <3>1, <3>2, Zenon DEF LastSeen
  <2>3. QED BY <2>1, <2>2, Zenon
<1>10. /\ reported \subseteq reported'
       /\ \A a \in Proofs(i) : <<h, a>> \in reported'
  BY <1>2, Zenon DEF Scan
<1>11. GapsReported(i)'
  <2>1. SUFFICES ASSUME NEW a \in S \cup T, NEW b \in S \cup T,
                        Neighbours(S \cup T, a, b), b - a >= MinGap(h), Valid(h, a)
                 PROVE  <<h, a>> \in reported'
    BY <1>5, <1>6, Zenon DEF GapsReported
  <2>2. /\ a < b /\ a \in Nat /\ b \in Nat
        /\ \A c \in S : ~(a < c /\ c < b)
        /\ \A c \in T : ~(a < c /\ c < b)
    BY <1>3, <2>1, Zenon DEF Neighbours
  <2>3. CASE b \in S
    <3>1. a \in S
      <4>1. a \in T => b < a
        BY <1>3, <2>3, Zenon
      <4>2. ~(b < a)
        BY <2>2
      <4>3. QED BY <2>1, <4>1, <4>2, Zenon
    <3>2. Neighbours(S, a, b)
      BY <2>2, Zenon DEF Neighbours
    <3>3. <<h, a>> \in reported
      BY <1>2, <1>4, <2>1, <2>3, <3>1, <3>2, Zenon DEF GapsReported
    <3>4. QED BY <1>10, <3>3, Zenon
  <2>4. CASE b \in T
    <3>1. a \in T \cup (IF l = 0 THEN {} ELSE {l})
      <4>1. CASE a \in S
        <5>1. a <= l /\ a # 0 /\ l \in Nat
          BY <1>3, <1>8, <4>1
        <5>2. l \in S /\ l # 0
          BY <1>8, <2>2, <5>1
        <5>3. l < b /\ ~(a < l /\ l < b)
          BY <1>3, <2>2, <2>4, <5>2, Zenon
        <5>4. a = l
          BY <2>2, <5>1, <5>3
        <5>5. QED BY <5>2, <5>4, Zenon
      <4>2. QED BY <2>1, <4>1, Zenon
    <3>2. <<a, b>> \in Pairs(i)
      BY <1>2, <2>2, <2>4, <3>1 DEF Pairs
    <3>3. a \in Proofs(i)
      BY <1>2, <2>1, <3>2 DEF Proofs
    <3>4. QED BY <1>10, <3>3, Zenon
  <2>5. QED BY <2>1, <2>3, <2>4, Zenon
<1>12. QED BY <1>9, <1>11

\* Steps that test no candidate of interval i.
LEMMA OtherSearch ==
  ASSUME NEW i \in Intervals, UNCHANGED <<hash, last_prime>>, reported \subseteq reported',
         Scanned(i)' = Scanned(i), LastSeen(i), GapsReported(i)
  PROVE  LastSeen(i)' /\ GapsReported(i)'
<1>1. Seen(i)' = Seen(i)
  BY Zenon DEF Seen
<1>2. QED BY <1>1, Zenon DEF LastSeen, GapsReported

LEMMA SearchNext == SieveInv /\ SearchInv /\ [Next]_vars => SearchInv'
<1> SUFFICES ASSUME SieveInv, SearchInv, [Next]_vars PROVE SearchInv'
  OBVIOUS
<1>0. k \in Int /\ Batch \in Nat /\ active \subseteq Intervals /\ Intervals \subseteq Int
  BY SieveAssumption DEF SieveInv, TypeOK, Intervals
<1>1. CASE NewBatch
  <2>1. pc' # "done" /\ pc' # "scan" /\ current_segment' = 0
    BY <1>1 DEF NewBatch
  <2>2. SUFFICES ASSUME NEW i \in active'
                 PROVE  hash'[i] \in Hashes /\ LastSeen(i)' /\ GapsReported(i)'
    BY <2>1 DEF SearchInv
  <2>3. i \in Intervals /\ hash'[i] \in Hashes /\ last_prime'[i] = 0
    BY <1>1 DEF NewBatch
  <2>4. Seen(i)' = {}
    <3>1. Scanned(i)' = 0
      BY <2>1, Zenon DEF Scanned
    <3>2. 0 * Seg = 0
      BY PrimeTypes
    <3>3. Seen(i)' = PrimesTo(hash'[i], 0)
      BY <3>1, <3>2, Zenon DEF Seen
    <3>4. \A o \in 0 .. 2 * 0 : ~Odd(o)
      BY DEF Odd
    <3>5. QED BY <3>3, <3>4, Zenon DEF PrimesTo
  <2>5. QED BY <2>3, <2>4, Zenon DEF LastSeen, GapsReported
<1>2. CASE SieveNextSegment
  <2>1. /\ pc = "sieve" /\ pc' = "scan" /\ k' = 0 /\ current_segment' = current_segment + 1
        /\ UNCHANGED <<hash, active, last_prime, reported>>
    BY <1>2, Zenon DEF SieveNextSegment
  <2>2. ASSUME NEW i \in active
        PROVE  hash[i] \in Hashes /\ LastSeen(i)' /\ GapsReported(i)'
    <3>1. Scanned(i) = current_segment
      BY <2>1, Zenon DEF Scanned
    <3>2. ~(i < 0) /\ (current_segment + 1) - 1 = current_segment
      BY <2>2 DEF SieveInv, TypeOK, Intervals
    <3>3. Scanned(i)' = current_segment
      BY <2>1, <3>2, Zenon DEF Scanned
    <3>4. hash[i] \in Hashes /\ LastSeen(i) /\ GapsReported(i)
      BY <2>1, <2>2, Zenon DEF SearchInv
    <3>5. QED BY <1>0, <2>1, <3>1, <3>3, <3>4, OtherSearch, Zenon
  <2>3. QED BY <2>1, <2>2, Zenon DEF SearchInv
<1>3. CASE EndBatch
  <2>1. pc = "sieve" /\ pc' = "done"
    BY <1>3, Zenon DEF EndBatch
  <2>2. UNCHANGED <<hash, active, current_segment, last_prime, reported>>
    BY <1>3, Zenon DEF EndBatch
  <2>3. current_segment = TotalSegments
    BY <1>3, SegmentCount DEF EndBatch, SieveInv, TypeOK
  <2>4. TotalSegments' = TotalSegments
    BY Zenon DEF TotalSegments
  <2>5. ASSUME NEW i \in active
        PROVE  hash[i] \in Hashes /\ LastSeen(i)' /\ GapsReported(i)'
    <3>1. Scanned(i)' = Scanned(i)
      BY <2>1, <2>2, Zenon DEF Scanned
    <3>2. hash[i] \in Hashes /\ LastSeen(i) /\ GapsReported(i)
      BY <2>1, <2>5, Zenon DEF SearchInv
    <3>3. QED BY <1>0, <2>2, <3>1, <3>2, OtherSearch, Zenon
  <2>6. QED BY <2>1, <2>2, <2>3, <2>5, Zenon DEF SearchInv
<1>4. ASSUME Scan \/ SkipInterval, NEW i \in active, ~(Scan /\ i = k)
      PROVE  Scanned(i)' = Scanned(i)
  <2>1. pc = "scan" /\ current_segment' = current_segment /\ NextInterval
    BY <1>4, Zenon DEF Scan, SkipInterval
  <2>2. i # k /\ i \in Int /\ i < Batch
    BY <1>0, <1>4 DEF Scan, SkipInterval, Intervals
  <2>3. CASE k + 1 < Batch
    <3>1. pc' = "scan" /\ k' = k + 1
      BY <2>1, <2>3, Zenon DEF NextInterval
    <3>2. i < k + 1 <=> i < k
      BY <1>0, <2>2
    <3>3. QED BY <2>1, <3>1, <3>2, Zenon DEF Scanned
  <2>4. CASE ~(k + 1 < Batch)
    <3>1. pc' = "sieve"
      BY <2>1, <2>4, Zenon DEF NextInterval
    <3>2. i < k
      BY <1>0, <2>2, <2>4
    <3>3. QED BY <2>1, <3>1, <3>2, Zenon DEF Scanned
  <2>5. QED BY <2>3, <2>4, Zenon
<1>5. CASE Scan
  <2>1. pc = "scan" /\ pc' # "done" /\ k \in Intervals
    BY <1>5 DEF Scan, NextInterval, SieveInv, TypeOK
  <2>2. /\ UNCHANGED <<hash, active>> /\ reported \subseteq reported'
        /\ last_prime' = [last_prime EXCEPT ![k] = NewLast(k)]
    BY <1>5, Zenon DEF Scan
  <2>3. ASSUME NEW i \in active
        PROVE  hash[i] \in Hashes /\ LastSeen(i)' /\ GapsReported(i)'
    <3>1. hash[i] \in Hashes /\ LastSeen(i) /\ GapsReported(i)
      BY <2>1, <2>3, Zenon DEF SearchInv
    <3>2. CASE i = k
      BY <1>0, <1>5, <2>3, <3>1, <3>2, ScanSearch, Zenon
    <3>3. CASE i # k
      <4>1. Scanned(i)' = Scanned(i)
        BY <1>4, <1>5, <2>3, <3>3, Zenon
      <4>2. Seen(i)' = Seen(i)
        BY <2>2, <4>1, Zenon DEF Seen
      <4>3. last_prime'[i] = last_prime[i]
        BY <1>0, <2>2, <2>3, <3>3 DEF SieveInv, TypeOK
      <4>4. QED BY <2>2, <3>1, <4>2, <4>3, Zenon DEF LastSeen, GapsReported
    <3>4. QED BY <3>2, <3>3, Zenon
  <2>4. QED BY <2>1, <2>2, <2>3, Zenon DEF SearchInv
<1>6. CASE SkipInterval
  <2>1. pc = "scan" /\ pc' # "done" /\ k \notin active
    BY <1>6 DEF SkipInterval, NextInterval
  <2>2. UNCHANGED <<hash, active, last_prime, reported>>
    BY <1>6, Zenon DEF SkipInterval
  <2>3. ASSUME NEW i \in active
        PROVE  hash[i] \in Hashes /\ LastSeen(i)' /\ GapsReported(i)'
    <3>1. hash[i] \in Hashes /\ LastSeen(i) /\ GapsReported(i)
      BY <2>1, <2>3, Zenon DEF SearchInv
    <3>2. Scanned(i)' = Scanned(i)
      BY <1>4, <1>6, <2>1, <2>3, Zenon
    <3>3. QED BY <1>0, <2>2, <2>3, <3>1, <3>2, OtherSearch, Zenon
  <2>4. QED BY <2>1, <2>2, <2>3, Zenon DEF SearchInv
<1>7. CASE ScanUntilAccepted
  BY <1>7 DEF ScanUntilAccepted, SearchInv
<1>8. CASE UNCHANGED vars
  <2>1. UNCHANGED <<pc, hash, active, current_segment, k, last_prime, reported>>
    BY <1>8, Zenon DEF vars
  <2>2. QED BY <2>1, Zenon DEF SearchInv, LastSeen, GapsReported, Seen, Scanned
<1>9. QED BY <1>1, <1>2, <1>3, <1>5, <1>6, <1>7, <1>8, Zenon DEF Next

\* A prime that can be an end point of a gap lies at an odd distance from the
\* start.
LEMMA PrimeOffsets ==
  ASSUME NEW h \in Nat, h >= MinHash, NEW add \in Nat, Start(h) + add \in Primes
  PROVE  Odd(add) /\ Start(h) \in Nat
<1>1. MinHash \in Nat /\ MinHash > 1 /\ Range \in Nat /\ Range > 0 /\ Range % 2 = 0
  BY SieveAssumption
<1>2. PICK r \in Nat : Range = 2 * r /\ r > 0
  BY <1>1
<1>3. PICK n \in Nat : n = h * r /\ n > 1
  <2>1. h * r >= h
    BY <1>2
  <2>2. h * r \in Nat /\ h > 1
    BY <1>1, <1>2
  <2>3. QED BY <2>1, <2>2
<1>4. Start(h) = 2 * n
  BY <1>2, <1>3 DEF Start
<1>5. PICK p \in Nat : p = 2 * n + add /\ p \in Primes
  BY <1>4
<1>6. p % 2 # 0
  <2>1. 2 \in 2 .. p - 1
    BY <1>3, <1>5
  <2>2. QED BY <1>5, <2>1, PrimeAssumption, Zenon
<1>7. add % 2 = 1
  <2>1. p % 2 = add % 2
    BY <1>5
  <2>2. QED BY <1>6, <2>1
<1>8. QED BY <1>4, <1>7 DEF Odd

\* freycoin_nextprime() is the next prime, when there is one.
LEMMA NextPrimeIs ==
  ASSUME NEW p \in Nat, NEW q \in Primes, q > p
  PROVE  /\ NextPrime(p) \in Primes /\ NextPrime(p) \in Nat /\ NextPrime(p) > p
         /\ \A r \in Primes : r > p => NextPrime(p) <= r
<1>1. PICK T : T = {r \in Primes : r > p}
  BY Zenon
<1>2. T \subseteq Nat /\ T # {}
  <2>1. q \in T
    BY <1>1, Zenon
  <2>2. QED BY <1>1, <2>1, PrimeAssumption, Zenon
<1>3. PICK x \in T : \A y \in T : x <= y
  BY <1>2, Smallest, Zenon
<1>4. x \in Primes /\ x > p /\ \A r \in Primes : r > p => x <= r
  BY <1>1, <1>3, Zenon
<1>5. NextPrime(p) \in Primes /\ NextPrime(p) > p /\ \A r \in Primes : r > p => NextPrime(p) <= r
  BY <1>4, Zenon DEF NextPrime
<1>6. QED BY <1>5, PrimeAssumption, Zenon

\* MinGap() is target_size() made even.
LEMMA NearMissSize ==
  ASSUME NEW h, TargetSize(Start(h)) \in Nat, NEW g \in Nat, g % 2 = 0,
         g < MinGap(h), g + 2 >= MinGap(h)
  PROVE  LET size == TargetSize(Start(h))
         IN  g = (IF Odd(size) THEN size - 1 ELSE size - 2)
<1>1. PICK t \in Nat : t = TargetSize(Start(h))
  BY Zenon
<1>2. MinGap(h) = t + (t % 2)
  BY <1>1, Zenon DEF MinGap
<1>3. PICK x \in Nat : t % 2 = x /\ x \in {0, 1} /\ (t + x) % 2 = 0
  BY <1>1
<1>4. g = t + x - 2
  BY <1>2, <1>3
<1>5. g = IF Odd(t) THEN t - 1 ELSE t - 2
  BY <1>3, <1>4 DEF Odd
<1>6. QED BY <1>1, <1>5, Zenon

\* Of the proofs CheckProofOfWork() would accept, a batch searched to its end
\* misses only those whose gap ends beyond the sieve and the near misses, for
\* every hash, segment size, prime table and target.
THEOREM SearchMissesLittle == Spec => []OnlyNearMisses
<1>1. Init => SearchInv
  BY DEF Init, SearchInv
<1>2. SieveInv /\ SearchInv => OnlyNearMisses
  <2> SUFFICES ASSUME SieveInv, SearchInv, pc = "done",
                      NEW i \in active, NEW add \in 0 .. 2 * TotalSize,
                      CheckProofOfWork(hash[i], add, Target),
                      <<hash[i], add>> \notin reported,
                      ~(NextPrime(Start(hash[i]) + add) > Start(hash[i]) + 2 * TotalSize)
               PROVE  LET p    == Start(hash[i]) + add
                          size == TargetSize(Start(hash[i]))
                      IN  NextPrime(p) - p = (IF Odd(size) THEN size - 1 ELSE size - 2)
    BY Zenon DEF OnlyNearMisses
  <2>1. PICK h : h = hash[i]
    BY Zenon
  <2>2. h \in Nat /\ h >= MinHash /\ h \in Hashes
    BY <2>1 DEF SieveInv, SearchInv, TypeOK
  <2>3. TotalSize \in Nat /\ add \in Nat /\ add <= 2 * TotalSize
    BY SizeOfSieve
  <2>4. Seen(i) = PrimesTo(h, TotalSize)
    <3>1. Scanned(i) = TotalSegments
      BY Zenon DEF Scanned, SearchInv
    <3>2. QED BY <2>1, <3>1, SizeOfSieve, Zenon DEF Seen
  <2>5. /\ Start(h) + add \in Primes
        /\ Difficulty(Start(h) + add, NextPrime(Start(h) + add)) >= Target
    BY <2>1, Zenon DEF CheckProofOfWork
  <2>6. Valid(h, add)
    <3>1. EndPoints(h, add)
      <4>1. add < Range
        BY <2>1, <2>3, SieveAssumption DEF CheckProofOfWork
      <4>2. QED BY <2>2, <2>5, <4>1, SieveAssumption DEF EndPoints
    <3>2. QED BY <2>5, <3>1, Zenon DEF Valid, PowDifficulty
  <2>7. Odd(add) /\ Start(h) \in Nat
    BY <2>2, <2>3, <2>5, PrimeOffsets
  <2>8. PICK st \in Nat, p \in Nat : st = Start(h) /\ p = st + add
    BY <2>3, <2>7
  <2>9. PICK beyond \in Primes : beyond > st + 2 * TotalSize /\ beyond \in Nat
    BY <2>2, <2>8, SearchAssumption, PrimeAssumption
  <2>10. beyond > p
    BY <2>3, <2>8, <2>9
  <2>11. PICK q \in Nat : /\ q = NextPrime(p) /\ q \in Primes /\ q > p
                          /\ \A r \in Primes : r > p => q <= r
    BY <2>8, <2>9, <2>10, NextPrimeIs, Zenon
  <2>12. PICK b \in Nat : q = st + b /\ b <= 2 * TotalSize /\ add < b
    <3>1. ~(q > st + 2 * TotalSize)
      BY <2>1, <2>8, <2>11, Zenon
    <3>2. q - st \in Nat /\ q - st <= 2 * TotalSize /\ add < q - st /\ q = st + (q - st)
      BY <2>3, <2>8, <2>11, <3>1
    <3>3. QED BY <3>2, Zenon
  <2>13. Odd(b)
    BY <2>2, <2>8, <2>11, <2>12, PrimeOffsets
  <2>14. add \in Seen(i) /\ b \in Seen(i)
    <3>1. add \in 0 .. 2 * TotalSize /\ b \in 0 .. 2 * TotalSize
      BY <2>3, <2>12
    <3>2. QED BY <2>4, <2>5, <2>7, <2>8, <2>11, <2>12, <2>13, <3>1, Zenon DEF PrimesTo
  <2>15. Neighbours(Seen(i), add, b)
    <3>1. SUFFICES ASSUME NEW c \in Seen(i), add < c, c < b PROVE FALSE
      BY <2>12, Zenon DEF Neighbours
    <3>2. c \in Nat /\ st + c \in Primes
      BY <2>3, <2>4, <2>8, <3>1 DEF PrimesTo
    <3>3. st + c > p /\ ~(q <= st + c)
      BY <2>3, <2>8, <2>12, <3>1, <3>2
    <3>4. QED BY <2>11, <3>2, <3>3, Zenon
  <2>16. ~(b - add >= MinGap(h))
    BY <2>1, <2>6, <2>14, <2>15, Zenon DEF SearchInv, GapsReported
  <2>17. PICK g \in Nat : g = b - add /\ q = p + g /\ g % 2 = 0
    <3>1. (b - add) % 2 = 0
      BY <2>3, <2>7, <2>12, <2>13 DEF Odd
    <3>2. b - add \in Nat /\ q = p + (b - add)
      BY <2>3, <2>8, <2>12
    <3>3. QED BY <3>1, <3>2, Zenon
  <2>18. /\ Ln(st) \in Nat \ {0} /\ Ln(p) \in Nat \ {0} /\ Ln(st) <= Ln(p)
         /\ Rand(p, p + g) \in Nat
    <3>1. p \in st .. st + 2 * TotalSize /\ q \in st .. st + 2 * TotalSize
      BY <2>3, <2>8, <2>12
    <3>2. /\ Ln(st) \in Nat \ {0} /\ Ln(p) \in Nat /\ Ln(st) <= Ln(p)
          /\ Rand(p, q) \in Nat
      BY <2>2, <2>8, <3>1, SearchAssumption, Zenon
    <3>3. Ln(p) # 0
      BY <3>2
    <3>4. QED BY <2>17, <3>2, <3>3, Zenon
  <2>19. Difficulty(p, p + g) >= Target
    BY <2>5, <2>8, <2>11, <2>17, Zenon
  <2>20. g + 2 >= MinGap(h)
    BY <2>2, <2>8, <2>17, <2>18, <2>19, NearMiss, Zenon
  <2>21. TargetSize(Start(h)) \in Nat
    <3>1. PICK L \in Nat : L = Ln(st)
      BY <2>18, Zenon
    <3>2. PICK U \in Nat : U = Unit * Unit /\ U > 0
      BY FixedPointAssumption
    <3>3. PICK z \in Nat : z = Target * L
      BY FixedPointAssumption
    <3>4. z \div U \in Nat
      BY <3>2, FloorBelow
    <3>5. TargetSize(st) = Fit(z \div U)
      BY <3>1, <3>2, <3>3, Zenon DEF TargetSize
    <3>6. QED BY <2>8, <3>4, <3>5 DEF Fit
  <2>22. g < MinGap(h)
    <3>1. MinGap(h) \in Int
      BY <2>21 DEF MinGap
    <3>2. QED BY <2>16, <2>17, <3>1
  <2>23. g = (IF Odd(TargetSize(Start(h))) THEN TargetSize(Start(h)) - 1
                                           ELSE TargetSize(Start(h)) - 2)
    BY <2>17, <2>20, <2>21, <2>22, NearMissSize, Zenon
  <2>24. q - p = g
    BY <2>17
  <2>25. QED BY <2>1, <2>8, <2>11, <2>23, <2>24, Zenon
<1>3. QED BY <1>1, <1>2, SearchNext, SieveInvariant, PTL DEF Spec
=============================================================================
