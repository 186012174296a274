------------------------ MODULE MemoryScanner_proofs ------------------------
(***************************************************************************)
(* The scanner's threads keep the types of its variables, and the promise  *)
(* of ScanList.  First and next scan are alike: the work is numbered; a    *)
(* number is pending for the one worker that claimed it until that worker  *)
(* has dealt with it, and done from then on.                               *)
(***************************************************************************)
EXTENDS MemoryScanner, FiniteSetTheorems, SequenceTheorems, TLAPS

(* Division, for a divisor that is not a number the solver knows. *)
LEMMA Quotient ==
  ASSUME NEW x \in Nat, NEW n \in Nat \ {0}
  PROVE  /\ x \div n \in Nat /\ x % n \in 0 .. n - 1
         /\ x = n * (x \div n) + (x % n)
<1>1. x = n * (x \div n) + (x % n)
  BY Z3
<1>2. x % n \in 0 .. n - 1
  BY Z3
<1>3. x \div n \in Nat
  BY <1>1, <1>2, Z3
<1> QED BY <1>1, <1>2, <1>3

LEMMA Divides ==
  ASSUME NEW x \in Nat, NEW n \in Nat \ {0}, x % n = 0
  PROVE  \E q \in Nat : x = n * q
<1> DEFINE q == x \div n
<1>1. q \in Nat /\ x = n * q + 0
  BY Quotient
<1> HIDE DEF q
<1>2. x = n * q
  BY <1>1
<1> QED BY <1>1, <1>2

LEMMA Remainder ==
  ASSUME NEW n \in Nat \ {0}, NEW q \in Nat, NEW d \in 0 .. n - 1
  PROVE  (n * q + d) % n = d
  BY SMT

(* Multiples of n that are less than n apart are the same. *)
LEMMA Multiples ==
  ASSUME NEW n \in Nat \ {0}, NEW p \in Nat, NEW q \in Nat, p < q
  PROVE  n * p + n <= n * q
<1>1. (q - p) * n >= n
  BY SMT
<1> QED BY <1>1, SMT

-----------------------------------------------------------------------------
(* The chunks of a first scan. *)

(* What a chunk is: a part of its region, no longer than Chunk, no shorter  *)
(* than a value, at a multiple of Chunk from the start of the region.       *)
LEMMA ChunkFacts ==
  ASSUME NEW b \in BOOLEAN, NEW r \in Regions, NEW t \in ChunksOf(r, b)
  PROVE  /\ t = ChunkAt(r, t.start, b)
         /\ t.start \in r.start .. r.end - 1 /\ t.scanEnd \in Nat /\ t.readEnd \in Nat
         /\ \E c \in Nat : t.start = r.start + Chunk * c
         /\ t.scanEnd <= t.start + Chunk /\ t.scanEnd <= r.end
         /\ t.start + Width <= t.scanEnd
         /\ t.scanEnd <= t.readEnd /\ t.readEnd <= r.end
<1>1. PICK a \in r.start .. r.end - 1 : (a - r.start) % Chunk = 0 /\ t = ChunkAt(r, a, b)
  BY DEF ChunksOf
<1>2. t.scanEnd - t.start >= Width
  BY DEF ChunksOf
<1>3. r.start \in Nat /\ r.end \in Nat /\ Chunk \in Nat \ {0} /\ Width \in Nat \ {0}
  BY ScannerAssumption
<1>4. t.start = a
  BY <1>1 DEF ChunkAt
<1>5. \E c \in Nat : a = r.start + Chunk * c
  <2> DEFINE x == a - r.start
  <2>1. x \in Nat /\ x % Chunk = 0 /\ a = r.start + x
    BY <1>1, <1>3
  <2> HIDE DEF x
  <2>2. x \div Chunk \in Nat /\ x = Chunk * (x \div Chunk) + (x % Chunk)
    BY <2>1, <1>3, Quotient
  <2>3. x = Chunk * (x \div Chunk)
    BY <2>1, <2>2, <1>3
  <2> QED BY <2>1, <2>2, <2>3
<1> DEFINE rest == Min2(r.end - a, Chunk)
           length == IF b THEN rest ELSE (rest \div Width) * Width
<1>6. rest \in Nat /\ rest <= r.end - a /\ rest <= Chunk
  BY <1>3 DEF Min2
<1>7. length \in Nat /\ length <= rest
  <2>1. rest \div Width \in Nat /\ rest % Width \in 0 .. Width - 1
        /\ rest = Width * (rest \div Width) + (rest % Width)
    <3> HIDE DEF rest
    <3> QED BY <1>3, <1>6, Quotient
  <2> DEFINE q == rest \div Width
  <2> HIDE DEF q, rest
  <2>2. q * Width \in Nat /\ q * Width <= rest
    BY <1>6, <1>3, <2>1, SMT DEF q
  <2> QED BY <1>6, <2>2 DEF q
<1>8. t.scanEnd = a + length
  BY <1>1 DEF ChunkAt
<1>9. t.readEnd = Min2(r.end, a + length + (IF b THEN Width - 1 ELSE 0))
  BY <1>1 DEF ChunkAt
<1> HIDE DEF length, rest
<1>10. /\ t.scanEnd \in Nat /\ t.readEnd \in Nat
       /\ t.scanEnd <= t.readEnd /\ t.readEnd <= r.end
       /\ t.scanEnd <= t.start + Chunk /\ t.scanEnd <= r.end
  BY <1>3, <1>4, <1>6, <1>7, <1>8, <1>9 DEF Min2
<1>11. t.start + Width <= t.scanEnd
  BY <1>2, <1>3, <1>4, <1>10
<1>12. t = ChunkAt(r, t.start, b)
  BY <1>1, <1>4
<1>13. t.start \in r.start .. r.end - 1 /\ \E c \in Nat : t.start = r.start + Chunk * c
  BY <1>4, <1>5
<1> QED BY <1>10, <1>11, <1>12, <1>13

(* No two chunks overlap. *)
LEMMA ChunksApart ==
  ASSUME NEW b \in BOOLEAN, NEW s \in Chunks(b), NEW t \in Chunks(b), s # t
  PROVE  s.scanEnd <= t.start \/ t.scanEnd <= s.start
<1>1. PICK r \in Regions : s \in ChunksOf(r, b)
  BY DEF Chunks
<1>2. PICK o \in Regions : t \in ChunksOf(o, b)
  BY DEF Chunks
<1>3. r.start \in Nat /\ r.end \in Nat /\ o.start \in Nat /\ o.end \in Nat
      /\ Chunk \in Nat \ {0}
  BY ScannerAssumption
<1>4. CASE r # o
  <2>1. r.end <= o.start \/ o.end <= r.start
    BY <1>4, ScannerAssumption
  <2> QED BY <2>1, <1>1, <1>2, <1>3, ChunkFacts
<1>5. CASE r = o
  <2>1. s.start # t.start
    BY <1>1, <1>2, <1>5, ChunkFacts
  <2>2. PICK c \in Nat : s.start = r.start + Chunk * c
    BY <1>1, ChunkFacts
  <2>3. PICK d \in Nat : t.start = r.start + Chunk * d
    BY <1>2, <1>5, ChunkFacts
  <2>4. Chunk * c \in Nat /\ Chunk * d \in Nat
    BY <1>3
  <2>5. c < d => s.start + Chunk <= t.start
    BY <2>2, <2>3, <2>4, <1>3, Multiples
  <2>6. d < c => t.start + Chunk <= s.start
    BY <2>2, <2>3, <2>4, <1>3, Multiples
  <2>7. c < d \/ d < c
    BY <2>1, <2>2, <2>3
  <2>8. s.scanEnd <= s.start + Chunk /\ s.scanEnd \in Nat /\ s.start \in Nat
    BY <1>1, <1>3, ChunkFacts
  <2>9. t.scanEnd <= t.start + Chunk /\ t.scanEnd \in Nat /\ t.start \in Nat
    BY <1>2, <1>3, ChunkFacts
  <2> QED BY <2>5, <2>6, <2>7, <2>8, <2>9, <1>3
<1> QED BY <1>4, <1>5

LEMMA ChunkStart ==
  ASSUME NEW b \in BOOLEAN, NEW t \in Chunks(b)
  PROVE  /\ t.start \in Nat /\ t.scanEnd \in Nat /\ t.readEnd \in Nat
         /\ t.start < t.scanEnd /\ t.scanEnd <= t.readEnd /\ t.readEnd <= Size
         /\ t.start + Width <= t.readEnd
<1>1. PICK r \in Regions : t \in ChunksOf(r, b)
  BY DEF Chunks
<1>2. r.start \in Nat /\ r.end \in Nat /\ r.end <= Size /\ Size \in Nat
      /\ Width \in Nat \ {0}
  BY ScannerAssumption
<1> QED BY <1>1, <1>2, ChunkFacts

(* Chunks that start at the same address are the same. *)
LEMMA StartsDiffer ==
  ASSUME NEW b \in BOOLEAN, NEW s \in Chunks(b), NEW t \in Chunks(b), s.start = t.start
  PROVE  s = t
  BY ChunksApart, ChunkStart

LEMMA ChunksFinite ==
  ASSUME NEW b \in BOOLEAN
  PROVE  IsFiniteSet(Chunks(b))
<1> DEFINE f == [t \in Chunks(b) |-> t.start]
<1>1. Size \in Nat
  BY ScannerAssumption
<1>2. \A t \in Chunks(b) : t.start \in 0 .. Size
  BY <1>1, ChunkStart
<1>3. f \in Injection(Chunks(b), 0 .. Size)
  BY <1>2, StartsDiffer DEF Injection, IsInjective
<1>4. IsFiniteSet(0 .. Size)
  BY <1>1, FS_Interval
<1> QED BY <1>3, <1>4, FS_Injection

(* The members of a finite set, placed by where they start, which tells them *)
(* apart: every place is taken, by one of them.                              *)
LEMMA Places ==
  ASSUME NEW S, IsFiniteSet(S), \A x \in S : x.start \in Nat,
         \A x, y \in S : x.start = y.start => x = y
  PROVE  /\ \A x \in S : Cardinality({o \in S : o.start <= x.start}) \in 1 .. Cardinality(S)
         /\ \A x, y \in S :
              Cardinality({o \in S : o.start <= x.start})
                = Cardinality({o \in S : o.start <= y.start}) => x = y
         /\ \A k \in 1 .. Cardinality(S) : \E x \in S :
              Cardinality({o \in S : o.start <= x.start}) = k
<1> DEFINE below(x) == {o \in S : o.start <= x.start}
           place == [x \in S |-> Cardinality(below(x))]
           n == Cardinality(S)
<1>1. n \in Nat
  BY FS_CardinalityType
<1>2. ASSUME NEW x \in S
      PROVE  IsFiniteSet(below(x)) /\ place[x] \in 1 .. n
  <2>1. IsFiniteSet(below(x)) /\ Cardinality(below(x)) <= n
    BY FS_Subset
  <2>2. Cardinality(below(x)) \in Nat
    BY <2>1, FS_CardinalityType
  <2>3. x.start \in Nat
    OBVIOUS
  <2>4. x \in below(x)
    BY <2>3
  <2>5. Cardinality(below(x)) # 0
    BY <2>1, <2>4, FS_EmptySet
  <2> QED BY <2>1, <2>2, <2>5, <1>1
<1>3. ASSUME NEW x \in S, NEW y \in S, x.start < y.start
      PROVE  place[x] # place[y]
  <2>1. below(x) \in SUBSET below(y)
    BY <1>3
  <2>2. y \in below(y) /\ y \notin below(x)
    BY <1>3
  <2>3. IsFiniteSet(below(y))
    BY <1>2
  <2>4. Cardinality(below(y)) # Cardinality(below(x))
    <3> HIDE DEF below
    <3> QED BY <2>1, <2>2, <2>3, FS_Subset
  <2> QED BY <2>4
<1>4. ASSUME NEW x \in S, NEW y \in S, place[x] = place[y]
      PROVE  x = y
  <2>1. ~(x.start < y.start) /\ ~(y.start < x.start)
    BY <1>4, <1>3
  <2> QED BY <2>1
<1>5. place \in Injection(S, 1 .. n)
  BY <1>2, <1>4 DEF Injection, IsInjective
<1>6. IsFiniteSet(1 .. n) /\ Cardinality(1 .. n) = n
  <2> HIDE DEF n
  <2> QED BY <1>1, FS_Interval
<1>7. place \in Surjection(S, 1 .. n)
  BY <1>5, <1>6, FS_Injection
<1> QED BY <1>2, <1>4, <1>7 DEF Surjection

(* The tasks are the chunks, each once. *)
LEMMA TasksAre ==
  ASSUME NEW b \in BOOLEAN
  PROVE  /\ Tasks(b) \in Seq(Chunks(b))
         /\ \A j, k \in 1 .. Len(Tasks(b)) : j # k => Tasks(b)[j] # Tasks(b)[k]
         /\ \A t \in Chunks(b) : \E k \in 1 .. Len(Tasks(b)) : Tasks(b)[k] = t
<1> DEFINE C == Chunks(b)
           n == Cardinality(C)
           place(t) == Cardinality({s \in C : s.start <= t.start})
<1>1. IsFiniteSet(C) /\ n \in Nat
  BY ChunksFinite, FS_CardinalityType
<1>2. \A t \in C : t.start \in Nat
  BY ChunkStart
<1>3. \A s, t \in C : s.start = t.start => s = t
  BY StartsDiffer
<1>4. /\ \A t \in C : place(t) \in 1 .. n
      /\ \A s, t \in C : place(s) = place(t) => s = t
      /\ \A k \in 1 .. n : \E t \in C : place(t) = k
  <2> HIDE DEF C
  <2> QED BY <1>1, <1>2, <1>3, Places
<1>5. Tasks(b) = [k \in 1 .. n |-> CHOOSE t \in C : place(t) = k]
  BY DEF Tasks
<1> HIDE DEF C, n, place
<1>6. \A k \in 1 .. n : Tasks(b)[k] \in C /\ place(Tasks(b)[k]) = k
  BY <1>4, <1>5
<1>7. Tasks(b) \in [1 .. n -> C]
  BY <1>5, <1>6
<1>8. Tasks(b) \in Seq(C) /\ Len(Tasks(b)) = n
  BY <1>1, <1>7, SMT
<1>9. \A j, k \in 1 .. n : j # k => Tasks(b)[j] # Tasks(b)[k]
  BY <1>6
<1>10. ASSUME NEW t \in C
       PROVE  \E k \in 1 .. n : Tasks(b)[k] = t
  BY <1>4, <1>6
<1> QED BY <1>8, <1>9, <1>10 DEF C

(* Regions do not share addresses. *)
LEMMA RegionsApart ==
  ASSUME NEW r \in Regions, NEW s \in Regions, NEW a \in Nat,
         r.start <= a, a < r.end, s.start <= a, a < s.end
  PROVE  r = s
<1> SUFFICES ASSUME r # s PROVE FALSE
  OBVIOUS
<1>1. r.end <= s.start \/ s.end <= r.start
  BY ScannerAssumption
<1> QED BY <1>1, ScannerAssumption

(* Chunks begin, and without a byte step end, a number of values from the   *)
(* start of their region.                                                   *)
LEMMA ChunkSteps ==
  ASSUME NEW b \in BOOLEAN, NEW r \in Regions, NEW t \in ChunksOf(r, b)
  PROVE  /\ \E u \in Nat : t.start = r.start + Width * u
         /\ IF b THEN t.readEnd = r.end \/ t.readEnd = t.scanEnd + Width - 1
            ELSE t.readEnd = t.scanEnd /\ \E q \in Nat : t.scanEnd = t.start + Width * q
<1>1. /\ r.start \in Nat /\ r.end \in Nat
      /\ Chunk \in Nat \ {0} /\ Width \in Nat \ {0} /\ Chunk % Width = 0
  BY ScannerAssumption
<1>2. PICK c \in Nat : t.start = r.start + Chunk * c
  BY ChunkFacts
<1>4. PICK e \in Nat : Chunk = Width * e
  BY <1>1, Divides
<1>5. e * c \in Nat /\ Chunk * c = Width * (e * c)
  BY <1>1, <1>4, SMT
<1>6. \E u \in Nat : t.start = r.start + Width * u
  BY <1>2, <1>5
<1> DEFINE rest == Min2(r.end - t.start, Chunk)
<1>7. /\ t.start \in r.start .. r.end - 1 /\ t.start \in Nat /\ t.scanEnd \in Nat
      /\ t.scanEnd <= r.end /\ t = ChunkAt(r, t.start, b)
  BY <1>1, ChunkFacts
<1>8. rest \in Nat
  BY <1>1, <1>7 DEF Min2
<1>9. CASE b
  <2>1. t.scanEnd = t.start + rest /\ t.readEnd = Min2(r.end, t.start + rest + (Width - 1))
    BY <1>7, <1>9 DEF ChunkAt
  <2> HIDE DEF rest
  <2>2. t.readEnd = r.end \/ t.readEnd = t.scanEnd + Width - 1
    BY <2>1, <1>1, <1>7, <1>8 DEF Min2
  <2> QED BY <2>2, <1>6, <1>9
<1>10. CASE ~b
  <2>1. /\ t.scanEnd = t.start + (rest \div Width) * Width
        /\ t.readEnd = Min2(r.end, t.start + (rest \div Width) * Width + 0)
    BY <1>7, <1>10 DEF ChunkAt
  <2>2. rest \div Width \in Nat
    <3> HIDE DEF rest
    <3> QED BY <1>1, <1>8, Quotient
  <2> DEFINE q == rest \div Width
  <2> HIDE DEF rest, q
  <2>3. q \in Nat /\ t.scanEnd = t.start + q * Width
    BY <2>1, <2>2 DEF q
  <2>4. t.readEnd = t.scanEnd
    BY <2>1, <2>3, <1>1, <1>7 DEF Min2, q
  <2>5. t.scanEnd = t.start + Width * q
    BY <2>3, <1>1
  <2> QED BY <2>3, <2>4, <2>5, <1>6, <1>10
<1> QED BY <1>9, <1>10

(* A number of values fits where a position does. *)
LEMMA Steps ==
  ASSUME NEW x \in Nat, NEW u \in Nat
  PROVE  (x + Width * u) % Width = x % Width
<1>1. Width \in Nat \ {0}
  BY ScannerAssumption
<1>2. /\ x \div Width \in Nat /\ x % Width \in 0 .. Width - 1
      /\ x = Width * (x \div Width) + (x % Width)
  BY <1>1, Quotient
<1> DEFINE q == x \div Width
           d == x % Width
<1> HIDE DEF q, d
<1>3. q + u \in Nat /\ x + Width * u = Width * (q + u) + d
  BY <1>1, <1>2, SMT DEF q, d
<1>4. (Width * (q + u) + d) % Width = d
  BY <1>1, <1>2, <1>3, Remainder DEF d
<1> QED BY <1>3, <1>4 DEF d

LEMMA PositionOf ==
  ASSUME NEW b \in BOOLEAN, NEW a
  PROVE  a \in Promise!Positions(b) <=>
           \E r \in Regions : /\ a \in r.start .. r.end - 1
                              /\ a + Width <= r.end
                              /\ b \/ (a - r.start) % Width = 0
  BY DEF Promise!Positions

(* Where a worker looks in a chunk are positions of the scan, ...           *)
LEMMA LooksAtPositions ==
  ASSUME NEW b \in BOOLEAN, NEW t \in Chunks(b), NEW o \in Nat,
         o + Width <= t.readEnd - t.start, b \/ o % Width = 0
  PROVE  t.start + o \in Promise!Positions(b)
<1>1. PICK r \in Regions : t \in ChunksOf(r, b)
  BY DEF Chunks
<1>2. r.start \in Nat /\ r.end \in Nat /\ Width \in Nat \ {0}
  BY ScannerAssumption
<1>3. t.start \in r.start .. r.end - 1 /\ t.readEnd <= r.end /\ t.readEnd \in Nat
  BY <1>1, ChunkFacts
<1>4. t.start + o \in r.start .. r.end - 1 /\ (t.start + o) + Width <= r.end
  BY <1>2, <1>3
<1>5. ASSUME ~b PROVE ((t.start + o) - r.start) % Width = 0
  <2>1. PICK u \in Nat : t.start = r.start + Width * u
    BY <1>1, ChunkSteps
  <2>2. (t.start + o) - r.start = o + Width * u
    BY <2>1, <1>2
  <2> QED BY <2>2, <1>5, Steps
<1>6. \E s \in Regions : /\ t.start + o \in s.start .. s.end - 1
                         /\ (t.start + o) + Width <= s.end
                         /\ b \/ ((t.start + o) - s.start) % Width = 0
  BY <1>4, <1>5
<1> DEFINE a == t.start + o
<1> HIDE DEF a
<1>7. \E s \in Regions : /\ a \in s.start .. s.end - 1
                         /\ a + Width <= s.end
                         /\ b \/ (a - s.start) % Width = 0
  BY <1>6 DEF a
<1>8. a \in Promise!Positions(b)
  BY <1>7, PositionOf
<1> QED BY <1>8 DEF a

(* ... and those are all the positions that start in the chunk.             *)
LEMMA LooksAtAll ==
  ASSUME NEW b \in BOOLEAN, NEW t \in Chunks(b), NEW a \in Promise!Positions(b),
         t.start <= a, a < t.scanEnd
  PROVE  /\ a \in Nat /\ a - t.start \in Nat
         /\ (a - t.start) + Width <= t.readEnd - t.start
         /\ b \/ (a - t.start) % Width = 0
<1>1. PICK r \in Regions : t \in ChunksOf(r, b)
  BY DEF Chunks
<1>2. PICK s \in Regions : /\ a \in s.start .. s.end - 1
                           /\ a + Width <= s.end
                           /\ b \/ (a - s.start) % Width = 0
  BY PositionOf
<1>3. /\ r.start \in Nat /\ r.end \in Nat /\ Width \in Nat \ {0}
      /\ s.start \in Nat /\ s.end \in Nat
  BY ScannerAssumption
<1>4. /\ t.start \in r.start .. r.end - 1 /\ t.readEnd \in Nat /\ t.scanEnd \in Nat
      /\ t.scanEnd <= r.end
  BY <1>1, ChunkFacts
<1>5. s = r
  BY <1>2, <1>3, <1>4, RegionsApart
<1>6. a \in Nat /\ a - t.start \in Nat
  BY <1>2, <1>3, <1>4
<1>7. CASE b
  <2>1. t.readEnd = r.end \/ t.readEnd = t.scanEnd + Width - 1
    BY <1>1, <1>7, ChunkSteps
  <2> QED BY <2>1, <1>2, <1>3, <1>4, <1>5, <1>6, <1>7
<1>8. CASE ~b
  <2>1. PICK u \in Nat : t.start = r.start + Width * u
    BY <1>1, ChunkSteps
  <2>2. t.readEnd = t.scanEnd
    BY <1>1, <1>8, ChunkSteps
  <2>3. PICK q \in Nat : t.scanEnd = t.start + Width * q
    BY <1>1, <1>8, ChunkSteps
  <2> DEFINE d == a - t.start
  <2>4. d \in Nat /\ a - r.start = d + Width * u /\ d < Width * q
    BY <2>1, <2>3, <1>3, <1>4, <1>6
  <2> HIDE DEF d
  <2>5. d % Width = 0
    BY <2>4, <1>2, <1>5, <1>8, Steps
  <2>7. PICK m \in Nat : d = Width * m
    BY <2>4, <2>5, <1>3, Divides
  <2>8. m < q
    <3> SUFFICES ASSUME q <= m PROVE FALSE
      BY <2>7, <2>3
    <3>1. q = m \/ Width * q + Width <= Width * m
      BY <1>3, Multiples
    <3>2. Width * q \in Nat /\ Width * m \in Nat
      BY <1>3
    <3> QED BY <3>1, <3>2, <2>4, <2>7, <1>3
  <2>9. Width * m + Width <= Width * q
    BY <2>8, <1>3, Multiples
  <2>10. d + Width <= t.readEnd - t.start
    BY <2>2, <2>3, <2>7, <2>9, <1>3, <1>4
  <2> QED BY <2>5, <2>10, <1>6 DEF d
<1> QED BY <1>7, <1>8

(* Every position starts in some chunk. *)
LEMMA ChunksCover ==
  ASSUME NEW b \in BOOLEAN, NEW a \in Promise!Positions(b)
  PROVE  \E t \in Chunks(b) : t.start <= a /\ a < t.scanEnd
<1>1. PICK r \in Regions : /\ a \in r.start .. r.end - 1
                           /\ a + Width <= r.end
                           /\ b \/ (a - r.start) % Width = 0
  BY PositionOf
<1>2. /\ r.start \in Nat /\ r.end \in Nat /\ Width \in Nat \ {0} /\ Chunk \in Nat \ {0}
      /\ Chunk % Width = 0
  BY ScannerAssumption
<1> DEFINE x == a - r.start
           c == x \div Chunk
           start == r.start + Chunk * c
           t == ChunkAt(r, start, b)
           rest == Min2(r.end - start, Chunk)
<1>3. x \in Nat /\ a = r.start + x
  BY <1>1, <1>2
<1>4. c \in Nat /\ x % Chunk \in 0 .. Chunk - 1 /\ x = Chunk * c + (x % Chunk)
  <2> HIDE DEF x
  <2> QED BY <1>2, <1>3, Quotient
<1> DEFINE d == x % Chunk
<1> HIDE DEF x, c, d
<1>5. Chunk * c \in Nat
  BY <1>2, <1>4
<1>6. start \in r.start .. r.end - 1 /\ start <= a /\ a = start + d /\ d \in 0 .. Chunk - 1
  BY <1>1, <1>2, <1>3, <1>4, <1>5 DEF d
<1>7. (start - r.start) % Chunk = 0
  <2>1. (Chunk * c + 0) % Chunk = 0
    BY <1>2, <1>4, Remainder
  <2>2. start - r.start = Chunk * c + 0
    BY <1>2, <1>5
  <2> QED BY <2>1, <2>2
<1> HIDE DEF start
<1>8. start \in Nat /\ rest \in Nat /\ d < rest
  BY <1>1, <1>2, <1>6 DEF Min2
<1>9. t.start = start
  BY DEF ChunkAt
<1>10. t.scanEnd \in Nat /\ a < t.scanEnd /\ start + Width <= t.scanEnd
  <2>1. CASE b
    <3>1. t.scanEnd = start + rest
      BY <2>1 DEF ChunkAt
    <3>2. Width <= Chunk
      <4>2. PICK e \in Nat : Chunk = Width * e
        BY <1>2, Divides
      <4>3. e # 0
        BY <4>2, <1>2
      <4>4. Width * 0 + Width <= Width * e
        BY <4>3, <1>2, Multiples
      <4> QED BY <4>2, <4>4, <1>2
    <3>3. Width <= rest
      BY <3>2, <1>1, <1>2, <1>6, <1>8 DEF Min2
    <3> HIDE DEF rest, t
    <3> QED BY <3>1, <3>3, <1>2, <1>6, <1>8
  <2>2. CASE ~b
    <3>1. t.scanEnd = start + (rest \div Width) * Width
      BY <2>2 DEF ChunkAt
    <3>2. /\ rest \div Width \in Nat /\ rest % Width \in 0 .. Width - 1
          /\ rest = Width * (rest \div Width) + (rest % Width)
      <4> HIDE DEF rest
      <4> QED BY <1>2, <1>8, Quotient
    <3> DEFINE q == rest \div Width
    <3> HIDE DEF q
    <3>3. PICK e \in Nat : Chunk = Width * e
      BY <1>2, Divides
    <3>4. e * c \in Nat /\ Chunk * c = Width * (e * c)
      BY <1>2, <1>4, <3>3, SMT
    <3>5. x = d + Width * (e * c)
      BY <1>2, <1>4, <1>5, <3>4 DEF d
    <3>6. d % Width = 0
      <4>1. x % Width = 0
        BY <1>1, <2>2 DEF x
      <4> QED BY <4>1, <3>4, <3>5, <1>6, Steps
    <3>7. d \in Nat
      BY <1>2, <1>6
    <3>8. PICK m \in Nat : d = Width * m
      BY <3>6, <3>7, <1>2, Divides
    <3>9. d + Width <= rest
      <4>1. m < e
        <5> SUFFICES ASSUME e <= m PROVE FALSE
          BY <3>8, <3>3
        <5>1. e = m \/ Width * e + Width <= Width * m
          BY <1>2, Multiples
        <5>2. Width * e \in Nat /\ Width * m \in Nat
          BY <1>2
        <5> QED BY <5>1, <5>2, <3>3, <3>8, <1>2, <1>6
      <4>2. Width * m + Width <= Width * e
        BY <4>1, <1>2, Multiples
      <4> QED BY <4>2, <3>3, <3>8, <1>1, <1>2, <1>6 DEF Min2
    <3>10. m < q
      <4> SUFFICES ASSUME q <= m PROVE FALSE
        BY <3>8, <3>2 DEF q
      <4>1. q = m \/ Width * q + Width <= Width * m
        <5>1. q \in Nat
          BY <3>2 DEF q
        <5>2. q < m => Width * q + Width <= Width * m
          BY <5>1, <1>2, Multiples
        <5> QED BY <5>1, <5>2
      <4>2. Width * q \in Nat /\ Width * m \in Nat
        BY <1>2, <3>2 DEF q
      <4>3. rest < Width * q + Width
        BY <1>2, <3>2, <4>2 DEF q
      <4> HIDE DEF rest
      <4> QED BY <4>1, <4>2, <4>3, <3>8, <3>9, <1>2, <1>8
    <3>11. Width * m + Width <= Width * q
      BY <3>10, <3>2, <1>2, Multiples DEF q
    <3>12. Width * q \in Nat /\ Width * q = q * Width /\ Width * m \in Nat
      BY <1>2, <3>2 DEF q
    <3>13. t.scanEnd = start + q * Width
      BY <3>1 DEF q
    <3> HIDE DEF rest, t
    <3> QED BY <3>11, <3>12, <3>13, <3>8, <1>2, <1>6, <1>8
  <2> QED BY <2>1, <2>2
<1>11. t \in ChunksOf(r, b)
  <2>1. t \in {ChunkAt(r, e, b) : e \in {f \in r.start .. r.end - 1 : (f - r.start) % Chunk = 0}}
    BY <1>6, <1>7
  <2>2. t.scanEnd - t.start >= Width
    <3> HIDE DEF t
    <3> QED BY <1>2, <1>8, <1>9, <1>10
  <2> HIDE DEF t
  <2> QED BY <2>1, <2>2 DEF ChunksOf
<1> HIDE DEF t
<1>12. t \in Chunks(b)
  BY <1>11 DEF Chunks
<1> QED BY <1>6, <1>9, <1>10, <1>12

-----------------------------------------------------------------------------
(* The numbers of a portion that are left for its worker, who is at the     *)
(* i-th.                                                                    *)
Span(i, n, p) == {k \in i .. n : \A j \in i .. k - 1 : j % p # 0}
Pending(w) ==
  IF wpc[w] \in {"first", "next"} THEN Span(work[w], WorkSize, Portion) ELSE {}
Done == {k \in 1 .. WorkSize : k <= given /\ \A w \in Workers : k \notin Pending(w)}

(* The addresses that the k-th task or entry is about. *)
Spots(k) ==
  IF request.kind = "first"
  THEN {a \in Promise!Positions(request.byteStep) :
          /\ Tasks(request.byteStep)[k].start <= a
          /\ a < Tasks(request.byteStep)[k].scanEnd}
  ELSE {list[k].addr}

(* Whether the value at a is one the scan looks for. *)
Hit(k, a) ==
  IF request.kind = "first" THEN Promise!LooksAt(a) /\ Promise!Wanted(request.cond, Element(mem, a))
  ELSE Promise!WantedAgain(request.cond, Element(mem, a), list[k].value)

(* Positions of the list are different, and whole values are there.         *)
ListOK ==
  /\ Promise!NoDuplicates(list)
  /\ \A i \in 1 .. Len(list) : list[i].addr + Width <= Size

Idle == request = NoScan => \A w \in Workers : wpc[w] = "done" /\ found[w] = <<>>

(* Workers are stopped by a failure or too many matches, which are counted. *)
Counts ==
  /\ stop => failed \/ overflow
  /\ IsFiniteSet(Finds)
  /\ IF overflow THEN request.kind = "first" /\ total = MaxResults + 1
     ELSE total = Cardinality(Finds)

(* Work is handed out in portions, each to one worker; nobody leaves before *)
(* all of it is.                                                            *)
Handed ==
  /\ given % Portion = 0
  /\ request # NoScan /\ ~stop => \A w \in Workers : wpc[w] = "done" => given >= WorkSize
  /\ \A w \in Workers : wpc[w] \in {"first", "next"} =>
       /\ wpc[w] = request.kind
       /\ work[w] \in 1 .. WorkSize
       /\ Pending(w) \subseteq 1 .. given
  /\ \A v, w \in Workers : v # w => Pending(v) \cap Pending(w) = {}

(* What was found was found in work that is done, each position once.       *)
FoundOK ==
  /\ \A f \in Finds : \E k \in Done : Match(f).addr \in Spots(k)
  /\ \A f, g \in Finds : f # g => Match(f).addr # Match(g).addr
  /\ request.kind = "next" => \A f \in Finds :
       Match(f).index \in 1 .. Len(list) /\ Match(f).addr = list[Match(f).index].addr

(* The workers have missed nothing in the work that is done, and made up    *)
(* nothing.                                                                 *)
FoundAll(k) ==
  \A a \in Spots(k) : Promise!Stable(a) =>
    IF Hit(k, a)
    THEN \E f \in Finds : Entry(Match(f)) = [addr |-> a, value |-> Element(mem, a)]
    ELSE \A f \in Finds : Match(f).addr # a
Exact ==
  request # NoScan /\ ~stop /\ (request.strict \/ full) =>
    \A k \in Done : FoundAll(k)

Inv == TypeOK /\ ListOK /\ Idle /\ Counts /\ Handed /\ FoundOK /\ Exact

-----------------------------------------------------------------------------
LEMMA Spans ==
  ASSUME NEW n \in Nat, NEW p \in Nat \ {0}, NEW i \in 1 .. n
  PROVE  /\ i \in Span(i, n, p)
         /\ i % p = 0 \/ i = n => Span(i, n, p) = {i}
         /\ i % p # 0 => Span(i + 1, n, p) = Span(i, n, p) \ {i}
<1>1. i \in Span(i, n, p)
  BY DEF Span
<1>2. ASSUME i % p = 0 \/ i = n PROVE Span(i, n, p) = {i}
  <2>1. ASSUME NEW k \in Span(i, n, p) PROVE k = i
    <3>1. k \in i .. n /\ \A j \in i .. k - 1 : j % p # 0
      BY DEF Span
    <3>2. i \in i .. k - 1 => i % p # 0
      BY <3>1
    <3> QED BY <3>1, <3>2, <1>2
  <2> QED BY <2>1, <1>1
<1>3. ASSUME i % p # 0 PROVE Span(i + 1, n, p) = Span(i, n, p) \ {i}
  <2>1. ASSUME NEW k \in Span(i + 1, n, p) PROVE k \in Span(i, n, p) \ {i}
    <3>1. k \in i + 1 .. n /\ \A j \in i + 1 .. k - 1 : j % p # 0
      BY <2>1 DEF Span
    <3>2. \A j \in i .. k - 1 : j = i \/ j \in i + 1 .. k - 1
      BY <3>1
    <3>3. k \in i .. n /\ k # i
      BY <3>1
    <3> QED BY <3>1, <3>2, <3>3, <1>3 DEF Span
  <2>2. ASSUME NEW k \in Span(i, n, p), k # i PROVE k \in Span(i + 1, n, p)
    <3>1. k \in i .. n /\ \A j \in i .. k - 1 : j % p # 0
      BY <2>2 DEF Span
    <3>2. \A j \in i + 1 .. k - 1 : j \in i .. k - 1
      BY <3>1
    <3> QED BY <3>1, <3>2, <2>2 DEF Span
  <2> QED BY <2>1, <2>2
<1> QED BY <1>1, <1>2, <1>3

(* A portion claimed when m numbers had been handed out. *)
LEMMA NewSpan ==
  ASSUME NEW n \in Nat, NEW p \in Nat \ {0}, NEW m \in Nat, m % p = 0
  PROVE  Span(m + 1, n, p) = {k \in m + 1 .. n : k <= m + p}
<1>1. PICK q \in Nat : m = p * q
  BY Divides
<1>2. (m + p) % p = 0
  <2>1. m + p = p * (q + 1) + 0
    BY <1>1
  <2>2. (p * (q + 1) + 0) % p = 0
    <3>1. q + 1 \in Nat /\ 0 \in 0 .. p - 1
      OBVIOUS
    <3> QED BY <3>1, Remainder
  <2> QED BY <2>1, <2>2
<1>3. ASSUME NEW j \in m + 1 .. m + p - 1 PROVE j % p # 0
  <2>1. j - m \in 0 .. p - 1 /\ j - m # 0 /\ j = p * q + (j - m)
    BY <1>1, <1>3
  <2>2. (p * q + (j - m)) % p = j - m
    BY <2>1, Remainder
  <2> QED BY <2>1, <2>2
<1>4. ASSUME NEW k \in Span(m + 1, n, p) PROVE k \in m + 1 .. n /\ k <= m + p
  <2>1. k \in m + 1 .. n /\ \A j \in m + 1 .. k - 1 : j % p # 0
    BY <1>4 DEF Span
  <2>2. m + p \in m + 1 .. k - 1 => FALSE
    BY <2>1, <1>2
  <2> QED BY <2>1, <2>2
<1>5. ASSUME NEW k \in m + 1 .. n, k <= m + p PROVE k \in Span(m + 1, n, p)
  <2>1. \A j \in m + 1 .. k - 1 : j \in m + 1 .. m + p - 1
    BY <1>5
  <2> QED BY <2>1, <1>3 DEF Span
<1> QED BY <1>4, <1>5

(* The kinds of request. *)
LEMMA Kinds ==
  ASSUME TypeOK
  PROVE  /\ request.kind \in {"none", "first", "next"}
         /\ request.kind = "none" <=> request = NoScan
         /\ request.kind = "first" => request.byteStep \in BOOLEAN
         /\ request # NoScan => request.strict \in BOOLEAN
  BY DEF TypeOK, NoScan, Promise!NoScan, Promise!Requests

LEMMA Sizes ==
  ASSUME TypeOK
  PROVE  WorkSize \in Nat /\ Portion \in Nat \ {0}
<1>1. Batch \in Nat \ {0}
  BY ScannerAssumption
<1>2. Len(list) \in Nat
  BY DEF TypeOK
<1>3. request.kind = "first" => Len(Tasks(request.byteStep)) \in Nat
  BY Kinds, TasksAre
<1> QED BY <1>1, <1>2, <1>3 DEF WorkSize, Portion

(* The work of a scan does not change while it runs. *)
LEMMA SameWork ==
  ASSUME UNCHANGED <<request, list>>
  PROVE  /\ WorkSize' = WorkSize /\ Portion' = Portion
         /\ \A k : Spots(k)' = Spots(k)
         /\ ListOK' = ListOK
  BY DEF WorkSize, Portion, Spots, ListOK, Promise!NoDuplicates

LEMMA SpotsFit ==
  ASSUME TypeOK, ListOK, NEW k \in 1 .. WorkSize, NEW a \in Spots(k)
  PROVE  a \in Nat /\ a + Width <= Size /\ a \in Address
<1>1. Size \in Nat /\ Width \in Nat \ {0}
  BY ScannerAssumption
<1>2. CASE request.kind = "first"
  <2>1. a \in Promise!Positions(request.byteStep)
    BY <1>2 DEF Spots
  <2>2. PICK r \in Regions : a \in r.start .. r.end - 1 /\ a + Width <= r.end
    BY <2>1, <1>2, Kinds, PositionOf
  <2>3. r.start \in Nat /\ r.end \in Nat /\ r.end <= Size
    BY ScannerAssumption
  <2> QED BY <2>2, <2>3, <1>1 DEF Address
<1>3. CASE request.kind # "first"
  <2>1. k \in 1 .. Len(list) /\ a = list[k].addr
    BY <1>3 DEF Spots, WorkSize
  <2>2. list[k] \in Entries
    BY <2>1 DEF TypeOK
  <2> QED BY <2>1, <2>2 , <1>1 DEF ListOK, Entries, Address
<1> QED BY <1>2, <1>3

(* No position is in two pieces of work. *)
LEMMA SpotsApart ==
  ASSUME TypeOK, ListOK, NEW k \in 1 .. WorkSize, NEW l \in 1 .. WorkSize, k # l
  PROVE  Spots(k) \cap Spots(l) = {}
<1> SUFFICES ASSUME NEW a \in Spots(k), a \in Spots(l) PROVE FALSE
  OBVIOUS
<1>1. CASE request.kind = "first"
  <2> DEFINE b == request.byteStep
             s == Tasks(b)[k]
             t == Tasks(b)[l]
  <2>1. b \in BOOLEAN
    BY <1>1, Kinds
  <2>2. s \in Chunks(b) /\ t \in Chunks(b) /\ s # t
    BY <1>1, <2>1, TasksAre DEF WorkSize
  <2>3. s.start <= a /\ a < s.scanEnd /\ t.start <= a /\ a < t.scanEnd
    BY <1>1 DEF Spots
  <2>4. a \in Nat
    BY SpotsFit
  <2> HIDE DEF b, s, t
  <2>5. s.scanEnd <= t.start \/ t.scanEnd <= s.start
    BY <2>1, <2>2, ChunksApart
  <2>6. s.start \in Nat /\ s.scanEnd \in Nat /\ t.start \in Nat /\ t.scanEnd \in Nat
    BY <2>1, <2>2, ChunkStart
  <2> QED BY <2>3, <2>4, <2>5, <2>6
<1>2. CASE request.kind # "first"
  BY <1>2 DEF Spots, WorkSize, ListOK, Promise!NoDuplicates
<1> QED BY <1>1, <1>2

-----------------------------------------------------------------------------
LEMMA SamePending ==
  ASSUME UNCHANGED <<request, list>>, NEW v,
         wpc'[v] = wpc[v], work'[v] = work[v]
  PROVE  Pending(v)' = Pending(v)
  BY SameWork DEF Pending

LEMMA WorkPending ==
  ASSUME TypeOK, Handed, NEW w \in Workers, wpc[w] \in {"first", "next"}
  PROVE  /\ work[w] \in 1 .. WorkSize /\ work[w] \in Pending(w)
         /\ work[w] <= given /\ work[w] \notin Done
<1>1. work[w] \in 1 .. WorkSize /\ Pending(w) \subseteq 1 .. given
  BY DEF Handed
<1>2. work[w] \in Pending(w)
  BY <1>1, Sizes, Spans DEF Pending
<1> QED BY <1>1, <1>2 DEF Done, TypeOK

(* A worker has dealt with the number it was at, or leaves because the      *)
(* workers are stopped.                                                     *)
LEMMA Dealt ==
  ASSUME TypeOK, Handed, NEW w \in Workers, wpc[w] \in {"first", "next"},
         UNCHANGED <<request, list, given>>,
         \A v \in Workers \ {w} : wpc'[v] = wpc[v] /\ work'[v] = work[v],
         Pending(w)' \subseteq Pending(w) \ {work[w]},
         stop => stop', wpc'[w] = "done" => stop',
         wpc'[w] \in {"first", "next"} => wpc'[w] = wpc[w] /\ work'[w] \in 1 .. WorkSize
  PROVE  /\ Handed' /\ Done \subseteq Done' /\ work[w] \in Done'
         /\ Pending(w)' = Pending(w) \ {work[w]} => Done' = Done \cup {work[w]}
<1>1. WorkSize' = WorkSize /\ Portion' = Portion
  BY SameWork
<1>2. \A v \in Workers \ {w} : Pending(v)' = Pending(v)
  BY SamePending
<1>3. \A v \in Workers : Pending(v)' \subseteq Pending(v)
  BY <1>2
<1>4. work[w] \in 1 .. WorkSize /\ work[w] \in Pending(w) /\ work[w] <= given
  BY WorkPending
<1>5. \A v \in Workers \ {w} : work[w] \notin Pending(v)
  BY <1>4 DEF Handed
<1>6. work[w] \in Done' /\ Done \subseteq Done'
  BY <1>1, <1>2, <1>3, <1>4, <1>5 DEF Done
<1>7. ASSUME Pending(w)' = Pending(w) \ {work[w]} PROVE Done' \subseteq Done \cup {work[w]}
  BY <1>1, <1>2, <1>7 DEF Done
<1>8. Handed'
  <2>1. (given % Portion = 0)'
    BY <1>1 DEF Handed
  <2>2. (request # NoScan /\ ~stop =>
           \A v \in Workers : wpc[v] = "done" => given >= WorkSize)'
    BY <1>1 DEF Handed
  <2>3. (\A v \in Workers : wpc[v] \in {"first", "next"} =>
           wpc[v] = request.kind /\ work[v] \in 1 .. WorkSize /\ Pending(v) \subseteq 1 .. given)'
    BY <1>1, <1>3 DEF Handed
  <2>4. (\A u, v \in Workers : u # v => Pending(u) \cap Pending(v) = {})'
    BY <1>3 DEF Handed
  <2> QED BY <2>1, <2>2, <2>3, <2>4 DEF Handed
<1> QED BY <1>6, <1>7, <1>8

(* The matches that a worker has found more. *)
LEMMA MoreFinds ==
  ASSUME NEW w \in Workers, NEW new \in Seq(Matches),
         found \in [Workers -> Seq(Matches)],
         found' = [found EXCEPT ![w] = @ \o new]
  PROVE  LET newFinds == {<<w, Len(found[w]) + i>> : i \in 1 .. Len(new)} IN
         /\ found' \in [Workers -> Seq(Matches)]
         /\ Finds' = Finds \cup newFinds /\ Finds \cap newFinds = {}
         /\ \A f \in Finds : Match(f)' = Match(f)
         /\ \A f : \A i \in 1 .. Len(new) :
              f = <<w, Len(found[w]) + i>> => Match(f)' = new[i]
<1> DEFINE n == Len(found[w])
           newFinds == {<<w, n + i>> : i \in 1 .. Len(new)}
<1>1. n \in Nat /\ Len(new) \in Nat
  OBVIOUS
<1>2. found'[w] = found[w] \o new /\ \A v \in Workers \ {w} : found'[v] = found[v]
  OBVIOUS
<1>3. Len(found'[w]) = n + Len(new) /\ found'[w] \in Seq(Matches)
  BY <1>2
<1>4. /\ \A i \in 1 .. n : found'[w][i] = found[w][i]
      /\ \A i \in 1 .. Len(new) : found'[w][n + i] = new[i]
  BY <1>2
<1>5. \A f : f \in Finds <=> \E v \in Workers : \E i \in 1 .. Len(found[v]) : f = <<v, i>>
  BY DEF Finds
<1>6. \A f : f \in Finds' <=> \E v \in Workers : \E i \in 1 .. Len(found'[v]) : f = <<v, i>>
  BY DEF Finds
<1>7. \A f : f \in newFinds <=> \E i \in 1 .. Len(new) : f = <<w, n + i>>
  OBVIOUS
<1> HIDE DEF newFinds
<1>8. Finds' = Finds \cup newFinds
  <2>1. ASSUME NEW f \in Finds' PROVE f \in Finds \cup newFinds
    <3>10. PICK v \in Workers : \E i \in 1 .. Len(found'[v]) : f = <<v, i>>
      BY <1>6, <2>1
    <3>1. PICK i \in 1 .. Len(found'[v]) : f = <<v, i>>
      BY <3>10
    <3>2. CASE v # w
      BY <3>1, <3>2, <1>2, <1>5
    <3>3. CASE v = w /\ i \in 1 .. n
      BY <3>1, <3>3, <1>5
    <3>4. CASE v = w /\ i \notin 1 .. n
      <4>1. i - n \in 1 .. Len(new) /\ i = n + (i - n)
        BY <3>1, <3>4, <1>1, <1>3
      <4> QED BY <3>1, <3>4, <4>1, <1>7
    <3> QED BY <3>2, <3>3, <3>4
  <2>2. ASSUME NEW f \in Finds PROVE f \in Finds'
    <3>10. PICK v \in Workers : \E i \in 1 .. Len(found[v]) : f = <<v, i>>
      BY <1>5, <2>2
    <3>1. PICK i \in 1 .. Len(found[v]) : f = <<v, i>>
      BY <3>10
    <3>2. i \in 1 .. Len(found'[v])
      BY <3>1, <1>1, <1>2, <1>3
    <3> QED BY <3>1, <3>2, <1>6
  <2>3. ASSUME NEW f \in newFinds PROVE f \in Finds'
    <3>1. PICK i \in 1 .. Len(new) : f = <<w, n + i>>
      BY <1>7, <2>3
    <3>2. n + i \in 1 .. Len(found'[w])
      BY <3>1, <1>1, <1>3
    <3> QED BY <3>1, <3>2, <1>6
  <2> QED BY <2>1, <2>2, <2>3
<1>9. Finds \cap newFinds = {}
  <2> SUFFICES ASSUME NEW f \in Finds, f \in newFinds PROVE FALSE
    OBVIOUS
  <2>1. PICK i \in 1 .. Len(new) : f = <<w, n + i>>
    BY <1>7
  <2>20. PICK v \in Workers : \E j \in 1 .. Len(found[v]) : f = <<v, j>>
    BY <1>5
  <2>2. PICK j \in 1 .. Len(found[v]) : f = <<v, j>>
    BY <2>20
  <2> QED BY <2>1, <2>2, <1>1
<1>10. ASSUME NEW f \in Finds PROVE Match(f)' = Match(f)
  <2>10. PICK v \in Workers : \E i \in 1 .. Len(found[v]) : f = <<v, i>>
    BY <1>5
  <2>1. PICK i \in 1 .. Len(found[v]) : f = <<v, i>>
    BY <2>10
  <2> QED BY <2>1, <1>2, <1>4 DEF Match
<1>11. ASSUME NEW f, NEW i \in 1 .. Len(new), f = <<w, n + i>>
       PROVE  Match(f)' = new[i]
  <2>1. f[1] = w /\ f[2] = n + i
    BY <1>11
  <2> QED BY <2>1, <1>4 DEF Match
<1>12. found' \in [Workers -> Seq(Matches)]
  BY <1>3
<1> QED BY <1>8, <1>9, <1>10, <1>11, <1>12 DEF newFinds

LEMMA FindsType ==
  ASSUME TypeOK, NEW f \in Finds
  PROVE  Match(f) \in Matches /\ Entry(Match(f)) \in Entries
         /\ Entry(Match(f)).addr = Match(f).addr
<1>10. PICK v \in Workers : \E i \in 1 .. Len(found[v]) : f = <<v, i>>
  BY DEF Finds
<1>1. PICK i \in 1 .. Len(found[v]) : f = <<v, i>>
  BY <1>10
<1>2. found[v] \in Seq(Matches)
  BY DEF TypeOK
<1>3. found[v][i] \in Matches
  BY <1>1, <1>2
<1>4. Match(f) = found[v][i]
  BY <1>1 DEF Match
<1>5. Match(f).addr \in Address /\ Match(f).value \in Value
  BY <1>3, <1>4 DEF Matches, Entries
<1> QED BY <1>3, <1>4, <1>5 DEF Entry, Entries

LEMMA UpTo ==
  ASSUME NEW n \in Nat
  PROVE  IsFiniteSet(1 .. n) /\ Cardinality(1 .. n) = n
  BY FS_Interval

LEMMA CountMore ==
  ASSUME NEW w \in Workers, NEW new \in Seq(Matches),
         found \in [Workers -> Seq(Matches)], IsFiniteSet(Finds),
         found' = [found EXCEPT ![w] = @ \o new]
  PROVE  IsFiniteSet(Finds)' /\ Cardinality(Finds)' = Cardinality(Finds) + Len(new)
<1> DEFINE n == Len(found[w])
           newFinds == {<<w, n + i>> : i \in 1 .. Len(new)}
           f == [i \in 1 .. Len(new) |-> <<w, n + i>>]
<1>1. n \in Nat /\ Len(new) \in Nat
  OBVIOUS
<1>2. Finds' = Finds \cup newFinds /\ Finds \cap newFinds = {}
  BY MoreFinds
<1>3. f \in Bijection(1 .. Len(new), newFinds)
  <2>1. f \in [1 .. Len(new) -> newFinds]
    OBVIOUS
  <2>2. \A i, j \in 1 .. Len(new) : f[i] = f[j] => i = j
    BY <1>1
  <2>3. \A x \in newFinds : \E i \in 1 .. Len(new) : f[i] = x
    OBVIOUS
  <2> HIDE DEF f, newFinds
  <2> QED BY <2>1, <2>2, <2>3 DEF Bijection, Injection, IsInjective, Surjection
<1>4. IsFiniteSet(1 .. Len(new)) /\ Cardinality(1 .. Len(new)) = Len(new)
  BY <1>1, UpTo
<1>5. IsFiniteSet(newFinds) /\ Cardinality(newFinds) = Len(new)
  BY <1>3, <1>4, FS_Bijection DEF ExistsBijection
<1> HIDE DEF newFinds
<1>6. Cardinality(Finds) \in Nat
  BY FS_CardinalityType
<1>7. /\ IsFiniteSet(Finds \cup newFinds)
      /\ Cardinality(Finds \cup newFinds)
           = Cardinality(Finds) + Cardinality(newFinds) - Cardinality(Finds \cap newFinds)
  BY <1>5, FS_Union
<1>8. Cardinality({}) = 0
  BY FS_EmptySet
<1>9. Cardinality(Finds \cap newFinds) = 0
  BY <1>2, <1>8
<1>10. Cardinality(Finds \cup newFinds) = Cardinality(Finds) + Len(new)
  BY <1>1, <1>5, <1>6, <1>7, <1>9
<1> QED BY <1>2, <1>7, <1>10

(* What a worker adds for number k: only positions of that number, each     *)
(* once; and all that are hits, when nothing has gone wrong.                *)
Adds(k, new) ==
  /\ \A i \in 1 .. Len(new) : new[i].addr \in Spots(k)
  /\ \A i, j \in 1 .. Len(new) : i # j => new[i].addr # new[j].addr
  /\ request.kind = "next" => \A i \in 1 .. Len(new) : new[i].index = k
AddsAll(k, new) ==
  \A a \in Spots(k) : Promise!Stable(a) =>
    IF Hit(k, a)
    THEN \E i \in 1 .. Len(new) : Entry(new[i]) = [addr |-> a, value |-> Element(mem, a)]
    ELSE \A i \in 1 .. Len(new) : new[i].addr # a

LEMMA Collected ==
  ASSUME TypeOK, ListOK, FoundOK, Exact, NEW w \in Workers, NEW k \in 1 .. WorkSize,
         k \notin Done, NEW new \in Seq(Matches),
         UNCHANGED <<mem, list, request, changed>>,
         found' = [found EXCEPT ![w] = @ \o new],
         k \in Done', Done \subseteq Done', stop => stop', full' => full,
         Adds(k, new),
         request # NoScan /\ ~stop' /\ (request.strict \/ full') =>
           Done' = Done \cup {k} /\ AddsAll(k, new)
  PROVE  FoundOK' /\ Exact'
<1> DEFINE n == Len(found[w])
           newFinds == {<<w, n + i>> : i \in 1 .. Len(new)}
<1>1. found \in [Workers -> Seq(Matches)]
  BY DEF TypeOK
<1>2. /\ Finds' = Finds \cup newFinds /\ Finds \cap newFinds = {}
      /\ \A f \in Finds : Match(f)' = Match(f)
      /\ \A f : \A i \in 1 .. Len(new) : f = <<w, n + i>> => Match(f)' = new[i]
  BY <1>1, MoreFinds
<1>3. /\ \A l : Spots(l)' = Spots(l) /\ WorkSize' = WorkSize
  BY SameWork
<1>4. /\ \A f \in newFinds : \E i \in 1 .. Len(new) : f = <<w, n + i>> /\ Match(f)' = new[i]
      /\ \A i \in 1 .. Len(new) : \E f \in newFinds : Match(f)' = new[i]
  BY <1>2
<1>5. \A f, g \in newFinds : f # g => Match(f)'.addr # Match(g)'.addr
  <2> SUFFICES ASSUME NEW f \in newFinds, NEW g \in newFinds, f # g
               PROVE  Match(f)'.addr # Match(g)'.addr
    OBVIOUS
  <2>1. PICK i \in 1 .. Len(new) : f = <<w, n + i>> /\ Match(f)' = new[i]
    BY <1>4
  <2>2. PICK j \in 1 .. Len(new) : g = <<w, n + j>> /\ Match(g)' = new[j]
    BY <1>4
  <2>3. i # j
    BY <2>1, <2>2
  <2> QED BY <2>1, <2>2, <2>3 DEF Adds
<1> HIDE DEF newFinds
<1>6. \A f \in newFinds : Match(f)'.addr \in Spots(k)
  BY <1>4 DEF Adds
<1>7. \A l \in Done : l \in 1 .. WorkSize /\ l # k
  BY DEF Done
<1>8. \A f \in Finds : \E l \in Done : Match(f)'.addr \in Spots(l)
  BY <1>2 DEF FoundOK
<1>9. \A f \in Finds : Match(f)'.addr \notin Spots(k)
  BY <1>7, <1>8, SpotsApart
<1>10. FoundOK'
  <2>1. \A f \in Finds' : \E l \in Done' : Match(f)'.addr \in Spots(l)'
    BY <1>2, <1>3, <1>6, <1>8
  <2>2. \A f, g \in Finds' : f # g => Match(f)'.addr # Match(g)'.addr
    <3>1. \A f, g \in Finds : f # g => Match(f)'.addr # Match(g)'.addr
      BY <1>2 DEF FoundOK
    <3> QED BY <3>1, <1>2, <1>5, <1>6, <1>9
  <2>3. ASSUME request.kind = "next", NEW f \in Finds'
        PROVE  Match(f)'.index \in 1 .. Len(list) /\ Match(f)'.addr = list[Match(f)'.index].addr
    <3>1. CASE f \in Finds
      BY <3>1, <2>3, <1>2 DEF FoundOK
    <3>2. CASE f \in newFinds
      <4>1. Match(f)'.index = k
        BY <3>2, <2>3, <1>4 DEF Adds
      <4>2. k \in 1 .. Len(list) /\ Spots(k) = {list[k].addr}
        BY <2>3 DEF WorkSize, Spots
      <4> QED BY <4>1, <4>2, <3>2, <1>6
    <3> QED BY <3>1, <3>2, <1>2
  <2> QED BY <2>1, <2>2, <2>3 DEF FoundOK
<1>11. Exact'
  <2>1. SUFFICES ASSUME request # NoScan, ~stop', request.strict \/ full'
                 PROVE  \A l \in Done' : FoundAll(l)'
    BY DEF Exact
  <2>2. Done' = Done \cup {k} /\ AddsAll(k, new)
    BY <2>1
  <2>3. \A l \in Done : FoundAll(l)
    BY <2>1 DEF Exact
  <2>4. \A l, a : Hit(l, a)' = Hit(l, a)
    BY DEF Hit, Promise!LooksAt
  <2>5. \A a : Promise!Stable(a)' = Promise!Stable(a) /\ Element(mem, a)' = Element(mem, a)
    BY DEF Promise!Stable, Element
  <2>6. \A f : Entry(Match(f))' = Entry(Match(f)')
    BY DEF Entry
  <2>7. ASSUME NEW l \in Done, NEW a \in Spots(l), Promise!Stable(a)
        PROVE  IF Hit(l, a)
               THEN \E f \in Finds' : Entry(Match(f)') = [addr |-> a, value |-> Element(mem, a)]
               ELSE \A f \in Finds' : Match(f)'.addr # a
    <3>1. a \notin Spots(k)
      BY <1>7, SpotsApart
    <3>2. \A f \in newFinds : Match(f)'.addr # a
      BY <3>1, <1>6
    <3>3. IF Hit(l, a)
          THEN \E f \in Finds : Entry(Match(f)) = [addr |-> a, value |-> Element(mem, a)]
          ELSE \A f \in Finds : Match(f).addr # a
      BY <2>3, <2>7 DEF FoundAll
    <3> QED BY <3>2, <3>3, <1>2
  <2>8. ASSUME NEW a \in Spots(k), Promise!Stable(a)
        PROVE  IF Hit(k, a)
               THEN \E f \in Finds' : Entry(Match(f)') = [addr |-> a, value |-> Element(mem, a)]
               ELSE \A f \in Finds' : Match(f)'.addr # a
    <3>1. IF Hit(k, a)
          THEN \E i \in 1 .. Len(new) : Entry(new[i]) = [addr |-> a, value |-> Element(mem, a)]
          ELSE \A i \in 1 .. Len(new) : new[i].addr # a
      BY <2>2, <2>8 DEF AddsAll
    <3>2. \A f \in Finds : Match(f)'.addr # a
      BY <1>9
    <3> QED BY <3>1, <3>2, <1>2, <1>4
  <2>9. ASSUME NEW l \in Done', NEW a \in Spots(l), Promise!Stable(a)
        PROVE  IF Hit(l, a)
               THEN \E f \in Finds' : Entry(Match(f)') = [addr |-> a, value |-> Element(mem, a)]
               ELSE \A f \in Finds' : Match(f)'.addr # a
    BY <2>2, <2>7, <2>8, <2>9
  <2> QED BY <2>4, <2>5, <2>6, <2>9, <1>3 DEF FoundAll
<1> QED BY <1>10, <1>11

-----------------------------------------------------------------------------
(* No scan, or one that has just begun. *)
Fresh ==
  /\ given = 0 /\ total = 0 /\ stop = FALSE /\ failed = FALSE /\ overflow = FALSE
  /\ found = [w \in Workers |-> <<>>]
  /\ wpc = [w \in Workers |-> IF request = NoScan THEN "done" ELSE "claim"]

LEMMA FreshFinds ==
  Fresh => Finds = {} /\ Cardinality(Finds) = 0
<1> SUFFICES ASSUME Fresh PROVE Finds = {}
  BY FS_EmptySet
<1>1. \A w \in Workers : Len(found[w]) = 0
  BY DEF Fresh
<1> QED BY <1>1 DEF Finds

LEMMA FreshOK ==
  TypeOK /\ Fresh => Idle /\ Counts /\ Handed /\ FoundOK /\ Exact
<1> SUFFICES ASSUME TypeOK, Fresh PROVE Idle /\ Counts /\ Handed /\ FoundOK /\ Exact
  OBVIOUS
<1>1. Finds = {} /\ Cardinality(Finds) = 0 /\ IsFiniteSet(Finds)
  BY FreshFinds, FS_EmptySet
<1>2. WorkSize \in Nat /\ Portion \in Nat \ {0}
  BY Sizes
<1>3. Done = {}
  BY <1>2 DEF Done, Fresh
<1>4. \A w \in Workers : wpc[w] \notin {"first", "next"} /\ Pending(w) = {}
  BY DEF Fresh, Pending
<1>5. 0 % Portion = 0
  <2> DEFINE p == Portion
  <2> HIDE DEF p
  <2>1. p \in Nat \ {0}
    BY <1>2 DEF p
  <2>2. 0 % p = 0
    BY <2>1, Quotient
  <2> QED BY <2>2 DEF p
<1>6. Idle
  BY DEF Idle, Fresh
<1>7. Counts
  BY <1>1 DEF Counts, Fresh
<1>8. Handed
  BY <1>4, <1>5 DEF Handed, Fresh
<1>9. FoundOK
  BY <1>1 DEF FoundOK
<1>10. Exact
  BY <1>3 DEF Exact
<1> QED BY <1>6, <1>7, <1>8, <1>9, <1>10

LEMMA FreshNext ==
  TypeOK' /\ Fresh' => (Idle /\ Counts /\ Handed /\ FoundOK /\ Exact)'
  BY FreshOK, PTL

LEMMA InvInit ==
  Init => Inv
<1> SUFFICES ASSUME Init PROVE Inv
  OBVIOUS
<1>1. Fresh
  BY DEF Init, Fresh, Promise!Init, NoScan
<1>2. TypeOK
  <2>1. Finds = {} /\ Cardinality(Finds) = 0
    BY <1>1, FreshFinds
  <2>2. MaxResults \in Nat
    BY ScannerAssumption
  <2>3. /\ mem \in [Address -> Cells] /\ list \in Seq(Entries) /\ Len(list) <= MaxResults
        /\ request = NoScan /\ changed \subseteq Address /\ full \in BOOLEAN
    BY <2>2 DEF Init, Promise!Init, NoScan, Address
  <2>4. /\ wpc \in [Workers -> {"claim", "first", "next", "done"}]
        /\ work \in [Workers -> Nat]
        /\ buffer \in [Workers -> Seq(Cells)]
        /\ found \in [Workers -> Seq(Matches)]
    BY DEF Init
  <2>5. /\ given \in Nat /\ total \in 0 .. MaxResults + 1
        /\ stop \in BOOLEAN /\ failed \in BOOLEAN /\ overflow \in BOOLEAN
    <3>1. given \in Nat /\ total \in 0 .. MaxResults + 1
      BY <1>1, <2>2 DEF Fresh
    <3>2. stop \in BOOLEAN /\ failed \in BOOLEAN /\ overflow \in BOOLEAN
      BY <1>1, Zenon DEF Fresh
    <3> QED BY <3>1, <3>2
  <2>6. Cardinality(Finds) <= MaxResults
    BY <2>1, <2>2
  <2> QED BY <2>3, <2>4, <2>5, <2>6 DEF TypeOK
<1>3. ListOK
  BY DEF Init, Promise!Init, ListOK, Promise!NoDuplicates
<1> QED BY <1>1, <1>2, <1>3, FreshOK DEF Inv

LEMMA ElementType ==
  ASSUME NEW m \in [Address -> Cells], NEW a \in Nat, a + Width <= Size
  PROVE  Element(m, a) \in Value
<1>1. Size \in Nat /\ Width \in Nat \ {0}
  BY ScannerAssumption
<1>2. \A i \in 1 .. Width : a + i - 1 \in Address
  BY <1>1 DEF Address
<1> QED BY <1>2 DEF Element, Promise!Element, Value

(* The target writes: what was found is still exact about what it left      *)
(* alone.                                                                   *)
LEMMA WriteInv ==
  ASSUME Inv, NEW a \in Address, NEW c \in Cells, WriteMemory(a, c)
  PROVE  Inv'
<1>1. UNCHANGED <<list, request, full, shared, local>>
  BY DEF WriteMemory
<1>2. mem' = [mem EXCEPT ![a] = c]
      /\ changed' = IF request = NoScan THEN changed ELSE changed \cup {a}
  BY DEF WriteMemory
<1>3. Finds' = Finds /\ (\A f : Match(f)' = Match(f) /\ Entry(Match(f))' = Entry(Match(f)))
  BY <1>1 DEF Finds, Match, Entry, local
<1>4. WorkSize' = WorkSize /\ Portion' = Portion /\ (\A k : Spots(k)' = Spots(k)) /\ ListOK' = ListOK
  BY <1>1, SameWork
<1>5. \A w : Pending(w)' = Pending(w)
  BY <1>1, SamePending DEF local
<1>6. Done' = Done
  BY <1>1, <1>4, <1>5 DEF Done, shared
<1>7. TypeOK'
  <2>1. mem' \in [Address -> Cells]
    BY <1>2 DEF Inv, TypeOK
  <2>2. changed' \subseteq Address
    BY <1>2 DEF Inv, TypeOK
  <2> QED BY <2>1, <2>2, <1>1, <1>3 DEF Inv, TypeOK, shared, local
<1>8. Idle' /\ Counts' /\ Handed' /\ FoundOK'
  BY <1>1, <1>3, <1>4, <1>5, <1>6 DEF Inv, Idle, Counts, Handed, FoundOK, shared, local
<1>9. Exact'
  <2> SUFFICES ASSUME request # NoScan, ~stop, request.strict \/ full,
                      NEW k \in Done, NEW b \in Spots(k), Promise!Stable(b)'
               PROVE  IF Hit(k, b)'
                      THEN \E f \in Finds : Entry(Match(f)) = [addr |-> b, value |-> Element(mem, b)']
                      ELSE \A f \in Finds : Match(f).addr # b
    BY <1>1, <1>3, <1>4, <1>6 DEF Exact, FoundAll, shared
  <2>1. changed' = changed \cup {a}
    BY <1>2
  <2>2. Promise!Stable(b) /\ a \notin b .. b + Width - 1
    BY <2>1 DEF Promise!Stable
  <2>3. b \in Nat /\ b + Width <= Size
    BY SpotsFit DEF Inv, Done
  <2>4. Element(mem, b)' = Element(mem, b)
    <3>1. \A i \in 1 .. Width : b + i - 1 \in b .. b + Width - 1 /\ b + i - 1 \in Address
      BY <2>3, ScannerAssumption DEF Address
    <3>2. \A i \in 1 .. Width : mem'[b + i - 1] = mem[b + i - 1]
      BY <3>1, <2>2, <1>2 DEF Inv, TypeOK
    <3> QED BY <3>2 DEF Element, Promise!Element
  <2>5. Hit(k, b)' = Hit(k, b)
    BY <2>4, <1>1 DEF Hit, Promise!LooksAt
  <2>6. FoundAll(k)
    BY DEF Inv, Exact
  <2> QED BY <2>2, <2>4, <2>5, <2>6 DEF FoundAll
<1> QED BY <1>4, <1>7, <1>8, <1>9 DEF Inv

LEMMA ClearInv ==
  ASSUME Inv, Clear
  PROVE  Inv'
<1>1. /\ request = NoScan /\ list' = <<>>
      /\ UNCHANGED <<mem, request, changed, full, shared, local>>
  BY DEF Clear
<1>2. TypeOK'
  BY <1>1, ScannerAssumption DEF Inv, TypeOK, shared, local, Finds
<1>3. ListOK'
  BY <1>1 DEF ListOK, Promise!NoDuplicates
<1>4. Idle' /\ Counts'
  BY <1>1 DEF Inv, Idle, Counts, Finds, shared, local
<1>5. Finds = {}
  <2>1. \A w \in Workers : Len(found[w]) = 0
    BY <1>1 DEF Inv, Idle
  <2> QED BY <2>1 DEF Finds
<1>6. Finds' = {}
  BY <1>1, <1>5 DEF Finds, local
<1>7. \A w \in Workers : Pending(w)' = {} /\ wpc'[w] \notin {"first", "next"}
  BY <1>1 DEF Inv, Idle, Pending, local
<1>8. Portion' = Portion
  BY <1>1 DEF Portion
<1>9. Handed'
  BY <1>1, <1>7, <1>8 DEF Inv, Handed, shared
<1>10. FoundOK' /\ Exact'
  BY <1>1, <1>6 DEF FoundOK, Exact
<1> QED BY <1>2, <1>3, <1>4, <1>9, <1>10 DEF Inv

LEMMA StartInv ==
  ASSUME Inv, NEW r \in Promise!Requests, StartScan(r), list' = list \/ list' = <<>>
  PROVE  Inv'
<1>1. r # NoScan
  BY DEF NoScan, Promise!NoScan, Promise!Requests
<1>2. Fresh'
  BY <1>1 DEF StartScan, Fresh
<1>3. (Finds = {} /\ Cardinality(Finds) = 0)'
  BY <1>2, FreshFinds, PTL
<1>4. TypeOK'
  <2>1. MaxResults \in Nat
    BY ScannerAssumption
  <2>2. (list \in Seq(Entries) /\ Len(list) <= MaxResults)'
    <3>1. list' = list => (list \in Seq(Entries) /\ Len(list) <= MaxResults)'
      BY DEF Inv, TypeOK
    <3>2. list' = <<>> => (list \in Seq(Entries) /\ Len(list) <= MaxResults)'
      BY <2>1
    <3> QED BY <3>1, <3>2
  <2>3. /\ given' = 0 /\ total' = 0 /\ stop' = FALSE /\ failed' = FALSE /\ overflow' = FALSE
        /\ request' = r /\ UNCHANGED <<mem, changed, full>>
    BY DEF StartScan
  <2>4. (/\ wpc \in [Workers -> {"claim", "first", "next", "done"}]
         /\ work \in [Workers -> Nat]
         /\ buffer \in [Workers -> Seq(Cells)]
         /\ found \in [Workers -> Seq(Matches)])'
    BY DEF StartScan
  <2>5. (Cardinality(Finds) <= MaxResults)'
    BY <1>3, <2>1
  <2>6. (/\ given \in Nat /\ total \in 0 .. MaxResults + 1
         /\ stop \in BOOLEAN /\ failed \in BOOLEAN /\ overflow \in BOOLEAN)'
    <3>1. (given \in Nat /\ total \in 0 .. MaxResults + 1)'
      BY <2>1, <2>3
    <3>2. (stop \in BOOLEAN /\ failed \in BOOLEAN /\ overflow \in BOOLEAN)'
      BY <2>3, Zenon
    <3> QED BY <3>1, <3>2
  <2>7. (/\ mem \in [Address -> Cells] /\ request \in Promise!Requests \cup {NoScan}
         /\ changed \subseteq Address /\ full \in BOOLEAN)'
    BY <2>3 DEF Inv, TypeOK
  <2> QED BY <2>2, <2>4, <2>5, <2>6, <2>7 DEF TypeOK
<1>5. ListOK'
  BY DEF Inv, ListOK, Promise!NoDuplicates
<1> QED BY <1>2, <1>4, <1>5, FreshNext DEF Inv

-----------------------------------------------------------------------------
LEMMA SameFinds ==
  ASSUME UNCHANGED found
  PROVE  /\ Finds' = Finds
         /\ \A f : Match(f)' = Match(f) /\ Entry(Match(f))' = Entry(Match(f))
  BY DEF Finds, Match, Entry

(* A step of a worker that deals with no number. *)
LEMMA SameFound ==
  ASSUME FoundOK, Exact, Done' = Done, UNCHANGED <<promised, found, stop>>
  PROVE  FoundOK' /\ Exact'
<1>1. UNCHANGED <<mem, list, request, changed, full>>
  BY DEF promised
<1>2. Finds' = Finds /\ (\A f : Match(f)' = Match(f) /\ Entry(Match(f))' = Entry(Match(f)))
  BY SameFinds
<1>3. (\A k : Spots(k)' = Spots(k))
  BY <1>1, SameWork
<1>4. FoundOK'
  BY <1>1, <1>2, <1>3 DEF FoundOK
<1>5. \A k : FoundAll(k)' = FoundAll(k)
  BY <1>1, <1>2, <1>3 DEF FoundAll, Hit, Promise!LooksAt, Promise!Stable, Element
<1>6. Exact'
  BY <1>1, <1>5 DEF Exact
<1> QED BY <1>4, <1>6

LEMMA ClaimInv ==
  ASSUME Inv, NEW w \in Workers, Claim(w)
  PROVE  Inv'
<1>1. wpc[w] = "claim" /\ UNCHANGED <<promised, total, stop, failed, overflow, found>>
  BY DEF Claim
<1>2. UNCHANGED <<mem, list, request, changed, full>>
  BY <1>1 DEF promised
<1>3. request # NoScan /\ request.kind \in {"first", "next"}
  BY <1>1, Kinds DEF Inv, Idle
<1>4. Finds' = Finds
  BY <1>1, SameFinds
<1>5. WorkSize' = WorkSize /\ Portion' = Portion /\ ListOK' = ListOK
  BY <1>2, SameWork
<1>6. WorkSize \in Nat /\ Portion \in Nat \ {0} /\ given \in Nat
  BY Sizes DEF Inv, TypeOK
<1>7. \A v \in Workers \ {w} : wpc'[v] = wpc[v] /\ work'[v] = work[v]
  BY DEF Claim, Inv, TypeOK
<1>8. \A v \in Workers \ {w} : Pending(v)' = Pending(v)
  BY <1>2, <1>7, SamePending
<1>9. Pending(w) = {}
  BY <1>1 DEF Pending
<1>10. Idle' /\ Counts'
  BY <1>1, <1>2, <1>3, <1>4 DEF Inv, Idle, Counts
<1>11. CASE stop \/ given >= WorkSize
  <2>1. /\ wpc' = [wpc EXCEPT ![w] = "done"] /\ work' = [work EXCEPT ![w] = 0]
        /\ buffer' = [buffer EXCEPT ![w] = <<>>] /\ UNCHANGED given
    BY <1>11 DEF Claim
  <2>2. TypeOK'
    BY <1>1, <1>2, <1>4, <2>1 DEF Inv, TypeOK
  <2>3. wpc'[w] = "done" /\ Pending(w)' = {}
    BY <2>1 DEF Inv, TypeOK, Pending
  <2>4. Done' = Done
    BY <1>5, <1>8, <1>9, <2>1, <2>3 DEF Done
  <2>5. Handed'
    <3>1. (given % Portion = 0)'
      BY <1>5, <2>1 DEF Inv, Handed
    <3>2. (request # NoScan /\ ~stop =>
             \A v \in Workers : wpc[v] = "done" => given >= WorkSize)'
      BY <1>1, <1>2, <1>5, <1>7, <1>11, <2>1 DEF Inv, Handed
    <3>3. (\A v \in Workers : wpc[v] \in {"first", "next"} =>
             wpc[v] = request.kind /\ work[v] \in 1 .. WorkSize /\ Pending(v) \subseteq 1 .. given)'
      BY <1>2, <1>5, <1>7, <1>8, <2>1, <2>3 DEF Inv, Handed
    <3>4. (\A u, v \in Workers : u # v => Pending(u) \cap Pending(v) = {})'
      BY <1>8, <2>3 DEF Inv, Handed
    <3> QED BY <3>1, <3>2, <3>3, <3>4 DEF Handed
  <2>6. FoundOK' /\ Exact'
    BY <1>1, <2>4, SameFound DEF Inv
  <2> QED BY <1>5, <1>10, <2>2, <2>5, <2>6 DEF Inv
<1>12. CASE ~(stop \/ given >= WorkSize)
  <2>1. /\ wpc' = [wpc EXCEPT ![w] = request.kind] /\ work' = [work EXCEPT ![w] = given + 1]
        /\ given' = given + Portion /\ UNCHANGED buffer
    BY <1>12 DEF Claim
  <2>2. TypeOK'
    <3>1. wpc' \in [Workers -> {"claim", "first", "next", "done"}]
      BY <1>3, <2>1 DEF Inv, TypeOK
    <3>2. work' \in [Workers -> Nat] /\ given' \in Nat
      BY <1>6, <2>1 DEF Inv, TypeOK
    <3> QED BY <1>1, <1>2, <1>4, <2>1, <3>1, <3>2 DEF Inv, TypeOK
  <2>3. wpc'[w] = request.kind /\ work'[w] = given + 1 /\ work'[w] \in 1 .. WorkSize
    BY <1>6, <1>12, <2>1 DEF Inv, TypeOK
  <2>4. Pending(w)' = Span(given + 1, WorkSize, Portion)
    BY <1>2, <1>3, <1>5, <2>3 DEF Pending
  <2>5. Pending(w)' = {k \in given + 1 .. WorkSize : k <= given + Portion}
    <3> DEFINE n == WorkSize
               p == Portion
               m == given
    <3>1. n \in Nat /\ p \in Nat \ {0} /\ m \in Nat /\ m % p = 0
      BY <1>6 DEF Inv, Handed
    <3>2. Pending(w)' = Span(m + 1, n, p)
      BY <2>4
    <3> HIDE DEF n, p, m
    <3>3. Span(m + 1, n, p) = {k \in m + 1 .. n : k <= m + p}
      BY <3>1, NewSpan, ZenonT(40)
    <3> QED BY <3>2, <3>3 DEF n, p, m
  <2>6. \A v \in Workers \ {w} : Pending(v) \subseteq 1 .. given
    BY DEF Inv, Handed, Pending
  <2>7. Done' = Done
    <3>1. ASSUME NEW k \in 1 .. WorkSize PROVE k \in Done' <=> k \in Done
      <4>1. CASE k <= given
        BY <4>1, <1>5, <1>6, <1>8, <1>9, <2>1, <2>5 DEF Done
      <4>2. CASE ~(k <= given)
        BY <4>2, <1>5, <1>6, <2>1, <2>5 DEF Done
      <4> QED BY <4>1, <4>2
    <3>2. Done \subseteq 1 .. WorkSize /\ Done' \subseteq 1 .. WorkSize
      BY <1>5 DEF Done
    <3> QED BY <3>1, <3>2
  <2>8. Handed'
    <3>1. (given % Portion = 0)'
      <4> DEFINE p == Portion
                 m == given
      <4>1. p \in Nat \ {0} /\ m \in Nat /\ m % p = 0
        BY <1>6 DEF Inv, Handed
      <4>2. given' % Portion' = (m + p) % p
        BY <1>5, <2>1
      <4> HIDE DEF p, m
      <4>3. PICK q \in Nat : m = p * q
        BY <4>1, Divides
      <4>4. m + p = p * (q + 1) + 0
        BY <4>1, <4>3
      <4>5. (p * (q + 1) + 0) % p = 0
        <5>1. q + 1 \in Nat /\ 0 \in 0 .. p - 1
          BY <4>1
        <5> QED BY <4>1, <5>1, Remainder
      <4> QED BY <4>2, <4>4, <4>5
    <3>2. (request # NoScan /\ ~stop =>
             \A v \in Workers : wpc[v] = "done" => given >= WorkSize)'
      BY <1>1, <1>2, <1>3, <1>5, <1>6, <1>7, <2>1, <2>3 DEF Inv, Handed
    <3>3. (\A v \in Workers : wpc[v] \in {"first", "next"} =>
             wpc[v] = request.kind /\ work[v] \in 1 .. WorkSize /\ Pending(v) \subseteq 1 .. given)'
      <4>1. Pending(w)' \subseteq 1 .. given'
        BY <1>6, <2>1, <2>5
      <4>2. \A v \in Workers \ {w} : Pending(v)' \subseteq 1 .. given'
        BY <1>6, <1>8, <2>1, <2>6
      <4> QED BY <1>2, <1>5, <1>7, <2>3, <4>1, <4>2 DEF Inv, Handed
    <3>4. (\A u, v \in Workers : u # v => Pending(u) \cap Pending(v) = {})'
      <4>1. \A v \in Workers \ {w} : Pending(v)' \cap Pending(w)' = {}
        BY <1>6, <1>8, <2>5, <2>6
      <4> QED BY <1>8, <4>1 DEF Inv, Handed
    <3> QED BY <3>1, <3>2, <3>3, <3>4 DEF Handed
  <2>9. FoundOK' /\ Exact'
    BY <1>1, <2>7, SameFound DEF Inv
  <2> QED BY <1>5, <1>10, <2>2, <2>8, <2>9 DEF Inv
<1> QED BY <1>11, <1>12

-----------------------------------------------------------------------------
(* A next scan. *)

(* A next scan finds no more than there is in the list. *)
LEMMA NextCount ==
  FoundOK /\ request.kind = "next" /\ IsFiniteSet(Finds) /\ list \in Seq(Entries)
    => Cardinality(Finds) \in Nat /\ Cardinality(Finds) <= Len(list)
<1> SUFFICES ASSUME FoundOK, request.kind = "next", IsFiniteSet(Finds), list \in Seq(Entries)
             PROVE  Cardinality(Finds) \in Nat /\ Cardinality(Finds) <= Len(list)
  OBVIOUS
<1> DEFINE at == [f \in Finds |-> Match(f).index]
<1>1. Len(list) \in Nat
  OBVIOUS
<1>2. \A f \in Finds : at[f] \in 1 .. Len(list)
  BY DEF FoundOK
<1>3. \A f, g \in Finds : at[f] = at[g] => f = g
  BY DEF FoundOK
<1>4. at \in Injection(Finds, 1 .. Len(list))
  BY <1>2, <1>3 DEF Injection, IsInjective
<1>5. Cardinality(Finds) <= Cardinality(1 .. Len(list))
  BY <1>1, <1>4, UpTo, FS_Injection
<1> QED BY <1>1, <1>5, UpTo, FS_CardinalityType

LEMMA NextCountNext ==
  (FoundOK /\ request.kind = "next" /\ IsFiniteSet(Finds) /\ list \in Seq(Entries)
    => Cardinality(Finds) \in Nat /\ Cardinality(Finds) <= Len(list))'
  BY NextCount, PTL

LEMMA NextWork ==
  ASSUME Inv, NEW w \in Workers, wpc[w] = "next"
  PROVE  /\ request # NoScan /\ request.kind = "next" /\ ~overflow
         /\ WorkSize = Len(list) /\ Portion = Batch /\ Batch \in Nat \ {0}
         /\ work[w] \in 1 .. Len(list)
         /\ list[work[w]].addr \in Nat /\ list[work[w]].addr + Width <= Size
         /\ Spots(work[w]) = {list[work[w]].addr}
         /\ list \in Seq(Entries) /\ Len(list) \in Nat
<1>1. request.kind = "next" /\ work[w] \in 1 .. WorkSize
  BY DEF Inv, Handed
<1>2. request # NoScan
  BY <1>1, Kinds DEF Inv
<1>3. ~overflow
  BY <1>1 DEF Inv, Counts
<1>4. WorkSize = Len(list) /\ Portion = Batch /\ Spots(work[w]) = {list[work[w]].addr}
  BY <1>1 DEF WorkSize, Portion, Spots
<1>5. list \in Seq(Entries) /\ Len(list) \in Nat
  BY DEF Inv, TypeOK
<1>6. list[work[w]].addr \in Nat /\ list[work[w]].addr + Width <= Size
  BY <1>1, <1>4, SpotsFit DEF Inv
<1> QED BY <1>1, <1>2, <1>3, <1>4, <1>5, <1>6, ScannerAssumption

LEMMA OnwardDeals ==
  ASSUME Inv, NEW w \in Workers, wpc[w] = "next", Onward(w), UNCHANGED <<request, list>>
  PROVE  /\ \A v \in Workers \ {w} : wpc'[v] = wpc[v] /\ work'[v] = work[v]
         /\ Pending(w)' = Pending(w) \ {work[w]}
         /\ wpc'[w] # "done"
         /\ wpc'[w] \in {"first", "next"} => wpc'[w] = wpc[w] /\ work'[w] \in 1 .. WorkSize
         /\ wpc' \in [Workers -> {"claim", "first", "next", "done"}]
         /\ work' \in [Workers -> Nat]
<1> DEFINE i == work[w]
<1>1. /\ WorkSize = Len(list) /\ Portion = Batch /\ Batch \in Nat \ {0} /\ Len(list) \in Nat
      /\ i \in 1 .. Len(list)
  BY NextWork
<1>2. /\ wpc \in [Workers -> {"claim", "first", "next", "done"}]
      /\ work \in [Workers -> Nat]
  BY DEF Inv, TypeOK
<1>3. WorkSize' = WorkSize /\ Portion' = Portion
  BY SameWork
<1>4. Pending(w) = Span(i, Len(list), Batch)
  BY <1>1 DEF Pending
<1>5. CASE i % Batch = 0 \/ i = Len(list)
  <2>1. wpc' = [wpc EXCEPT ![w] = "claim"] /\ work' = work
    BY <1>5 DEF Onward, Again
  <2>2. Pending(w)' = {}
    BY <1>2, <2>1 DEF Pending
  <2>3. Span(i, Len(list), Batch) = {i}
    <3> HIDE DEF i
    <3> QED BY <1>1, <1>5, Spans
  <2> QED BY <1>2, <1>4, <2>1, <2>2, <2>3
<1>6. CASE ~(i % Batch = 0 \/ i = Len(list))
  <2>1. work' = [work EXCEPT ![w] = i + 1] /\ wpc' = wpc
    BY <1>6 DEF Onward
  <2>2. work'[w] = i + 1 /\ i + 1 \in 1 .. Len(list)
    BY <1>1, <1>2, <1>6, <2>1
  <2>3. Pending(w)' = Span(i + 1, Len(list), Batch)
    BY <1>1, <1>3, <2>1, <2>2 DEF Pending
  <2>4. Span(i + 1, Len(list), Batch) = Span(i, Len(list), Batch) \ {i}
    <3> HIDE DEF i
    <3> QED BY <1>1, <1>6, Spans
  <2> QED BY <1>1, <1>2, <1>4, <2>1, <2>2, <2>3, <2>4
<1> QED BY <1>5, <1>6

LEMMA RecheckInv ==
  ASSUME Inv, NEW w \in Workers, Recheck(w)
  PROVE  Inv'
<1> DEFINE k == work[w]
           a == list[k].addr
           now == Element(mem, a)
           hit == Promise!WantedAgain(request.cond, now, LastValue(k))
           new == IF hit THEN <<[index |-> k, addr |-> a, value |-> now]>> ELSE <<>>
<1>1. /\ wpc[w] = "next" /\ ~stop /\ Onward(w)
      /\ UNCHANGED <<promised, given, stop, failed, overflow, buffer>>
  BY DEF Recheck
<1>2. UNCHANGED <<mem, list, request, changed, full>>
  BY <1>1 DEF promised
<1>3. /\ request # NoScan /\ request.kind = "next" /\ ~overflow
      /\ WorkSize = Len(list) /\ k \in 1 .. WorkSize /\ a \in Nat /\ a + Width <= Size
      /\ Spots(k) = {a} /\ list \in Seq(Entries) /\ Len(list) \in Nat
  BY <1>1, NextWork
<1>4. found \in [Workers -> Seq(Matches)] /\ mem \in [Address -> Cells]
  BY DEF Inv, TypeOK
<1>5. now \in Value
  BY <1>3, <1>4, ElementType
<1>6. new \in Seq(Matches)
  <2>1. a \in Address
    BY <1>3, ScannerAssumption DEF Address
  <2>2. [index |-> k, addr |-> a, value |-> now] \in Matches
    <3> HIDE DEF a, now
    <3> QED BY <1>3, <1>5, <2>1 DEF Matches
  <2> HIDE DEF hit, now, a
  <2> QED BY <2>2
<1>7. found' = [found EXCEPT ![w] = @ \o new] /\ total' = total + Len(new)
  <2>1. CASE hit
    <3>1. /\ found' = [found EXCEPT ![w] = Append(@, [index |-> k, addr |-> a, value |-> now])]
          /\ total' = total + 1
      BY <2>1 DEF Recheck
    <3> DEFINE e == [index |-> k, addr |-> a, value |-> now]
    <3>2. new = <<e>>
      BY <2>1
    <3> HIDE DEF e, new
    <3>3. e \in Matches /\ Len(new) = 1
      BY <3>2, <1>6
    <3>4. Append(found[w], e) = found[w] \o <<e>>
      BY <3>3, <1>4, AppendIsConcat
    <3>5. found' = [found EXCEPT ![w] = Append(@, e)]
      BY <3>1 DEF e
    <3> QED BY <3>1, <3>2, <3>3, <3>4, <3>5
  <2>2. CASE ~hit
    <3>1. UNCHANGED <<found, total>>
      BY <2>2 DEF Recheck
    <3>2. new = <<>>
      BY <2>2
    <3>3. total \in Nat
      BY DEF Inv, TypeOK
    <3> HIDE DEF new
    <3> QED BY <3>1, <3>2, <3>3, <1>4
  <2> QED BY <2>1, <2>2
<1>8. /\ \A v \in Workers \ {w} : wpc'[v] = wpc[v] /\ work'[v] = work[v]
      /\ Pending(w)' = Pending(w) \ {work[w]}
      /\ wpc'[w] # "done"
      /\ wpc'[w] \in {"first", "next"} => wpc'[w] = wpc[w] /\ work'[w] \in 1 .. WorkSize
      /\ wpc' \in [Workers -> {"claim", "first", "next", "done"}]
      /\ work' \in [Workers -> Nat]
  BY <1>1, <1>2, OnwardDeals
<1>9. /\ Handed' /\ Done \subseteq Done' /\ k \in Done' /\ Done' = Done \cup {k}
      /\ k \notin Done
  BY <1>1, <1>2, <1>8, Dealt, WorkPending DEF Inv
<1>10. Adds(k, new)
  <2>1. \A i \in 1 .. Len(new) : i = 1 /\ new[i].addr = a /\ new[i].index = k
    <3> HIDE DEF hit, now
    <3> QED OBVIOUS
  <2> HIDE DEF new
  <2> QED BY <2>1, <1>3 DEF Adds
<1>11. AddsAll(k, new)
  <2>1. hit <=> Hit(k, a)
    BY <1>3 DEF Hit, LastValue
  <2>2. CASE hit
    <3>1. Len(new) = 1 /\ new[1] = [index |-> k, addr |-> a, value |-> now]
      BY <2>2
    <3>2. Entry(new[1]) = [addr |-> a, value |-> now]
      BY <3>1 DEF Entry
    <3>3. \A b \in Spots(k) : b = a
      BY <1>3
    <3> HIDE DEF new, hit, a
    <3> QED BY <3>1, <3>2, <3>3, <2>1, <2>2 DEF AddsAll
  <2>3. CASE ~hit
    <3>1. Len(new) = 0
      BY <2>3
    <3> HIDE DEF new, hit
    <3> QED BY <3>1, <2>1, <2>3, <1>3 DEF AddsAll
  <2> QED BY <2>2, <2>3
<1> HIDE DEF new, a, now, hit
<1>12. FoundOK' /\ Exact'
  BY <1>1, <1>2, <1>3, <1>6, <1>7, <1>9, <1>10, <1>11, Collected DEF Inv
<1>13. IsFiniteSet(Finds)' /\ Cardinality(Finds)' = Cardinality(Finds) + Len(new)
  BY <1>4, <1>6, <1>7, CountMore DEF Inv, Counts
<1>14. Counts'
  BY <1>1, <1>3, <1>7, <1>13 DEF Inv, Counts
<1>15. Cardinality(Finds)' \in Nat /\ Cardinality(Finds)' <= Len(list)
  BY <1>2, <1>3, <1>12, <1>13, NextCountNext
<1>16. TypeOK'
  <2>1. MaxResults \in Nat /\ Len(list) <= MaxResults
    BY ScannerAssumption DEF Inv, TypeOK
  <2>2. Cardinality(Finds)' <= MaxResults
    BY <2>1, <1>3, <1>15
  <2>3. total' \in 0 .. MaxResults + 1
    BY <2>1, <2>2, <1>1, <1>3, <1>14, <1>15 DEF Counts
  <2>4. found' \in [Workers -> Seq(Matches)]
    BY <1>4, <1>6, <1>7, MoreFinds
  <2> QED BY <1>1, <1>2, <1>8, <2>2, <2>3, <2>4 DEF Inv, TypeOK
<1>17. Idle' /\ ListOK'
  BY <1>2, <1>3, SameWork DEF Inv, Idle
<1> QED BY <1>9, <1>12, <1>14, <1>16, <1>17 DEF Inv

LEMMA NoAdds ==
  ASSUME NEW k
  PROVE  /\ <<>> \in Seq(Matches) /\ Adds(k, <<>>)
         /\ TypeOK => \A w \in Workers : found = [found EXCEPT ![w] = @ \o <<>>]
<1>1. Len(<<>>) = 0
  OBVIOUS
<1>2. Adds(k, <<>>)
  BY <1>1 DEF Adds
<1> QED BY <1>2 DEF TypeOK

LEMMA RecheckFailsInv ==
  ASSUME Inv, NEW w \in Workers, RecheckFails(w)
  PROVE  Inv'
<1> DEFINE k == work[w]
<1>1. /\ wpc[w] = "next" /\ ~stop /\ full' = FALSE
      /\ UNCHANGED <<mem, list, request, changed, given, total, overflow, buffer, found>>
  BY DEF RecheckFails
<1>2. /\ request # NoScan /\ k \in 1 .. WorkSize
  BY <1>1, NextWork
<1>3. /\ wpc \in [Workers -> {"claim", "first", "next", "done"}]
      /\ work \in [Workers -> Nat]
  BY DEF Inv, TypeOK
<1>4. Finds' = Finds
  BY <1>1, SameFinds
<1>5. /\ \A v \in Workers \ {w} : wpc'[v] = wpc[v] /\ work'[v] = work[v]
      /\ Pending(w)' \subseteq Pending(w) \ {work[w]}
      /\ wpc'[w] = "done" => stop'
      /\ wpc'[w] \in {"first", "next"} => wpc'[w] = wpc[w] /\ work'[w] \in 1 .. WorkSize
      /\ wpc' \in [Workers -> {"claim", "first", "next", "done"}]
      /\ work' \in [Workers -> Nat]
      /\ stop' \in BOOLEAN /\ failed' \in BOOLEAN /\ (stop' => failed' \/ overflow)
      /\ request.strict => stop'
  <2>1. CASE request.strict
    <3>1. failed' = TRUE /\ stop' = TRUE /\ wpc' = [wpc EXCEPT ![w] = "done"] /\ work' = work
      BY <2>1 DEF RecheckFails, Fail, GiveUp
    <3>2. Pending(w)' = {}
      BY <3>1, <1>3 DEF Pending
    <3> QED BY <3>1, <3>2, <1>3
  <2>2. CASE ~request.strict
    <3>1. Onward(w) /\ UNCHANGED <<stop, failed>>
      BY <2>2 DEF RecheckFails
    <3>2. stop' \in BOOLEAN /\ failed' \in BOOLEAN /\ (stop' => failed' \/ overflow)
      BY <3>1 DEF Inv, TypeOK, Counts
    <3> QED BY <1>1, <2>2, <3>1, <3>2, OnwardDeals
  <2> QED BY <2>1, <2>2
<1>6. Handed' /\ Done \subseteq Done' /\ k \in Done' /\ k \notin Done
  BY <1>1, <1>5, Dealt, WorkPending DEF Inv
<1>7. FoundOK' /\ Exact'
  <2>1. <<>> \in Seq(Matches) /\ Adds(k, <<>>) /\ found' = [found EXCEPT ![w] = @ \o <<>>]
    BY <1>1, NoAdds DEF Inv
  <2>2. UNCHANGED <<mem, list, request, changed>>
    BY <1>1
  <2> QED BY <1>1, <1>2, <1>5, <1>6, <2>1, <2>2, Collected DEF Inv
<1>8. Counts'
  BY <1>1, <1>4, <1>5 DEF Inv, Counts
<1>9. TypeOK'
  BY <1>1, <1>4, <1>5 DEF Inv, TypeOK
<1>10. Idle' /\ ListOK'
  BY <1>1, <1>2, SameWork DEF Inv, Idle
<1> QED BY <1>6, <1>7, <1>8, <1>9, <1>10 DEF Inv

LEMMA RecheckStoppedInv ==
  ASSUME Inv, NEW w \in Workers, RecheckStopped(w)
  PROVE  Inv'
<1> DEFINE k == work[w]
<1>1. /\ wpc[w] = "next" /\ stop /\ wpc' = [wpc EXCEPT ![w] = "done"]
      /\ UNCHANGED <<promised, shared, work, buffer, found>>
  BY DEF RecheckStopped, GiveUp
<1>2. UNCHANGED <<mem, list, request, changed, full, given, total, stop, failed, overflow>>
  BY <1>1 DEF promised, shared
<1>3. request # NoScan /\ k \in 1 .. WorkSize
  BY <1>1, NextWork
<1>4. wpc \in [Workers -> {"claim", "first", "next", "done"}]
  BY DEF Inv, TypeOK
<1>5. Finds' = Finds
  BY <1>1, SameFinds
<1>6. wpc'[w] = "done" /\ (\A v \in Workers \ {w} : wpc'[v] = wpc[v]) /\ Pending(w)' = {}
  BY <1>1, <1>4 DEF Pending
<1>7. Handed' /\ Done \subseteq Done' /\ k \in Done' /\ k \notin Done
  BY <1>1, <1>2, <1>6, Dealt, WorkPending DEF Inv
<1>8. FoundOK' /\ Exact'
  <2>1. <<>> \in Seq(Matches) /\ Adds(k, <<>>) /\ found' = [found EXCEPT ![w] = @ \o <<>>]
    BY <1>1, NoAdds DEF Inv
  <2> QED BY <1>1, <1>2, <1>3, <1>7, <2>1, Collected DEF Inv
<1>9. Counts' /\ TypeOK'
  BY <1>1, <1>2, <1>4, <1>5 DEF Inv, Counts, TypeOK
<1>10. Idle' /\ ListOK'
  BY <1>2, <1>3, SameWork DEF Inv, Idle
<1> QED BY <1>7, <1>8, <1>9, <1>10 DEF Inv

-----------------------------------------------------------------------------
(* A first scan. *)

LEMMA Enumerates ==
  ASSUME NEW S, IsFiniteSet(S), NEW at \in [1 .. Cardinality(S) -> S],
         \A i, j \in 1 .. Cardinality(S) : at[i] = at[j] => i = j
  PROVE  \A x \in S : \E i \in 1 .. Cardinality(S) : at[i] = x
<1> DEFINE n == Cardinality(S)
<1>1. n \in Nat
  BY FS_CardinalityType
<1>2. IsFiniteSet(1 .. n) /\ Cardinality(1 .. n) = n
  BY <1>1, UpTo
<1>3. at \in Injection(1 .. n, S)
  BY DEF Injection, IsInjective
<1>4. at \in Surjection(1 .. n, S)
  BY <1>2, <1>3, FS_Injection
<1> QED BY <1>4 DEF Surjection

LEMMA InOrderEnumerates ==
  ASSUME NEW I, IsFiniteSet(I), NEW at \in InOrder(I)
  PROVE  /\ Cardinality(I) \in Nat /\ at \in [1 .. Cardinality(I) -> I]
         /\ \A i, j \in 1 .. Cardinality(I) : at[i] = at[j] => i = j
         /\ \A o \in I : \E i \in 1 .. Cardinality(I) : at[i] = o
<1> DEFINE n == Cardinality(I)
<1>1. n \in Nat
  BY FS_CardinalityType
<1>2. at \in [1 .. n -> I] /\ \A i \in 1 .. n : Cardinality({o \in I : o <= at[i]}) = i
  BY DEF InOrder
<1>3. \A i, j \in 1 .. n : at[i] = at[j] => i = j
  BY <1>2
<1>4. \A o \in I : \E i \in 1 .. n : at[i] = o
  BY <1>2, <1>3, Enumerates
<1> QED BY <1>1, <1>2, <1>3, <1>4

LEMMA ReadIntoFacts ==
  ASSUME NEW old \in Seq(Cells), NEW a \in Nat, NEW n \in Nat, a + n <= Size, NEW skipped,
         mem \in [Address -> Cells]
  PROVE  LET data == ReadInto(old, a, n, skipped) IN
         /\ data \in [1 .. n -> Cells]
         /\ skipped = {} => \A i \in 1 .. n : data[i] = mem[a + i - 1]
<1>1. Size \in Nat /\ 0 \in Cells
  BY ScannerAssumption
<1>2. \A i \in 1 .. n : a + i - 1 \in Address
  BY <1>1 DEF Address
<1>3. \A i \in 1 .. n : i <= Len(old) => old[i] \in Cells
  OBVIOUS
<1> QED BY <1>1, <1>2, <1>3 DEF ReadInto

LEMMA FirstWork ==
  ASSUME Inv, NEW w \in Workers, wpc[w] = "first"
  PROVE  /\ request # NoScan /\ request.kind = "first"
         /\ request.byteStep \in BOOLEAN /\ request.strict \in BOOLEAN
         /\ work[w] \in 1 .. WorkSize
         /\ Tasks(request.byteStep)[work[w]] \in Chunks(request.byteStep)
         /\ Pending(w) = {work[w]}
<1>1. request.kind = "first" /\ work[w] \in 1 .. WorkSize
  BY DEF Inv, Handed
<1>2. /\ request # NoScan
      /\ request.byteStep \in BOOLEAN /\ request.strict \in BOOLEAN
  BY <1>1, Kinds DEF Inv
<1>3. Tasks(request.byteStep)[work[w]] \in Chunks(request.byteStep)
  BY <1>1, <1>2, TasksAre DEF WorkSize
<1>4. Pending(w) = Span(work[w], WorkSize, 1)
  BY <1>1 DEF Pending, Portion
<1>5. work[w] % 1 = 0
  <2> DEFINE i == work[w]
  <2>1. i \in Nat
    BY DEF Inv, TypeOK
  <2> HIDE DEF i
  <2>2. i % 1 = 0
    BY <2>1, Quotient
  <2> QED BY <2>2 DEF i
<1>6. Span(work[w], WorkSize, 1) = {work[w]}
  <2> DEFINE i == work[w]
             n == WorkSize
  <2>1. i \in 1 .. n /\ i % 1 = 0 /\ n \in Nat
    BY <1>1, <1>5, Sizes DEF Inv
  <2> HIDE DEF i, n
  <2>2. Span(i, n, 1) = {i}
    BY <2>1, Spans
  <2> QED BY <2>2 DEF i, n
<1> QED BY <1>1, <1>2, <1>3, <1>4, <1>6

(* The offsets of a chunk's hits, and the matches at some offsets.          *)
HitsIn(data, limit) ==
  {o \in Offsets(limit) : Promise!Wanted(request.cond, [i \in 1 .. Width |-> data[o + i]])}
MatchesAt(start, data, at) ==
  [i \in DOMAIN at |-> [addr |-> start + at[i],
                        value |-> [j \in 1 .. Width |-> data[at[i] + j]]]]

(* Which positions of a chunk read as a whole are not looked at.            *)
LEMMA LeftOut ==
  ASSUME request.byteStep \in BOOLEAN, NEW t \in Chunks(request.byteStep),
         NEW n, n = t.readEnd - t.start, NEW limit \in Nat, limit <= n + 1 - Width,
         limit = n + 1 - Width \/ limit = t.scanEnd - t.start,
         NEW o \in 0 .. limit - 1, request.byteStep \/ o % Width = 0
  PROVE  o \in Offsets(limit) <=> (Promise!LooksAt(t.start + o) \/ request.cond # "eq")
<1>1. CASE ~Neon \/ request.byteStep \/ request.cond # "eq"
  BY <1>1 DEF Offsets, Skipped, Promise!LooksAt
<1>2. CASE Neon /\ ~request.byteStep /\ request.cond = "eq"
  <2>1. /\ t.start \in Nat /\ t.scanEnd \in Nat /\ Width \in Nat /\ Width > 1
        /\ t.readEnd = t.scanEnd
        /\ \E q \in Nat : t.scanEnd = t.start + Width * q
    <3>1. PICK r \in Regions : t \in ChunksOf(r, FALSE)
      BY <1>2 DEF Chunks
    <3>2. t.start \in Nat /\ t.scanEnd \in Nat
      BY ChunkStart
    <3> QED BY <1>2, <3>1, <3>2, ChunkSteps, ScannerAssumption
  <2>2. PICK q \in Nat : n = Width * q
    <3>1. PICK q \in Nat : t.scanEnd = t.start + Width * q
      BY <2>1
    <3>2. Width * q \in Nat
      BY <2>1, SMT
    <3> QED BY <3>1, <3>2, <2>1
  <2>3. PICK p \in Nat : o = Width * p
    <3>1. o \in Nat /\ o % Width = 0 /\ Width \in Nat \ {0}
      BY <1>2, <2>1
    <3> QED BY <3>1, Divides
  <2>4. limit = n + 1 - Width /\ n \in Nat
    BY <2>1
  <2>5. o + Width <= limit <=> p + 1 # q
    <3>1. o + Width <= n
      BY <2>1, <2>4
    <3>2. p < q
      <4>1. Width * p + Width <= Width * q
        BY <3>1, <2>2, <2>3
      <4> QED BY <4>1, <2>1, <2>2, <2>3, Multiples
    <3>3. CASE p + 1 = q
      <4>1. Width * (p + 1) = Width * p + Width
        BY <2>1, SMT
      <4>2. n = o + Width
        BY <4>1, <3>3, <2>2, <2>3
      <4> QED BY <4>2, <3>3, <2>1, <2>4
    <3>4. CASE p + 1 < q
      <4>1. Width * (p + 1) + Width <= Width * q
        BY <3>4, <2>1, Multiples
      <4>2. Width * (p + 1) = Width * p + Width
        BY <2>1, SMT
      <4>3. o + Width + Width <= n
        BY <4>1, <4>2, <2>2, <2>3
      <4> QED BY <4>3, <3>4, <2>1, <2>4
    <3> QED BY <3>2, <3>3, <3>4
  <2>6. o \in Offsets(limit) <=> o + Width <= limit
    BY <1>2, <2>1 DEF Offsets
  <2>7. t.start + o \in Skipped <=> o + Width = n
    <3>1. o + Width = n => t.start + o = t.scanEnd - Width
      BY <2>1
    <3>2. ASSUME NEW s \in Chunks(FALSE), t.start + o = s.scanEnd - Width
          PROVE  o + Width = n
      <4>1. /\ s.start \in Nat /\ s.scanEnd \in Nat /\ s.start + Width <= s.readEnd
            /\ s.readEnd = s.scanEnd
        <5>1. PICK r \in Regions : s \in ChunksOf(r, FALSE)
          BY DEF Chunks
        <5> QED BY <5>1, ChunkSteps, ChunkStart
      <4>2. s = t
        <5>1. s.start <= t.start + o /\ t.start + o < s.scanEnd
          BY <4>1, <3>2, <2>1
        <5>2. t.start + o < t.scanEnd
          BY <2>1, <2>4
        <5>3. t \in Chunks(FALSE)
          BY <1>2
        <5>4. ~(s.scanEnd <= t.start) /\ ~(t.scanEnd <= s.start)
          BY <5>1, <5>2, <4>1, <2>1
        <5> QED BY <5>3, <5>4, ChunksApart
      <4>3. t.start + o = t.scanEnd - Width
        BY <4>2, <3>2
      <4> QED BY <4>3, <2>1, <2>4
    <3> QED BY <3>1, <3>2, <1>2 DEF Skipped
  <2>8. o + Width = n <=> p + 1 = q
    <3>1. Width * (p + 1) = o + Width
      BY <2>1, <2>3, SMT
    <3>2. p + 1 # q => Width * (p + 1) # Width * q
      <4>1. CASE p + 1 < q
        BY <4>1, <2>1, Multiples
      <4>2. CASE q < p + 1
        BY <4>2, <2>1, Multiples
      <4> QED BY <4>1, <4>2
    <3> QED BY <3>1, <3>2, <2>2
  <2> QED BY <1>2, <2>5, <2>6, <2>7, <2>8 DEF Promise!LooksAt
<1> QED BY <1>1, <1>2

(* What a worker finds in a chunk of which it was given some bytes.         *)
LEMMA ChunkAdds ==
  ASSUME TypeOK, ListOK, request.kind = "first", NEW k \in 1 .. WorkSize,
         NEW t, t = Tasks(request.byteStep)[k], NEW n, n = t.readEnd - t.start,
         NEW data \in [1 .. n -> Cells], NEW bytes \in Nat, bytes <= n, Width <= bytes,
         NEW at \in InOrder(HitsIn(data, Limit(bytes, t.scanEnd - t.start)))
  PROVE  /\ MatchesAt(t.start, data, at) \in Seq(Matches)
         /\ Adds(k, MatchesAt(t.start, data, at))
         /\ bytes = n /\ (\A i \in 1 .. n : data[i] = mem[t.start + i - 1])
              => AddsAll(k, MatchesAt(t.start, data, at))
<1> DEFINE b == request.byteStep
           value(o) == [i \in 1 .. Width |-> data[o + i]]
           limit == Limit(bytes, t.scanEnd - t.start)
           hits == HitsIn(data, limit)
           new == MatchesAt(t.start, data, at)
<1>1. b \in BOOLEAN /\ t \in Chunks(b)
  BY Kinds, TasksAre DEF WorkSize
<1>2. /\ t.start \in Nat /\ t.scanEnd \in Nat /\ t.readEnd \in Nat
      /\ t.start < t.scanEnd /\ t.scanEnd <= t.readEnd /\ t.readEnd <= Size
  BY <1>1, ChunkStart
<1>3. Width \in Nat \ {0} /\ Size \in Nat /\ n \in Nat
  BY <1>2, ScannerAssumption
<1>4. /\ data \in [1 .. n -> Cells] /\ bytes <= n /\ Width <= bytes
      /\ hits = {o \in Offsets(limit) : Promise!Wanted(request.cond, value(o))}
  BY DEF HitsIn
<1>5. new = [i \in DOMAIN at |-> [addr |-> t.start + at[i], value |-> value(at[i])]]
  BY DEF MatchesAt
<1>6. Spots(k) = {a \in Promise!Positions(b) : t.start <= a /\ a < t.scanEnd}
  BY DEF Spots
<1> HIDE DEF b
<1>7. limit \in Nat /\ limit <= bytes + 1 - Width /\ limit <= t.scanEnd - t.start
      /\ (limit = bytes + 1 - Width \/ limit = t.scanEnd - t.start)
  BY <1>2, <1>3, <1>4, SMTT(30) DEF Limit, Min2
<1> HIDE DEF limit, hits, new
<1>8. \A o \in Offsets(limit) : o \in 0 .. limit - 1 /\ (b \/ o % Width = 0)
  BY DEF Offsets, b
<1>9. ASSUME NEW o \in hits
      PROVE  o \in Nat /\ o + Width <= n /\ t.start + o \in Spots(k) /\ value(o) \in Value
             /\ t.start + o \in Address
  <2>1. o \in 0 .. limit - 1 /\ (b \/ o % Width = 0)
    BY <1>4, <1>8
  <2>2. o \in Nat /\ o + Width <= n /\ t.start + o < t.scanEnd
    BY ONLY <2>1, <1>2, <1>3, <1>4, <1>7, bytes \in Nat
  <2>3. t.start + o \in Promise!Positions(b)
    BY <2>1, <2>2, <1>1, LooksAtPositions
  <2>4. t.start + o \in Spots(k)
    BY <2>2, <2>3, <1>2, <1>6
  <2>5. t.start + o \in Address
    <3> DEFINE a == t.start + o
    <3>1. a \in Spots(k)
      BY <2>4
    <3> HIDE DEF a
    <3>2. a \in Address
      BY <3>1, SpotsFit
    <3> QED BY <3>2 DEF a
  <2>6. \A i \in 1 .. Width : o + i \in 1 .. n
    BY <2>2, <1>2, <1>3
  <2>7. value(o) \in Value
    BY <2>6, <1>4 DEF Value
  <2> QED BY <2>2, <2>4, <2>5, <2>7
<1> HIDE DEF value
<1>10. IsFiniteSet(hits)
  <2>1. ASSUME NEW o \in hits PROVE o \in Nat /\ o <= limit
    <3>1. o \in 0 .. limit - 1
      BY <1>4, <1>8
    <3> QED BY <3>1, <1>7
  <2>2. hits \in SUBSET Nat /\ \A o \in hits : o <= limit
    BY <2>1
  <2> QED BY <2>2, <1>7, FS_BoundedSetOfNaturals
<1> DEFINE m == Cardinality(hits)
<1>11. /\ m \in Nat /\ at \in [1 .. m -> hits]
       /\ \A i, j \in 1 .. m : at[i] = at[j] => i = j
       /\ \A o \in hits : \E i \in 1 .. m : at[i] = o
  <2>1. at \in InOrder(hits)
    BY DEF hits, limit
  <2> QED BY ONLY <1>10, <2>1, InOrderEnumerates
<1> HIDE DEF m
<1>12. /\ new \in Seq(Matches) /\ Len(new) = m
       /\ \A i \in 1 .. m : new[i] = [addr |-> t.start + at[i], value |-> value(at[i])]
  <2>1. new = [i \in 1 .. m |-> [addr |-> t.start + at[i], value |-> value(at[i])]]
    BY <1>5, <1>11
  <2>2. \A i \in 1 .. m : [addr |-> t.start + at[i], value |-> value(at[i])] \in Matches
    BY <1>9, <1>11 DEF Matches, Entries
  <2>3. new \in [1 .. m -> Matches]
    BY <2>1, <2>2
  <2>4. new \in Seq(Matches) /\ Len(new) = m
    BY <2>3, <1>11, SMT
  <2> QED BY <2>1, <2>4
<1>13. Adds(k, new)
  <2>1. \A i \in 1 .. Len(new) : new[i].addr = t.start + at[i] /\ at[i] \in hits /\ at[i] \in Nat
    BY <1>9, <1>11, <1>12
  <2>2. \A i \in 1 .. Len(new) : new[i].addr \in Spots(k)
    BY <2>1, <1>9
  <2>3. ASSUME NEW i \in 1 .. Len(new), NEW j \in 1 .. Len(new), i # j
        PROVE  new[i].addr # new[j].addr
    <3>1. at[i] # at[j] /\ at[i] \in Nat /\ at[j] \in Nat
      BY <2>1, <2>3, <1>11, <1>12
    <3>2. new[i].addr = t.start + at[i] /\ new[j].addr = t.start + at[j]
      BY <2>1
    <3> QED BY ONLY <3>1, <3>2, <1>2
  <2>4. request.kind # "next"
    OBVIOUS
  <2> QED BY <2>2, <2>3, <2>4 DEF Adds
<1>14. ASSUME bytes = n, \A i \in 1 .. n : data[i] = mem[t.start + i - 1]
       PROVE  AddsAll(k, new)
  <2> SUFFICES ASSUME NEW a \in Spots(k)
               PROVE  IF Hit(k, a)
                      THEN \E i \in 1 .. Len(new) : Entry(new[i]) = [addr |-> a, value |-> Element(mem, a)]
                      ELSE \A i \in 1 .. Len(new) : new[i].addr # a
    BY DEF AddsAll
  <2> DEFINE o == a - t.start
  <2>1. /\ a \in Nat /\ o \in Nat /\ o + Width <= n
        /\ b \/ o % Width = 0
    BY <1>1, <1>6, LooksAtAll
  <2>2. a < t.scanEnd
    BY <1>6
  <2>3. o \in 0 .. limit - 1
    <3>1. o < t.scanEnd - t.start
      BY <2>1, <2>2, <1>2
    <3> HIDE DEF o
    <3> QED BY <2>1, <3>1, <1>2, <1>3, <1>7, <1>14, SMTT(30)
  <2>7. a = t.start + o
    BY <2>1, <1>2
  <2> HIDE DEF o
  <2>4. o \in Offsets(limit) <=> (Promise!LooksAt(a) \/ request.cond # "eq")
    <3>1. t \in Chunks(request.byteStep) /\ request.byteStep \in BOOLEAN
          /\ (request.byteStep \/ o % Width = 0)
      BY <1>1, <2>1 DEF b
    <3>2. limit <= n + 1 - Width /\ (limit = n + 1 - Width \/ limit = t.scanEnd - t.start)
      BY <1>7, <1>14
    <3> QED BY <3>1, <3>2, <2>3, <2>7, <1>7, LeftOut
  <2>5. value(o) = Element(mem, a)
    <3>1. \A i \in 1 .. Width : o + i \in 1 .. n /\ t.start + (o + i) - 1 = a + i - 1
      <4> SUFFICES ASSUME NEW i \in 1 .. Width
                   PROVE  o + i \in 1 .. n /\ t.start + (o + i) - 1 = a + i - 1
        OBVIOUS
      <4>1. n \in Nat
        BY <1>2
      <4> QED BY ONLY <4>1, <2>1, <2>7, <1>2, <1>3, i \in 1 .. Width
    <3>2. \A i \in 1 .. Width : data[o + i] = mem[a + i - 1]
      BY <3>1, <1>14
    <3> QED BY <3>2 DEF value, Element, Promise!Element
  <2>6. Hit(k, a) <=> o \in hits
    BY <2>4, <2>5, <1>4 DEF Hit, Promise!Wanted
  <2>8. CASE o \in hits
    <3>1. PICK i \in 1 .. m : at[i] = o
      BY <2>8, <1>11
    <3>2. new[i] = [addr |-> a, value |-> Element(mem, a)]
      BY <3>1, <2>5, <2>7, <1>12
    <3>3. Entry(new[i]) = [addr |-> a, value |-> Element(mem, a)]
      BY <3>2 DEF Entry
    <3> QED BY <3>1, <3>3, <2>6, <2>8, <1>12
  <2>9. CASE o \notin hits
    <3>1. \A i \in 1 .. m : new[i].addr = t.start + at[i] /\ at[i] \in hits /\ at[i] \in Nat
      BY <1>9, <1>11, <1>12
    <3>2. \A i \in 1 .. m : at[i] # o
      BY <3>1, <2>9
    <3>3. ASSUME NEW i \in 1 .. m PROVE new[i].addr # a
      <4>1. new[i].addr = t.start + at[i] /\ at[i] \in Nat /\ at[i] # o
        BY <3>1, <3>2
      <4> QED BY ONLY <4>1, <2>1, <2>7, <1>2
    <3> QED BY <3>3, <2>6, <2>9, <1>12
  <2> QED BY <2>8, <2>9
<1> QED BY <1>12, <1>13, <1>14 DEF new

LEMMA FirstDealt ==
  ASSUME Inv, NEW w \in Workers, wpc[w] = "first", NEW x \in {"claim", "done"},
         wpc' = [wpc EXCEPT ![w] = x], UNCHANGED <<request, list, given, work>>,
         stop => stop', x = "done" => stop'
  PROVE  /\ Handed' /\ Done \subseteq Done' /\ work[w] \in Done' /\ work[w] \notin Done
         /\ Done' = Done \cup {work[w]}
         /\ wpc' \in [Workers -> {"claim", "first", "next", "done"}]
<1>1. wpc \in [Workers -> {"claim", "first", "next", "done"}]
  BY DEF Inv, TypeOK
<1>2. /\ wpc' \in [Workers -> {"claim", "first", "next", "done"}]
      /\ wpc'[w] = x /\ \A v \in Workers \ {w} : wpc'[v] = wpc[v]
  BY <1>1
<1>3. Pending(w) = {work[w]}
  BY FirstWork
<1>4. Pending(w)' = {}
  BY <1>2 DEF Pending
<1>5. /\ \A v \in Workers \ {w} : wpc'[v] = wpc[v] /\ work'[v] = work[v]
      /\ Pending(w)' = Pending(w) \ {work[w]} /\ wpc'[w] \notin {"first", "next"}
  BY <1>2, <1>3, <1>4
<1>6. TypeOK /\ Handed
  BY DEF Inv
<1> QED BY <1>2, <1>5, <1>6, Dealt, WorkPending

(* A chunk has been scanned: new is what the worker adds, if it goes on.    *)
LEMMA ScannedInv ==
  ASSUME Inv, NEW w \in Workers, wpc[w] = "first", NEW x \in {"claim", "done"},
         wpc' = [wpc EXCEPT ![w] = x],
         UNCHANGED <<mem, list, request, changed, given, work>>,
         full' \in BOOLEAN, full' => full, buffer' \in [Workers -> Seq(Cells)],
         stop' \in BOOLEAN, failed' \in BOOLEAN, overflow' \in BOOLEAN,
         stop => stop', x = "done" => stop', stop' => failed' \/ overflow',
         NEW new \in Seq(Matches), Adds(work[w], new),
         found' = [found EXCEPT ![w] = @ \o new],
         \/ overflow' /\ total' = MaxResults + 1 /\ new = <<>>
         \/ /\ ~overflow /\ ~overflow' /\ total' = total + Len(new)
            /\ total + Len(new) <= MaxResults
         \/ UNCHANGED <<overflow, total>> /\ new = <<>>,
         ~stop' /\ (request.strict \/ full') => AddsAll(work[w], new)
  PROVE  Inv'
<1> DEFINE k == work[w]
<1>1. /\ request # NoScan /\ request.kind = "first" /\ k \in 1 .. WorkSize
  BY FirstWork
<1>2. /\ TypeOK /\ ListOK /\ FoundOK /\ Exact /\ Counts /\ Idle
      /\ found \in [Workers -> Seq(Matches)] /\ IsFiniteSet(Finds)
      /\ Cardinality(Finds) <= MaxResults /\ MaxResults \in Nat /\ Cardinality(Finds) \in Nat
      /\ total \in 0 .. MaxResults + 1
  BY ScannerAssumption, FS_CardinalityType DEF Inv, TypeOK, Counts
<1>3. /\ Handed' /\ Done \subseteq Done' /\ k \in Done' /\ k \notin Done
      /\ Done' = Done \cup {k}
      /\ wpc' \in [Workers -> {"claim", "first", "next", "done"}]
  BY FirstDealt
<1>4. FoundOK' /\ Exact'
  BY <1>1, <1>2, <1>3, Collected
<1>5. IsFiniteSet(Finds)' /\ Cardinality(Finds)' = Cardinality(Finds) + Len(new)
  BY <1>2, CountMore
<1>6. new = <<>> => Cardinality(Finds)' = Cardinality(Finds)
  BY <1>2, <1>5
<1>7. found' \in [Workers -> Seq(Matches)]
  BY <1>2, MoreFinds
<1>8. /\ Counts' /\ Cardinality(Finds)' <= MaxResults /\ total' \in 0 .. MaxResults + 1
  <2>1. CASE overflow' /\ total' = MaxResults + 1 /\ new = <<>>
    BY <2>1, <1>1, <1>2, <1>5, <1>6 DEF Counts
  <2>2. CASE /\ ~overflow /\ ~overflow' /\ total' = total + Len(new)
             /\ total + Len(new) <= MaxResults
    <3>1. total = Cardinality(Finds) /\ Len(new) \in Nat
      BY <2>2, <1>2 DEF Counts
    <3>2. total' = Cardinality(Finds)' /\ total' \in 0 .. MaxResults + 1
      BY <3>1, <2>2, <1>2, <1>5
    <3>3. Cardinality(Finds)' <= MaxResults
      BY <3>1, <2>2, <1>5
    <3> QED BY <3>2, <3>3, <2>2, <1>5 DEF Counts
  <2>3. CASE UNCHANGED <<overflow, total>> /\ new = <<>>
    BY <2>3, <1>1, <1>2, <1>5, <1>6 DEF Counts
  <2> QED BY <2>1, <2>2, <2>3
<1>9. TypeOK'
  BY <1>2, <1>3, <1>7, <1>8 DEF TypeOK
<1>10. Idle' /\ ListOK'
  BY <1>1, <1>2, SameWork DEF Idle
<1> QED BY <1>3, <1>4, <1>8, <1>9, <1>10 DEF Inv

LEMMA ScanChunkInv ==
  ASSUME Inv, NEW w \in Workers, NEW pages \in SUBSET Pages, NEW ok \in BOOLEAN,
         ScanChunk(w, pages, ok)
  PROVE  Inv'
<1> DEFINE k == work[w]
           t == Tasks(request.byteStep)[k]
           n == t.readEnd - t.start
           skipped == {a \in t.start .. t.readEnd - 1 : a - (a % Page) \in pages}
           bytes == IF ok THEN n - Cardinality(skipped) ELSE 0
           data == ReadInto(buffer[w], t.start, n, skipped)
           value(o) == [i \in 1 .. Width |-> data[o + i]]
           hits == {o \in Offsets(Limit(bytes, t.scanEnd - t.start)) :
                      Promise!Wanted(request.cond, value(o))}
<1>1. /\ wpc[w] = "first"
      /\ buffer' = [buffer EXCEPT ![w] = data] /\ full' = (full /\ bytes = n)
      /\ UNCHANGED <<mem, list, request, changed, given, work>>
      /\ IF request.strict /\ Short(bytes, n)
         THEN Fail(w) /\ UNCHANGED <<total, overflow, found>>
         ELSE IF bytes < Width
         THEN Again(w) /\ UNCHANGED <<total, stop, failed, overflow, found>>
         ELSE /\ \E at \in InOrder(hits) :
                   AppendMatches(w, [i \in DOMAIN at |-> [addr |-> t.start + at[i],
                                                         value |-> value(at[i])]])
              /\ UNCHANGED failed
  BY DEF ScanChunk
<1>2. /\ request # NoScan /\ request.kind = "first" /\ request.byteStep \in BOOLEAN
      /\ request.strict \in BOOLEAN
      /\ k \in 1 .. WorkSize /\ t \in Chunks(request.byteStep)
  BY <1>1, FirstWork
<1>3. /\ t.start \in Nat /\ t.scanEnd \in Nat /\ t.readEnd \in Nat
      /\ t.start < t.scanEnd /\ t.scanEnd <= t.readEnd /\ t.readEnd <= Size
      /\ t.start + Width <= t.readEnd
  BY <1>2, ChunkStart
<1>4. Width \in Nat \ {0} /\ Size \in Nat /\ MaxResults \in Nat
  BY ScannerAssumption
<1>5. n \in Nat /\ Width <= n /\ t.start + n <= Size
  <2> HIDE DEF t
  <2> QED BY <1>3, <1>4
<1>6. IsFiniteSet(skipped) /\ Cardinality(skipped) \in Nat /\ Cardinality(skipped) <= n
      /\ (Cardinality(skipped) = 0 => skipped = {})
  <2> DEFINE lo == t.start
             hi == t.readEnd - 1
  <2>1. lo \in Int /\ hi \in Int /\ lo <= hi /\ hi - lo + 1 = n
    <3> HIDE DEF t
    <3> QED BY <1>3, <1>4
  <2>2. skipped \in SUBSET (lo .. hi)
    OBVIOUS
  <2> HIDE DEF lo, hi, n, skipped, t
  <2>3. IsFiniteSet(lo .. hi) /\ Cardinality(lo .. hi) = hi - lo + 1
    BY <2>1, FS_Interval
  <2>4. IsFiniteSet(skipped) /\ Cardinality(skipped) <= Cardinality(lo .. hi)
    BY <2>2, <2>3, FS_Subset
  <2> QED BY <2>1, <2>3, <2>4, FS_CardinalityType, FS_EmptySet
<1>7. bytes \in Nat /\ bytes <= n /\ (bytes = n => skipped = {})
  <2> HIDE DEF n, skipped
  <2> QED BY <1>4, <1>5, <1>6
<1>8. /\ data \in [1 .. n -> Cells]
      /\ skipped = {} => \A i \in 1 .. n : data[i] = mem[t.start + i - 1]
  <2>1. buffer[w] \in Seq(Cells) /\ mem \in [Address -> Cells]
    BY DEF Inv, TypeOK
  <2> DEFINE old == buffer[w]
             a == t.start
  <2>2. old \in Seq(Cells) /\ a \in Nat /\ a + n <= Size /\ n \in Nat
    BY <2>1, <1>3, <1>5
  <2>3. data = ReadInto(old, a, n, skipped)
    OBVIOUS
  <2> HIDE DEF n, skipped, t, a, old, data
  <2>4. /\ data \in [1 .. n -> Cells]
        /\ skipped = {} => \A i \in 1 .. n : data[i] = mem[a + i - 1]
    BY <2>1, <2>2, <2>3, ReadIntoFacts, SMTT(30)
  <2> QED BY <2>4 DEF a
<1>9. buffer' \in [Workers -> Seq(Cells)]
  <2>1. data \in Seq(Cells)
    <3> HIDE DEF data, n
    <3> QED BY <1>5, <1>8, SMT
  <2> HIDE DEF data
  <2> QED BY <2>1, <1>1 DEF Inv, TypeOK
<1>10. /\ stop \in BOOLEAN /\ failed \in BOOLEAN /\ overflow \in BOOLEAN /\ full \in BOOLEAN
       /\ (stop => failed \/ overflow) /\ total \in Nat
       /\ overflow => total = MaxResults + 1
  BY DEF Inv, TypeOK, Counts
<1>11. full' \in BOOLEAN /\ (full' => full) /\ (full' => bytes = n)
  <2> HIDE DEF bytes, n
  <2> QED BY <1>1, <1>10
<1>12. /\ <<>> \in Seq(Matches) /\ Adds(k, <<>>)
       /\ UNCHANGED found => found' = [found EXCEPT ![w] = @ \o <<>>]
  BY NoAdds DEF Inv
<1> HIDE DEF hits, data, bytes, skipped, n, t
<1>13. CASE request.strict /\ Short(bytes, n)
  <2>1. /\ failed' = TRUE /\ stop' = TRUE /\ wpc' = [wpc EXCEPT ![w] = "done"]
        /\ UNCHANGED <<total, overflow, found>>
    BY <1>1, <1>13 DEF Fail, GiveUp
  <2> QED BY <2>1, <1>1, <1>9, <1>10, <1>11, <1>12, ScannedInv
<1>14. CASE ~(request.strict /\ Short(bytes, n)) /\ bytes < Width
  <2>1. /\ wpc' = [wpc EXCEPT ![w] = "claim"]
        /\ UNCHANGED <<total, stop, failed, overflow, found>>
    BY <1>1, <1>14 DEF Again
  <2>2. ~(request.strict \/ full')
    BY <1>2, <1>4, <1>5, <1>7, <1>11, <1>14 DEF Short
  <2> QED BY <2>1, <2>2, <1>1, <1>9, <1>10, <1>11, <1>12, ScannedInv
<1>15. CASE ~(request.strict /\ Short(bytes, n)) /\ ~(bytes < Width)
  <2>1. PICK at \in InOrder(hits) :
          AppendMatches(w, [i \in DOMAIN at |-> [addr |-> t.start + at[i],
                                                value |-> value(at[i])]])
    BY <1>1, <1>15
  <2>2. UNCHANGED failed
    BY <1>1, <1>15
  <2> DEFINE new == [i \in DOMAIN at |-> [addr |-> t.start + at[i], value |-> value(at[i])]]
  <2>3. /\ new \in Seq(Matches) /\ Adds(k, new)
        /\ bytes = n /\ (\A i \in 1 .. n : data[i] = mem[t.start + i - 1])
             => AddsAll(k, new)
    <3>1. bytes \in Nat /\ bytes <= n /\ Width <= bytes /\ data \in [1 .. n -> Cells]
      BY <1>4, <1>7, <1>8, <1>15
    <3>2. at \in InOrder(HitsIn(data, Limit(bytes, t.scanEnd - t.start)))
      BY <2>1 DEF hits, HitsIn
    <3>3. new = MatchesAt(t.start, data, at)
      BY DEF MatchesAt
    <3>4. TypeOK /\ ListOK
      BY DEF Inv
    <3>5. t = Tasks(request.byteStep)[k] /\ n = t.readEnd - t.start
      BY DEF t, n
    <3> HIDE DEF new, k
    <3> QED BY <3>1, <3>2, <3>3, <3>4, <3>5, <1>2, ChunkAdds
  <2>4. AppendMatches(w, new)
    BY <2>1
  <2> HIDE DEF new
  <2>5. Len(new) \in Nat
    BY <2>3
  <2>6. request.strict \/ full' => bytes = n
    BY <1>2, <1>5, <1>7, <1>11, <1>15 DEF Short
  <2>7. CASE Overflows(total + Len(new))
    <3>1. /\ overflow' = TRUE /\ stop' = TRUE /\ total' = MaxResults + 1
          /\ wpc' = [wpc EXCEPT ![w] = "done"] /\ UNCHANGED found
      BY <2>4, <2>7 DEF AppendMatches, GiveUp
    <3> QED BY <3>1, <2>2, <1>1, <1>9, <1>10, <1>11, <1>12, ScannedInv
  <2>8. CASE ~Overflows(total + Len(new))
    <3>1. /\ total' = total + Len(new) /\ found' = [found EXCEPT ![w] = @ \o new]
          /\ wpc' = [wpc EXCEPT ![w] = "claim"] /\ UNCHANGED <<stop, overflow>>
      BY <2>4, <2>8 DEF AppendMatches, Again
    <3>2. total + Len(new) <= MaxResults /\ ~overflow
      BY <2>5, <2>8, <1>4, <1>10 DEF Overflows
    <3>3. (request.strict \/ full') => AddsAll(k, new)
      BY <2>3, <2>6, <1>7, <1>8
    <3> QED BY <3>1, <3>2, <3>3, <2>2, <2>3, <1>1, <1>9, <1>10, <1>11, ScannedInv
  <2> QED BY <2>7, <2>8
<1> QED BY <1>13, <1>14, <1>15

-----------------------------------------------------------------------------
(* The end of a scan. *)

LEMMA AllDone ==
  ASSUME Inv, Joined, ~stop
  PROVE  Done = 1 .. WorkSize
<1>1. request # NoScan /\ \A w \in Workers : wpc[w] = "done"
  BY DEF Joined
<1>2. PICK w \in Workers : TRUE
  BY ScannerAssumption
<1>3. given >= WorkSize
  BY <1>1, <1>2 DEF Inv, Handed
<1>4. \A v \in Workers : Pending(v) = {}
  BY <1>1 DEF Pending
<1>5. WorkSize \in Nat /\ given \in Nat
  BY Sizes DEF Inv, TypeOK
<1> QED BY <1>3, <1>4, <1>5 DEF Done

(* The workers' matches, each once, in some order. *)
LEMMA Listing ==
  ASSUME Inv, NEW at \in [1 .. Cardinality(Finds) -> Finds],
         \A i, j \in 1 .. Cardinality(Finds) : at[i] = at[j] => i = j
  PROVE  /\ Listed(at) \in Seq(Entries)
         /\ Len(Listed(at)) = Cardinality(Finds) /\ Len(Listed(at)) <= MaxResults
         /\ \A i \in 1 .. Len(Listed(at)) :
              /\ at[i] \in Finds /\ Listed(at)[i] = Entry(Match(at[i]))
              /\ Listed(at)[i].addr = Match(at[i]).addr
         /\ \A f \in Finds : \E i \in 1 .. Len(Listed(at)) : Listed(at)[i] = Entry(Match(f))
         /\ \A a : a \in Promise!Addresses(Listed(at)) <=> \E f \in Finds : Match(f).addr = a
         /\ Promise!NoDuplicates(Listed(at))
         /\ \A i \in 1 .. Len(Listed(at)) : Listed(at)[i].addr + Width <= Size
<1> DEFINE n == Cardinality(Finds)
           l == Listed(at)
<1>1. /\ n \in Nat /\ IsFiniteSet(Finds) /\ n <= MaxResults /\ TypeOK /\ ListOK /\ FoundOK
  BY FS_CardinalityType DEF Inv, Counts, TypeOK
<1>2. l = [i \in 1 .. n |-> Entry(Match(at[i]))]
  BY DEF Listed
<1>3. \A i \in 1 .. n : at[i] \in Finds /\ l[i] = Entry(Match(at[i])) /\ l[i] \in Entries
                        /\ l[i].addr = Match(at[i]).addr
  <2> HIDE DEF n, l
  <2>1. at \in [1 .. n -> Finds]
    BY DEF n
  <2>2. ASSUME NEW i \in 1 .. n
        PROVE at[i] \in Finds /\ l[i] = Entry(Match(at[i])) /\ l[i] \in Entries
              /\ l[i].addr = Match(at[i]).addr
    BY <1>1, <1>2, <2>1, FindsType
  <2> QED BY <2>2
<1> HIDE DEF l
<1>4. l \in Seq(Entries) /\ Len(l) = n
  <2>1. l \in [1 .. n -> Entries]
    BY <1>2, <1>3
  <2> HIDE DEF n
  <2> QED BY <2>1, <1>1, SMT
<1>5. \A f \in Finds : \E i \in 1 .. n : at[i] = f
  BY <1>1, Enumerates
<1> HIDE DEF n
<1>6. \A f \in Finds : \E i \in 1 .. Len(l) : l[i] = Entry(Match(f)) /\ l[i].addr = Match(f).addr
  BY <1>3, <1>4, <1>5
<1>7. \A a : a \in Promise!Addresses(l) <=> \E f \in Finds : Match(f).addr = a
  <2>1. \A a : a \in Promise!Addresses(l) <=> \E i \in 1 .. Len(l) : l[i].addr = a
    BY DEF Promise!Addresses
  <2> QED BY <2>1, <1>3, <1>4, <1>6
<1>8. Promise!NoDuplicates(l)
  <2> SUFFICES ASSUME NEW i \in 1 .. n, NEW j \in 1 .. n, i # j
               PROVE  l[i].addr # l[j].addr
    BY <1>4 DEF Promise!NoDuplicates
  <2>1. at[i] # at[j]
    BY DEF n
  <2> QED BY <2>1, <1>1, <1>3 DEF FoundOK
<1>9. \A i \in 1 .. n : l[i].addr + Width <= Size
  <2> SUFFICES ASSUME NEW i \in 1 .. n PROVE l[i].addr + Width <= Size
    OBVIOUS
  <2>1. PICK k \in Done : l[i].addr \in Spots(k)
    BY <1>1, <1>3 DEF FoundOK
  <2> QED BY <2>1, <1>1, SpotsFit DEF Done
<1> QED BY <1>1, <1>3, <1>4, <1>6, <1>7, <1>8, <1>9 DEF l, n

LEMMA TogetherLists ==
  ASSUME NEW order, NEW at \in Together(order)
  PROVE  /\ at \in [1 .. Cardinality(Finds) -> Finds]
         /\ \A i, j \in 1 .. Cardinality(Finds) : at[i] = at[j] => i = j
<1>1. /\ at \in [1 .. Cardinality(Finds) -> Finds]
      /\ \A i \in DOMAIN at : Cardinality({f \in Finds : NotAfter(order, f, at[i])}) = i
  BY DEF Together
<1> QED BY <1>1

(* Sorted matches are in the order of the list. *)
LEMMA SortedLists ==
  ASSUME Inv, request.kind = "next", NEW order, NEW at \in Sorted(order)
  PROVE  /\ at \in [1 .. Cardinality(Finds) -> Finds]
         /\ \A i, j \in 1 .. Cardinality(Finds) : at[i] = at[j] => i = j
         /\ \A i, j \in 1 .. Cardinality(Finds) :
              i < j => Match(at[i]).index < Match(at[j]).index
<1> DEFINE n == Cardinality(Finds)
           below(f) == {g \in Finds : Match(g).index <= Match(f).index}
<1>1. n \in Nat /\ IsFiniteSet(Finds)
  BY FS_CardinalityType DEF Inv, Counts
<1>2. at \in [1 .. n -> Finds] /\ \A i \in 1 .. n : Cardinality(below(at[i])) = i
  BY DEF Sorted
<1>3. \A i, j \in 1 .. n : at[i] = at[j] => i = j
  BY <1>2
<1>4. ASSUME NEW i \in 1 .. n, NEW j \in 1 .. n, i < j
      PROVE  Match(at[i]).index < Match(at[j]).index
  <2>1. at[i] \in Finds /\ at[j] \in Finds
    BY <1>2
  <2>2. \A f \in Finds : Match(f).index \in Nat
    BY DEF Inv, FoundOK
  <2>3. SUFFICES ASSUME Match(at[j]).index <= Match(at[i]).index PROVE FALSE
    BY <2>1, <2>2
  <2>4. below(at[j]) \in SUBSET below(at[i])
    <3>1. \A g \in Finds : Match(g).index <= Match(at[j]).index => Match(g).index <= Match(at[i]).index
      BY <2>1, <2>2, <2>3
    <3> QED BY <3>1
  <2>5. IsFiniteSet(below(at[i]))
    <3>1. below(at[i]) \in SUBSET Finds
      OBVIOUS
    <3> QED BY <3>1, <1>1, FS_Subset
  <2>6. Cardinality(below(at[j])) <= Cardinality(below(at[i]))
    <3> HIDE DEF below
    <3> QED BY <2>4, <2>5, FS_Subset
  <2> HIDE DEF below, n
  <2> QED BY <2>6, <1>1, <1>2, <1>4
<1> QED BY <1>2, <1>3, <1>4

LEMMA EndInv ==
  ASSUME Inv, NEW l \in Seq(Entries), Len(l) <= MaxResults, Promise!NoDuplicates(l),
         \A i \in 1 .. Len(l) : l[i].addr + Width <= Size, EndScan(l)
  PROVE  Inv'
<1>1. /\ request' = NoScan /\ list' = l /\ mem' = mem /\ changed' = {} /\ full' = TRUE
      /\ given' = 0 /\ total' = 0 /\ stop' = FALSE /\ failed' = FALSE /\ overflow' = FALSE
      /\ work' = [w \in Workers |-> 0] /\ buffer' = [w \in Workers |-> <<>>]
      /\ found' = [w \in Workers |-> <<>>] /\ wpc' = wpc
  BY DEF EndScan
<1>2. wpc = [w \in Workers |-> "done"]
  <2>1. \A w \in Workers : wpc[w] = "done"
    BY DEF EndScan, Joined
  <2> QED BY <2>1 DEF Inv, TypeOK
<1>3. Fresh'
  BY <1>1, <1>2 DEF Fresh
<1>4. (Finds = {} /\ Cardinality(Finds) = 0)'
  BY <1>3, FreshFinds, PTL
<1>5. TypeOK'
  <2>1. MaxResults \in Nat
    BY ScannerAssumption
  <2>2. (/\ mem \in [Address -> Cells] /\ list \in Seq(Entries) /\ Len(list) <= MaxResults
         /\ request = NoScan /\ changed \subseteq Address)'
    BY <1>1 DEF Inv, TypeOK
  <2>3. (full \in BOOLEAN /\ stop \in BOOLEAN /\ failed \in BOOLEAN /\ overflow \in BOOLEAN)'
    BY <1>1, Zenon
  <2>4. (given \in Nat /\ total \in 0 .. MaxResults + 1)'
    BY <1>1, <2>1
  <2>5. (/\ wpc \in [Workers -> {"claim", "first", "next", "done"}]
         /\ work \in [Workers -> Nat]
         /\ buffer \in [Workers -> Seq(Cells)]
         /\ found \in [Workers -> Seq(Matches)])'
    BY <1>1, <1>2
  <2>6. (Cardinality(Finds) <= MaxResults)'
    BY <1>4, <2>1
  <2> QED BY <2>2, <2>3, <2>4, <2>5, <2>6 DEF TypeOK
<1>6. ListOK'
  BY <1>1 DEF ListOK, Promise!NoDuplicates
<1> QED BY <1>3, <1>5, <1>6, FreshNext DEF Inv

LEMMA EmptyList ==
  /\ <<>> \in Seq(Entries) /\ Len(<<>>) <= MaxResults /\ Promise!NoDuplicates(<<>>)
  /\ \A i \in 1 .. Len(<<>>) : <<>>[i].addr + Width <= Size
<1>1. MaxResults \in Nat /\ Len(<<>>) = 0
  BY ScannerAssumption
<1> QED BY <1>1 DEF Promise!NoDuplicates

LEMMA EndsInv ==
  ASSUME Inv, NEW order \in Orders, FirstScanEnds(order) \/ NextScanEnds(order)
  PROVE  Inv'
<1>1. CASE FirstScanEnds(order)
  <2>1. CASE failed \/ overflow
    <3>1. EndScan(<<>>)
      BY <1>1, <2>1 DEF FirstScanEnds
    <3> QED BY <3>1, EmptyList, EndInv
  <2>2. CASE ~(failed \/ overflow)
    <3>1. PICK at \in Together(order) : EndScan(Listed(at))
      BY <1>1, <2>2 DEF FirstScanEnds
    <3> QED BY <3>1, TogetherLists, Listing, EndInv
  <2> QED BY <2>1, <2>2
<1>2. CASE NextScanEnds(order)
  <2>1. CASE failed
    <3>1. EndScan(list)
      BY <1>2, <2>1 DEF NextScanEnds
    <3>2. list \in Seq(Entries) /\ Len(list) <= MaxResults /\ Promise!NoDuplicates(list)
          /\ \A i \in 1 .. Len(list) : list[i].addr + Width <= Size
      BY DEF Inv, TypeOK, ListOK
    <3> QED BY <3>1, <3>2, EndInv
  <2>2. CASE ~failed
    <3>1. PICK at \in Sorted(order) : EndScan(Listed(at))
      BY <1>2, <2>2 DEF NextScanEnds
    <3>2. request.kind = "next"
      BY <1>2 DEF NextScanEnds
    <3> QED BY <3>1, <3>2, SortedLists, Listing, EndInv
  <2> QED BY <2>1, <2>2
<1> QED BY <1>1, <1>2

LEMMA StepInv ==
  ASSUME Inv, Next
  PROVE  Inv'
<1>1. CASE \E a \in Address, c \in Cells : WriteMemory(a, c)
  BY <1>1, WriteInv
<1>2. CASE Clear
  BY <1>2, ClearInv
<1>3. ASSUME NEW r \in Promise!Requests, FirstScan(r) \/ NextScan(r) PROVE Inv'
  <2>1. StartScan(r) /\ (list' = list \/ list' = <<>>)
    BY <1>3 DEF FirstScan, NextScan
  <2> QED BY <2>1, StartInv
<1>4. ASSUME NEW w \in Workers, Worker(w) PROVE Inv'
  <2>1. CASE Claim(w)
    BY <2>1, ClaimInv
  <2>2. CASE \E pages \in SUBSET Pages, ok \in BOOLEAN : ScanChunk(w, pages, ok)
    BY <2>2, ScanChunkInv
  <2>3. CASE Recheck(w)
    BY <2>3, RecheckInv
  <2>4. CASE RecheckFails(w)
    BY <2>4, RecheckFailsInv
  <2>5. CASE RecheckStopped(w)
    BY <2>5, RecheckStoppedInv
  <2> QED BY <1>4, <2>1, <2>2, <2>3, <2>4, <2>5 DEF Worker
<1>5. CASE \E order \in Orders : FirstScanEnds(order) \/ NextScanEnds(order)
  BY <1>5, EndsInv
<1> QED BY <1>1, <1>2, <1>3, <1>4, <1>5 DEF Next

LEMMA StutterInv ==
  ASSUME Inv, UNCHANGED vars
  PROVE  Inv'
<1>1. UNCHANGED <<mem, list, request, changed, full, given, total, stop, failed, overflow,
                  wpc, work, buffer, found>>
  BY DEF vars, promised, shared, local
<1>2. Finds' = Finds
  BY <1>1, SameFinds
<1>3. /\ WorkSize' = WorkSize /\ Portion' = Portion /\ ListOK' = ListOK
      /\ \A v : Pending(v)' = Pending(v)
  BY <1>1, SameWork, SamePending
<1>4. Done' = Done
  BY <1>1, <1>3 DEF Done
<1>5. FoundOK' /\ Exact'
  BY <1>1, <1>4, SameFound DEF Inv, promised
<1>6. TypeOK' /\ Idle' /\ Counts'
  BY <1>1, <1>2 DEF Inv, TypeOK, Idle, Counts
<1>7. Handed'
  BY <1>1, <1>3 DEF Inv, Handed
<1> QED BY <1>3, <1>5, <1>6, <1>7 DEF Inv

LEMMA InvHolds ==
  Spec => []Inv
<1>1. Inv /\ [Next]_vars => Inv'
  BY StepInv, StutterInv
<1> QED BY <1>1, InvInit, PTL DEF Spec

(* Every variable of the scanner has its type, whatever the workers do; in  *)
(* particular the list never holds more than MaxResults entries.            *)
THEOREM Safety ==
  Spec => []TypeOK
<1>1. Inv => TypeOK
  BY DEF Inv
<1> QED BY <1>1, InvHolds, PTL

-----------------------------------------------------------------------------
(* Refinement: each step of the scanner is one of ScanList, or changes      *)
(* nothing that ScanList sees.                                              *)

LEMMA WritePromise ==
  ASSUME Inv, NEW a \in Address, NEW c \in Cells, WriteMemory(a, c)
  PROVE  Promise!Write
<1>1. /\ mem' = [mem EXCEPT ![a] = c] /\ mem[a] # c
      /\ changed' = IF request = NoScan THEN changed ELSE changed \cup {a}
      /\ UNCHANGED <<list, request, full>>
  BY DEF WriteMemory
<1>2. mem \in [Address -> Cells]
  BY DEF Inv, TypeOK
<1>3. mem' \in [0 .. Size - 1 -> Cells]
  BY <1>1, <1>2 DEF Address
<1>4. {b \in 0 .. Size - 1 : mem'[b] # mem[b]} = {a}
  BY <1>1, <1>2 DEF Address
<1>5. IF request = Promise!NoScan
      THEN UNCHANGED changed
      ELSE changed' = changed \cup {b \in 0 .. Size - 1 : mem'[b] # mem[b]}
  BY <1>1, <1>4 DEF NoScan
<1> QED BY <1>1, <1>3, <1>5 DEF Promise!Write

LEMMA StartPromise ==
  ASSUME NEW r \in Promise!Requests, FirstScan(r) \/ NextScan(r)
  PROVE  Promise!Start
<1>1. /\ request = NoScan /\ request' = r /\ UNCHANGED <<mem, changed, full>>
  BY DEF FirstScan, NextScan, StartScan
<1>2. list' = IF r.kind = "first" THEN <<>> ELSE list
  <2>1. CASE FirstScan(r)
    BY <2>1 DEF FirstScan
  <2>2. CASE NextScan(r)
    BY <2>2 DEF NextScan
  <2> QED BY <2>1, <2>2
<1> QED BY <1>1, <1>2 DEF Promise!Start, NoScan

LEMMA WorkerPromise ==
  ASSUME Inv, NEW w \in Workers, Worker(w)
  PROVE  Promise!ReadShort \/ UNCHANGED promised
<1>1. CASE Claim(w) \/ Recheck(w) \/ RecheckStopped(w)
  BY <1>1 DEF Claim, Recheck, RecheckStopped
<1>2. CASE RecheckFails(w)
  BY <1>2 DEF RecheckFails, Promise!ReadShort
<1>3. CASE \E pages \in SUBSET Pages, ok \in BOOLEAN : ScanChunk(w, pages, ok)
  <2>1. UNCHANGED <<mem, list, request, changed>> /\ \E p \in BOOLEAN : full' = (full /\ p)
    BY <1>3 DEF ScanChunk
  <2>2. full \in BOOLEAN
    BY DEF Inv, TypeOK
  <2>3. full' = FALSE \/ full' = full
    BY <2>1, <2>2
  <2> QED BY <2>1, <2>3 DEF Promise!ReadShort, promised
<1> QED BY <1>1, <1>2, <1>3 DEF Worker

(* A first scan that neither failed nor overflowed has been everywhere.     *)
LEMMA FirstExact ==
  ASSUME Inv, Joined, request.kind = "first", ~failed, ~overflow,
         NEW at \in [1 .. Cardinality(Finds) -> Finds],
         \A i, j \in 1 .. Cardinality(Finds) : at[i] = at[j] => i = j
  PROVE  /\ Promise!NoDuplicates(Listed(at))
         /\ Promise!Addresses(Listed(at)) \subseteq Promise!Positions(request.byteStep)
         /\ Promise!Missing \/ Promise!ExactFirst(Listed(at))
<1> DEFINE l == Listed(at)
           b == request.byteStep
<1>1. /\ Promise!NoDuplicates(l)
      /\ \A a : a \in Promise!Addresses(l) <=> \E f \in Finds : Match(f).addr = a
      /\ \A f \in Finds : \E i \in 1 .. Len(l) : l[i] = Entry(Match(f))
  BY Listing
<1> HIDE DEF l
<1>2. b \in BOOLEAN /\ request # NoScan /\ ~stop
  BY Kinds DEF Inv, Counts
<1>3. Done = 1 .. WorkSize /\ WorkSize = Len(Tasks(b))
  BY <1>2, AllDone DEF WorkSize
<1>4. \A k : Spots(k) = {a \in Promise!Positions(b) : /\ Tasks(b)[k].start <= a
                                                       /\ a < Tasks(b)[k].scanEnd}
  BY DEF Spots
<1> HIDE DEF b
<1>5. Promise!Addresses(l) \subseteq Promise!Positions(b)
  <2>1. \A f \in Finds : \E k \in Done : Match(f).addr \in Spots(k)
    BY DEF Inv, FoundOK
  <2> QED BY <1>1, <1>4, <2>1
<1>6. ASSUME ~Promise!Missing PROVE Promise!ExactFirst(l)
  <2>1. request.strict \/ full
    BY <1>6 DEF Promise!Missing
  <2>2. \A k \in Done : FoundAll(k)
    BY <1>2, <1>6, <2>1 DEF Inv, Exact
  <2> SUFFICES ASSUME NEW a \in Promise!Positions(b), Promise!Stable(a)
               PROVE  IF /\ Promise!LooksAt(a)
                         /\ Promise!Wanted(request.cond, Promise!Element(mem, a))
                      THEN \E i \in 1 .. Len(l) : l[i] = [addr |-> a, value |-> Promise!Element(mem, a)]
                      ELSE a \notin Promise!Addresses(l)
    BY DEF Promise!ExactFirst, b
  <2>3. PICK t \in Chunks(b) : t.start <= a /\ a < t.scanEnd
    BY <1>2, ChunksCover
  <2>4. PICK k \in 1 .. Len(Tasks(b)) : Tasks(b)[k] = t
    BY <1>2, TasksAre
  <2>5. k \in Done /\ a \in Spots(k)
    BY <1>3, <1>4, <2>3, <2>4
  <2>6. IF Hit(k, a)
        THEN \E f \in Finds : Entry(Match(f)) = [addr |-> a, value |-> Element(mem, a)]
        ELSE \A f \in Finds : Match(f).addr # a
    BY <2>2, <2>5 DEF FoundAll
  <2>7. Hit(k, a) <=> /\ Promise!LooksAt(a)
                      /\ Promise!Wanted(request.cond, Promise!Element(mem, a))
    BY DEF Hit, Element
  <2> QED BY <1>1, <2>6, <2>7 DEF Element
<1> QED BY <1>1, <1>5, <1>6 DEF l, b

(* A next scan that did not fail has looked at every entry.                 *)
LEMMA NextExact ==
  ASSUME Inv, Joined, request.kind = "next", ~failed,
         NEW order, NEW at \in Sorted(order)
  PROVE  /\ Promise!Refines(Listed(at))
         /\ Promise!Missing \/ Promise!ExactNext(Listed(at))
<1> DEFINE l == Listed(at)
           n == Cardinality(Finds)
           where == [i \in 1 .. n |-> Match(at[i]).index]
<1>1. /\ at \in [1 .. n -> Finds] /\ \A i, j \in 1 .. n : at[i] = at[j] => i = j
      /\ \A i, j \in 1 .. n : i < j => Match(at[i]).index < Match(at[j]).index
  BY SortedLists
<1>2. /\ Len(l) = n /\ \A i \in 1 .. n : at[i] \in Finds /\ l[i].addr = Match(at[i]).addr
      /\ \A a : a \in Promise!Addresses(l) <=> \E f \in Finds : Match(f).addr = a
      /\ \A f \in Finds : \E i \in 1 .. Len(l) : l[i] = Entry(Match(f))
  BY <1>1, Listing
<1> HIDE DEF l
<1>3. ~stop /\ request # NoScan
  BY Kinds DEF Inv, Counts
<1>4. Done = 1 .. Len(list) /\ \A k : Spots(k) = {list[k].addr}
  BY <1>3, AllDone DEF WorkSize, Spots
<1> HIDE DEF n
<1>5. Promise!Refines(l)
  <2>1. \A i \in 1 .. n : Match(at[i]).index \in 1 .. Len(list)
                          /\ Match(at[i]).addr = list[Match(at[i]).index].addr
    BY <1>2 DEF Inv, FoundOK
  <2>2. where \in [1 .. Len(l) -> 1 .. Len(list)]
    BY <1>2, <2>1
  <2>3. /\ \A i, j \in 1 .. Len(l) : i < j => where[i] < where[j]
        /\ \A i \in 1 .. Len(l) : l[i].addr = list[where[i]].addr
    BY <1>1, <1>2, <2>1
  <2> HIDE DEF where
  <2> QED BY <2>2, <2>3 DEF Promise!Refines
<1>6. ASSUME ~Promise!Missing PROVE Promise!ExactNext(l)
  <2>1. request.strict \/ full
    BY <1>6 DEF Promise!Missing
  <2>2. \A k \in Done : FoundAll(k)
    BY <1>3, <1>6, <2>1 DEF Inv, Exact
  <2>3. ASSUME NEW k \in 1 .. Len(list), NEW a, a = list[k].addr, Promise!Stable(a)
        PROVE  IF Promise!WantedAgain(request.cond, Promise!Element(mem, a), list[k].value)
               THEN \E j \in 1 .. Len(l) : l[j] = [addr |-> a, value |-> Promise!Element(mem, a)]
               ELSE a \notin Promise!Addresses(l)
    <3>1. k \in Done /\ a \in Spots(k)
      BY <1>4, <2>3
    <3>2. IF Hit(k, a)
          THEN \E f \in Finds : Entry(Match(f)) = [addr |-> a, value |-> Element(mem, a)]
          ELSE \A f \in Finds : Match(f).addr # a
      BY <2>2, <2>3, <3>1 DEF FoundAll
    <3>3. Hit(k, a) <=> Promise!WantedAgain(request.cond, Promise!Element(mem, a), list[k].value)
      BY DEF Hit, Element
    <3> QED BY <1>2, <3>2, <3>3 DEF Element
  <2> QED BY <2>3 DEF Promise!ExactNext
<1> QED BY <1>5, <1>6 DEF l

LEMMA EndsPromise ==
  ASSUME Inv, NEW order \in Orders, FirstScanEnds(order) \/ NextScanEnds(order)
  PROVE  Promise!Finish
<1>1. CASE FirstScanEnds(order)
  <2>1. request.kind = "first"
    BY <1>1 DEF FirstScanEnds
  <2>2. CASE failed \/ overflow
    <3>1. EndScan(<<>>)
      BY <1>1, <2>2 DEF FirstScanEnds
    <3> QED BY <3>1, <2>1 DEF EndScan, Joined, Promise!Finish, NoScan
  <2>3. CASE ~(failed \/ overflow)
    <3>1. PICK at \in Together(order) : EndScan(Listed(at))
      BY <1>1, <2>3 DEF FirstScanEnds
    <3>2. /\ Promise!NoDuplicates(Listed(at))
          /\ Promise!Addresses(Listed(at)) \subseteq Promise!Positions(request.byteStep)
          /\ Promise!Missing \/ Promise!ExactFirst(Listed(at))
      BY <2>1, <2>3, <3>1, TogetherLists, FirstExact DEF EndScan
    <3> DEFINE l == Listed(at)
    <3> HIDE DEF l
    <3>3. EndScan(l)
      BY <3>1 DEF l
    <3>4. /\ request # NoScan /\ list' = l
          /\ request' = NoScan /\ changed' = {} /\ full' = TRUE /\ UNCHANGED mem
      BY <3>3 DEF EndScan, Joined
    <3>5. /\ Promise!NoDuplicates(l)
          /\ Promise!Addresses(l) \subseteq Promise!Positions(request.byteStep)
          /\ Promise!Missing \/ Promise!ExactFirst(l)
      BY <3>2 DEF l
    <3>6. /\ Promise!NoDuplicates(list')
          /\ Promise!Addresses(list') \subseteq Promise!Positions(request.byteStep)
          /\ Promise!Missing \/ Promise!ExactFirst(list')
      BY <3>4, <3>5
    <3> QED BY <3>4, <3>6, <2>1 DEF Promise!Finish, NoScan
  <2> QED BY <2>2, <2>3
<1>2. CASE NextScanEnds(order)
  <2>1. request.kind = "next"
    BY <1>2 DEF NextScanEnds
  <2>2. CASE failed
    <3>1. EndScan(list)
      BY <1>2, <2>2 DEF NextScanEnds
    <3> QED BY <3>1, <2>1 DEF EndScan, Joined, Promise!Finish, NoScan
  <2>3. CASE ~failed
    <3>1. PICK at \in Sorted(order) : EndScan(Listed(at))
      BY <1>2, <2>3 DEF NextScanEnds
    <3> DEFINE l == Listed(at)
    <3>2. Promise!Refines(l) /\ (Promise!Missing \/ Promise!ExactNext(l))
      BY <2>1, <2>3, <3>1, NextExact DEF EndScan
    <3> HIDE DEF l
    <3>3. EndScan(l)
      BY <3>1 DEF l
    <3>4. /\ request # NoScan /\ list' = l
          /\ request' = NoScan /\ changed' = {} /\ full' = TRUE /\ UNCHANGED mem
      BY <3>3 DEF EndScan, Joined
    <3>5. Promise!Refines(list') /\ (Promise!Missing \/ Promise!ExactNext(list'))
      BY <3>2, <3>4
    <3> QED BY <3>4, <3>5, <2>1 DEF Promise!Finish, NoScan
  <2> QED BY <2>2, <2>3
<1> QED BY <1>1, <1>2

LEMMA StepPromise ==
  ASSUME Inv, [Next]_vars
  PROVE  [Promise!Next]_(Promise!vars)
<1>1. CASE \E a \in Address, c \in Cells : WriteMemory(a, c)
  BY <1>1, WritePromise DEF Promise!Next
<1>2. CASE Clear
  BY <1>2 DEF Clear, Promise!Clear, Promise!Next, NoScan
<1>3. CASE \E r \in Promise!Requests : FirstScan(r) \/ NextScan(r)
  BY <1>3, StartPromise DEF Promise!Next
<1>4. CASE \E w \in Workers : Worker(w)
  BY <1>4, WorkerPromise DEF Promise!Next, Promise!vars, promised
<1>5. CASE \E order \in Orders : FirstScanEnds(order) \/ NextScanEnds(order)
  BY <1>5, EndsPromise DEF Promise!Next
<1>6. CASE UNCHANGED vars
  BY <1>6 DEF vars, promised, Promise!vars
<1> QED BY <1>1, <1>2, <1>3, <1>4, <1>5, <1>6 DEF Next

(* What the worker threads do together is a scan as ScanList promises it:   *)
(* no position twice, no entry out of order, and nothing missed or made up  *)
(* by a strict scan or one whose reads were complete; but the vector code   *)
(* of an arm64 build leaves the last value of each chunk out, and only that.*)
THEOREM Implements ==
  Spec => Promised
<1>1. Init => Promise!Init
  BY DEF Init
<1>2. Inv /\ [Next]_vars => [Promise!Next]_(Promise!vars)
  BY StepPromise
<1> QED BY <1>1, <1>2, InvHolds, PTL DEF Spec, Promised, Promise!Spec

=============================================================================
