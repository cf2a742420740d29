----------------------------- MODULE FileIoProofs ----------------------------
(***************************************************************************)
(* Proofs about FileIo: wherever the clusters of an image lie, and however *)
(* a request is cut at parts and gathered over clusters, its sectors go to *)
(* their places.                                                           *)
(***************************************************************************)
EXTENDS FileIo, Integers, FiniteSetTheorems, TLAPS

\* What ImageAssumption says of an image holds of the files that are open.
ImageOK ==
  /\ chain # <<>> /\ chain \in Seq(Seq(Nat \ {0, 1}))
  /\ size \in [DOMAIN chain -> Nat \ {0}]
  /\ \A p \in DOMAIN chain :
       /\ size[p] > Csize * (Len(chain[p]) - 1)
       /\ size[p] <= Csize * Len(chain[p])
       /\ p < Len(chain) => size[p] = size[1]
       /\ size[p] <= size[1]

\* The sectors of the request whose places are in the buffer before m.
Upto(m) == {<<i, Place(request.sector + i)>> : i \in 0..(m - 1)}

\* Sector o of part p, counted through the partition.
Position(p, o) == IF Split THEN (p - 1) * part_size + o ELSE o

\* The card's sector s is one of the image's.
Own(s) ==
  \E p \in Parts : \E k \in 1..Len(chain[p]) :
    s - Sect(chain[p][k]) \in 0..(Csize - 1)

\* No part of the request has had an error, and nothing of it is clipped.
Exact == Touched \cap err = {} /\ (request.is_write \/ InImage)

Moving == pc \in {"head", "first", "gather"}

\* What the gathered command will move.
Gathered == IF pc = "gather" THEN count ELSE 0

TypeOK ==
  /\ pc \in {"idle", "seek", "head", "first", "gather"}
  /\ request \in [is_write : BOOLEAN, sector : Nat, num_sectors : Nat]
  /\ result \in BOOLEAN
  /\ part \in Nat /\ sector \in Nat /\ remaining \in Nat /\ buf \in Nat
  /\ fptr \in Nat /\ clust \in Nat /\ btr \in Nat
  /\ wbuff \in Nat /\ sector_base \in Nat /\ count \in Nat

\* Where a request under way is.
Under ==
  pc # "idle" =>
    /\ part \in Parts /\ part \in Touched
    /\ buf + remaining = request.num_sectors
    /\ Split => request.sector + request.num_sectors <= total_sect

Seeking ==
  pc = "seek" =>
    /\ remaining > 0
    /\ Position(part, sector) = request.sector + buf
    /\ IF Split THEN sector < size[part] ELSE sector <= size[part] /\ buf = 0

\* The rest of a part: f_read_fast's and f_write_fast's own variables.
InPart ==
  Moving =>
    /\ wbuff + Gathered + btr <= buf
    /\ Split \/ ~request.is_write => fptr + btr <= size[part]
    /\ remaining # 0 => Split /\ part * part_size = request.sector + buf
    /\ Exact => /\ wbuff + Gathered + btr = buf
                /\ Position(part, fptr) = request.sector + wbuff + Gathered

AtHead ==
  pc = "head" =>
    /\ fptr % Csize # 0 /\ fptr <= size[part]
    /\ fptr \div Csize < Len(chain[part])
    /\ clust = chain[part][fptr \div Csize + 1]

\* The command that is being gathered.
Gathering ==
  pc = "gather" =>
    /\ \A i \in 0..(count - 1) : Own(sector_base + i)
    /\ Exact => \A i \in 0..(count - 1) :
                  sector_base + i = Place(request.sector + wbuff + i)

\* AlignedAfterHead, and further on, where no head has failed unseen.
Aligned ==
  pc \in {"first", "gather"} /\ Exact /\ btr > 0 => fptr % Csize = 0

MovedOK ==
  /\ \A m \in moved : Own(m[2])
  /\ Exact =>
       /\ pc = "idle" /\ InImage => moved \subseteq Wanted
       /\ pc = "idle" /\ result => moved = Upto(request.num_sectors)
       /\ pc = "seek" => moved = Upto(buf)
       /\ Moving => moved = Upto(wbuff)

IInv == ImageOK /\ TypeOK /\ Under /\ Seeking /\ InPart /\ AtHead /\ Aligned
          /\ Gathering /\ MovedOK

-----------------------------------------------------------------------------
(* Arithmetic                                                              *)

LEMMA DivMod ==
  ASSUME NEW a \in Nat, NEW c \in Nat \ {0}
  PROVE  /\ a \div c \in Nat /\ a % c \in 0..(c - 1)
         /\ a = c * (a \div c) + (a % c)
<1> DEFINE q == a \div c
           r == a % c
<1>1. q \in Nat /\ r \in 0..(c - 1)
  OBVIOUS
<1>2. a - r = q * c
  BY SMTT(30)
<1> HIDE DEF q, r
<1>3. a = c * q + r
  BY <1>1, <1>2, SMTT(30)
<1> QED BY <1>1, <1>3 DEF q, r

LEMMA DivUnique ==
  ASSUME NEW c \in Nat \ {0}, NEW q \in Nat, NEW r \in 0..(c - 1)
  PROVE  (c * q + r) \div c = q /\ (c * q + r) % c = r
<1> DEFINE a == c * q + r
<1>1. a \in Int
  BY SMTT(30)
<1>2. a = c * q + r
  OBVIOUS
<1> HIDE DEF a
<1>3. a \div c = q /\ a % c = r
  BY <1>1, <1>2, SMTT(30)
<1> QED BY <1>3 DEF a

\* How far a lies through the c-sized pieces of n of them.
LEMMA DivBound ==
  ASSUME NEW a \in Nat, NEW c \in Nat \ {0}, NEW n \in Nat
  PROVE  /\ a < c * n => a \div c < n
         /\ a >= c * n => a \div c >= n
<1> DEFINE q == a \div c
           r == a % c
<1>1. q \in Nat /\ r \in 0..(c - 1) /\ a = c * q + r
  BY DivMod
<1> HIDE DEF q, r
<1>2. q >= n => c * q >= c * n
  BY <1>1, Z3
<1>3. q <= n - 1 => c * q <= c * (n - 1)
  BY <1>1, Z3
<1>4. c * (n - 1) = c * n - c
  BY Z3
<1> QED BY <1>1, <1>2, <1>3, <1>4 DEF q

\* Two places less than a piece apart and in the same one.
LEMMA DivStep ==
  ASSUME NEW a \in Nat, NEW c \in Nat \ {0}, NEW i \in Nat, (a % c) + i < c
  PROVE  (a + i) \div c = a \div c /\ (a + i) % c = (a % c) + i
<1>1. a \div c \in Nat /\ a % c \in 0..(c - 1) /\ a = c * (a \div c) + (a % c)
  BY DivMod
<1>2. a + i = c * (a \div c) + ((a % c) + i) /\ (a % c) + i \in 0..(c - 1)
  BY <1>1
<1> DEFINE q == a \div c
           r == (a % c) + i
<1>3. (c * q + r) \div c = q /\ (c * q + r) % c = r
  BY <1>1, <1>2, DivUnique
<1> QED BY <1>2, <1>3

LEMMA SumBelow ==
  ASSUME NEW a \in Nat, NEW b \in Nat, NEW c \in Nat, NEW d \in Nat,
         NEW x \in Nat, NEW y \in Nat, a + b <= c + d, c + d <= y, x >= y
  PROVE  a + b <= x
BY SMT

\* Induction to n, by counting: + 1 maps a set that it keeps to itself.
LEMMA UptoInduction ==
  ASSUME NEW n \in Nat, NEW S \in SUBSET (0..n), 0 \in S,
         \A i \in S : i < n => i + 1 \in S
  PROVE  n \in S
<1> SUFFICES ASSUME n \notin S PROVE FALSE
  OBVIOUS
<1> DEFINE f == [i \in S |-> i + 1]
<1>1. IsFiniteSet(S)
  <2>1. IsFiniteSet(0..n)
    BY FS_Interval
  <2> QED BY <2>1, FS_Subset
<1>2. f \in Injection(S, S)
  <2>1. f \in [S -> S]
    BY DEF f
  <2> QED BY <2>1 DEF Injection, IsInjective
<1>3. f \in Surjection(S, S)
  BY <1>1, <1>2, FS_Injection
<1>4. \E i \in S : f[i] = 0
  BY <1>3 DEF Surjection
<1> QED BY <1>4

\* The sum over the parts, in closed form.
LEMMA TotalIs ==
  ASSUME ImageOK
  PROVE  total_sect = (Len(chain) - 1) * size[1] + size[Len(chain)]
<1> DEFINE N == Len(chain)
           Sums(f) == [n \in 0..N |-> IF n = 0 THEN 0 ELSE f[n - 1] + size[n]]
           sum == CHOOSE f : f = Sums(f)
           g == [n \in 0..N |-> IF n < N THEN n * size[1]
                                ELSE (N - 1) * size[1] + size[N]]
           S == {n \in 0..N : sum[n] = g[n]}
<1>1. /\ N \in Nat \ {0} /\ DOMAIN chain = 1..N
      /\ \A n \in 1..N : size[n] \in Nat
      /\ \A n \in 1..(N - 1) : size[n] = size[1]
  BY DEF ImageOK
<1>2. total_sect = sum[N]
  BY DEF total_sect
<1> HIDE DEF N
<1>3. g = Sums(g)
  <2>1. ASSUME NEW n \in 0..N
        PROVE  g[n] = IF n = 0 THEN 0 ELSE g[n - 1] + size[n]
    <3>1. n # 0 => g[n - 1] = (n - 1) * size[1]
      BY <1>1, <2>1
    <3>2. CASE n = 0
      BY <1>1, <3>2
    <3>3. CASE n \in 1..(N - 1)
      <4>1. g[n] = n * size[1] /\ size[n] = size[1]
        BY <1>1, <3>3
      <4>2. n * size[1] = (n - 1) * size[1] + size[1]
        BY <1>1, <3>3
      <4> QED BY <3>1, <3>3, <4>1, <4>2
    <3>4. CASE n = N
      BY <1>1, <3>1, <3>4
    <3> QED BY <1>1, <3>2, <3>3, <3>4
  <2> QED BY <2>1
<1>4. sum = Sums(sum)
  <2> HIDE DEF g, Sums
  <2>1. \E f : f = Sums(f)
    BY <1>3
  <2> QED BY <2>1
<1> HIDE DEF sum
<1>5. sum[0] = 0 /\ \A n \in 0..(N - 1) : sum[n + 1] = sum[n] + size[n + 1]
  BY <1>1, <1>4
<1>6. g[0] = 0 /\ \A n \in 0..(N - 1) : g[n + 1] = g[n] + size[n + 1]
  <2> HIDE DEF g
  <2> QED BY <1>1, <1>3
<1>7. g[N] = (N - 1) * size[1] + size[N]
  BY <1>1
<1> HIDE DEF g
<1>8. S \in SUBSET (0..N) /\ 0 \in S /\ \A n \in S : n < N => n + 1 \in S
  BY <1>1, <1>5, <1>6
<1>9. N \in S
  BY <1>1, <1>8, UptoInduction
<1> QED BY <1>2, <1>7, <1>9 DEF N

-----------------------------------------------------------------------------
(* Places                                                                  *)

LEMMA ImageFacts ==
  ASSUME ImageOK
  PROVE  /\ Len(chain) \in Nat \ {0} /\ Parts = 1..Len(chain) /\ 1 \in Parts
         /\ part_size \in Nat \ {0} /\ total_sect \in Nat
         /\ \A p \in Parts :
              /\ size[p] \in Nat \ {0} /\ size[p] <= part_size
              /\ Len(chain[p]) \in Nat \ {0}
              /\ chain[p] \in [1..Len(chain[p]) -> Nat \ {0, 1}]
              /\ size[p] <= Csize * Len(chain[p])
              /\ size[p] > Csize * (Len(chain[p]) - 1)
              /\ p < Len(chain) => size[p] = part_size
<1>1. /\ Len(chain) \in Nat \ {0} /\ Parts = 1..Len(chain)
  BY DEF ImageOK, Parts
<1>2. ASSUME NEW p \in Parts
      PROVE  /\ size[p] \in Nat \ {0} /\ size[p] <= part_size
             /\ chain[p] \in Seq(Nat \ {0, 1})
             /\ size[p] <= Csize * Len(chain[p])
             /\ size[p] > Csize * (Len(chain[p]) - 1)
             /\ p < Len(chain) => size[p] = part_size
  BY <1>2 DEF ImageOK, Parts, part_size
<1>3. ASSUME NEW p \in Parts
      PROVE  /\ Len(chain[p]) \in Nat \ {0}
             /\ chain[p] \in [1..Len(chain[p]) -> Nat \ {0, 1}]
  <2>1. /\ Len(chain[p]) \in Nat
        /\ chain[p] \in [1..Len(chain[p]) -> Nat \ {0, 1}]
    BY <1>2
  <2>2. Len(chain[p]) # 0
    BY <1>2, <2>1, CsizeAssumption
  <2> QED BY <2>1, <2>2
<1>4. 1 \in Parts /\ part_size \in Nat \ {0}
  BY <1>1, <1>2 DEF part_size
<1>5. total_sect \in Nat
  <2>1. total_sect = (Len(chain) - 1) * part_size + size[Len(chain)]
    BY TotalIs DEF part_size
  <2>2. size[Len(chain)] \in Nat
    BY <1>1, <1>2
  <2> HIDE DEF part_size
  <2>3. (Len(chain) - 1) * part_size \in Nat
    BY <1>1, <1>4
  <2> QED BY <2>1, <2>2, <2>3
<1> QED BY <1>1, <1>2, <1>3, <1>4, <1>5

LEMMA SingleIs ==
  ASSUME ImageOK, ~Split
  PROVE  Len(chain) = 1 /\ Parts = {1} /\ total_sect = size[1]
<1> DEFINE n == Len(chain)
<1>1. n \in Nat \ {0} /\ ~(n > 1) /\ Parts = 1..n /\ size[1] \in Nat
  BY ImageFacts DEF Split
<1>2. total_sect = (n - 1) * size[1] + size[n]
  BY TotalIs
<1> HIDE DEF n
<1>3. n = 1
  BY <1>1
<1>4. Parts = {1} /\ total_sect = size[1]
  BY <1>1, <1>2, <1>3
<1> QED BY <1>3, <1>4 DEF n

\* The place of sector o of part p.
PlaceIn(p, o) == Sect(chain[p][o \div Csize + 1]) + (o % Csize)

LEMMA PlaceIs ==
  ASSUME ImageOK, NEW p \in Parts, NEW o \in Nat,
         Split => o < part_size, ~Split => p = 1
  PROVE  Place(Position(p, o)) = PlaceIn(p, o) /\ Position(p, o) \in Nat
<1>1. CASE ~Split
  BY <1>1 DEF Place, Position, PlaceIn
<1>2. CASE Split
  <2>1. /\ part_size \in Nat \ {0} /\ p - 1 \in Nat /\ p \in Nat
        /\ o \in 0..(part_size - 1)
    BY <1>2, ImageFacts
  <2>2. Position(p, o) = (p - 1) * part_size + o
    BY <1>2 DEF Position
  <2> HIDE DEF part_size
  <2>3. part_size * (p - 1) = (p - 1) * part_size
    BY <2>1
  <2>4. Position(p, o) = part_size * (p - 1) + o
    BY <2>2, <2>3
  <2>5. Position(p, o) \div part_size = p - 1 /\ Position(p, o) % part_size = o
    <3> DEFINE q == p - 1
    <3>1. q \in Nat
      BY <2>1
    <3>2. Position(p, o) = part_size * q + o
      BY <2>4
    <3> HIDE DEF q
    <3>3. (part_size * q + o) \div part_size = q /\ (part_size * q + o) % part_size = o
      BY <2>1, <3>1, DivUnique
    <3> QED BY <3>2, <3>3 DEF q
  <2>6. Position(p, o) \in Nat
    BY <2>1, <2>4
  <2>7. p - 1 + 1 = p
    BY <2>1
  <2> QED BY <1>2, <2>5, <2>6, <2>7 DEF Place, PlaceIn
<1> QED BY <1>1, <1>2

\* A sector of one of the part's clusters, and the ones behind it there.
LEMMA OwnIn ==
  ASSUME ImageOK, NEW p \in Parts, NEW o \in Nat, NEW i \in Nat,
         o \div Csize < Len(chain[p]), (o % Csize) + i < Csize
  PROVE  /\ Own(PlaceIn(p, o) + i) /\ PlaceIn(p, o) \in Nat
         /\ PlaceIn(p, o + i) = PlaceIn(p, o) + i
<1> DEFINE k == o \div Csize + 1
           r == o % Csize
<1>1. /\ o \div Csize \in Nat /\ o % Csize \in 0..(Csize - 1)
      /\ Csize \in Nat \ {0} /\ Database \in Nat
  BY CsizeAssumption, BaseAssumption, DivMod
<1>2. k \in 1..Len(chain[p])
  BY <1>1, ImageFacts
<1>3. chain[p][k] \in Nat /\ chain[p][k] >= 2
  <2> HIDE DEF k
  <2> QED BY <1>2, ImageFacts
<1>4. Sect(chain[p][k]) \in Nat
  <2> HIDE DEF k
  <2> DEFINE x == chain[p][k] - 2
  <2>1. x \in Nat
    BY <1>3
  <2> HIDE DEF x
  <2>2. x * Csize \in Nat
    BY <1>1, <2>1
  <2>3. Sect(chain[p][k]) = Database + x * Csize
    BY DEF Sect, x
  <2> QED BY <1>1, <2>2, <2>3
<1>5. PlaceIn(p, o) = Sect(chain[p][k]) + r
  BY DEF PlaceIn
<1>6. r \in Nat /\ r + i \in 0..(Csize - 1)
  BY <1>1
<1> HIDE DEF r
<1>7. (PlaceIn(p, o) + i) - Sect(chain[p][k]) \in 0..(Csize - 1)
  <2> HIDE DEF k
  <2> QED BY <1>1, <1>4, <1>5, <1>6
<1>8. Own(PlaceIn(p, o) + i)
  <2> DEFINE s == PlaceIn(p, o) + i
  <2> HIDE DEF k, s
  <2>1. s - Sect(chain[p][k]) \in 0..(Csize - 1)
    BY <1>7 DEF s
  <2>2. \E j \in 1..Len(chain[p]) : s - Sect(chain[p][j]) \in 0..(Csize - 1)
    BY <1>2, <2>1
  <2>3. Own(s)
    BY <2>2 DEF Own
  <2> QED BY <2>3 DEF s
<1>9. (o + i) \div Csize = o \div Csize /\ (o + i) % Csize = (o % Csize) + i
  BY <1>1, DivStep
<1>10. PlaceIn(p, o + i) = Sect(chain[p][k]) + (r + i)
  BY <1>9 DEF PlaceIn, r
<1>11. PlaceIn(p, o + i) = PlaceIn(p, o) + i /\ PlaceIn(p, o) \in Nat
  <2> HIDE DEF k
  <2> QED BY <1>4, <1>5, <1>6, <1>10
<1> QED BY <1>8, <1>11

-----------------------------------------------------------------------------
(* What a step that leaves the request alone leaves alone                  *)

\* Only a single file ever grows, and where it does the places stay.
LEMMA Frame ==
  ASSUME chain' = chain, request' = request, ~Split \/ size' = size
  PROVE  /\ Parts' = Parts /\ (Split' <=> Split)
         /\ Touched' = Touched /\ Wanted' = Wanted
         /\ \A s : Own(s)' <=> Own(s)
         /\ \A k : Place(k)' = Place(k)
         /\ \A m : Upto(m)' = Upto(m)
         /\ \A p, o : Position(p, o)' = Position(p, o)
<1>1. Parts' = Parts /\ (Split' <=> Split)
  BY DEF Parts, Split
<1>2. ASSUME NEW k PROVE Place(k)' = Place(k)
  <2>1. CASE Split
    BY <1>1, <2>1 DEF Place, part_size, Sect
  <2>2. CASE ~Split
    BY <1>1, <2>2 DEF Place, Sect
  <2> QED BY <2>1, <2>2
<1>3. ASSUME NEW s PROVE Own(s)' <=> Own(s)
  BY DEF Own, Parts, Sect
<1>4. ASSUME NEW p, NEW o PROVE Position(p, o)' = Position(p, o)
  <2>1. CASE Split
    BY <1>1, <2>1 DEF Position, part_size
  <2>2. CASE ~Split
    BY <1>1, <2>2 DEF Position
  <2> QED BY <2>1, <2>2
<1>5. ASSUME NEW m PROVE Upto(m)' = Upto(m)
  BY <1>2 DEF Upto
<1>6. Wanted' = Wanted
  BY <1>2 DEF Wanted
<1>7. Touched' = Touched
  <2>1. CASE Split
    BY <1>1, <2>1 DEF Touched, part_size
  <2>2. CASE ~Split
    BY <1>1, <2>2 DEF Touched
  <2> QED BY <2>1, <2>2
<1> QED BY <1>1, <1>2, <1>3, <1>4, <1>5, <1>6, <1>7

LEMMA FrameSize ==
  ASSUME chain' = chain, size' = size
  PROVE  (ImageOK' <=> ImageOK) /\ part_size' = part_size /\ total_sect' = total_sect
BY DEF ImageOK, part_size, total_sect

\* An error is never taken back.
LEMMA FrameExact ==
  ASSUME chain' = chain, request' = request, ~Split \/ size' = size,
         request.is_write \/ size' = size, err \subseteq err'
  PROVE  Exact' => Exact
<1>1. Touched' = Touched
  BY Frame
<1>2. CASE request.is_write
  BY <1>1, <1>2 DEF Exact
<1>3. CASE size' = size
  BY <1>1, <1>3, FrameSize DEF Exact, InImage
<1> QED BY <1>2, <1>3

LEMMA WantedIs == Wanted = Upto(request.num_sectors)
BY DEF Wanted, Upto

\* A command for the next n sectors.
LEMMA RunUpto ==
  ASSUME NEW m \in Nat, NEW n \in Nat, NEW s \in Nat, request.sector \in Nat,
         \A i \in 0..(n - 1) : s + i = Place(request.sector + (m + i))
  PROVE  Upto(m) \cup Run(m, s, n) = Upto(m + n)
<1>1. ASSUME NEW e \in Upto(m) \cup Run(m, s, n) PROVE e \in Upto(m + n)
  <2>1. CASE e \in Upto(m)
    BY <2>1 DEF Upto
  <2>2. CASE e \in Run(m, s, n)
    <3>1. PICK i \in 0..(n - 1) : e = <<m + i, s + i>>
      BY <2>2 DEF Run
    <3>2. m + i \in 0..(m + n - 1) /\ e = <<m + i, Place(request.sector + (m + i))>>
      BY <3>1
    <3> QED BY <3>2 DEF Upto
  <2> QED BY <1>1, <2>1, <2>2
<1>2. ASSUME NEW e \in Upto(m + n) PROVE e \in Upto(m) \cup Run(m, s, n)
  <2>1. PICK j \in 0..(m + n - 1) : e = <<j, Place(request.sector + j)>>
    BY <1>2 DEF Upto
  <2>2. CASE j < m
    BY <2>1, <2>2 DEF Upto
  <2>3. CASE j >= m
    <3> DEFINE i == j - m
    <3>1. i \in 0..(n - 1) /\ j = m + i
      BY <2>1, <2>3
    <3> HIDE DEF i
    <3>2. e = <<m + i, s + i>>
      BY <2>1, <3>1
    <3> QED BY <3>1, <3>2 DEF Run
  <2> QED BY <2>1, <2>2, <2>3
<1> QED BY <1>1, <1>2

LEMMA ClustIs ==
  ASSUME ImageOK, NEW p \in Parts, NEW k \in Nat
  PROVE  /\ Clust(p, k) \in Nat
         /\ Clust(p, k) # 0 <=> k < Len(chain[p])
         /\ k < Len(chain[p]) => Clust(p, k) = chain[p][k + 1]
<1>1. /\ Len(chain[p]) \in Nat /\ chain[p] \in [1..Len(chain[p]) -> Nat \ {0, 1}]
  BY ImageFacts
<1>2. k < Len(chain[p]) => k + 1 \in 1..Len(chain[p])
  BY <1>1
<1> QED BY <1>1, <1>2 DEF Clust

-----------------------------------------------------------------------------
(* The initial states and a new request                                    *)

LEMMA IInvInit == Init => IInv
<1> SUFFICES ASSUME Init PROVE IInv
  OBVIOUS
<1>1. ImageOK
  <2>1. PICK image \in Images : chain = image.chain /\ size = image.size
    BY DEF Init
  <2> QED BY <2>1, ImageAssumption DEF ImageOK
<1>2. TypeOK
  BY DEF Init, TypeOK
<1>3. pc = "idle" /\ moved = {} /\ request.num_sectors = 0
  BY DEF Init
<1>4. Upto(0) = {}
  BY DEF Upto
<1>5. MovedOK
  <2>1. Upto(request.num_sectors) = {}
    BY <1>3, <1>4
  <2> QED BY <1>3, <2>1 DEF MovedOK, Moving
<1> QED
  BY <1>1, <1>2, <1>3, <1>5
     DEF IInv, Under, Seeking, InPart, Moving, AtHead, Aligned, Gathering

\* The first sector of a request lies in its first part, where it says.
LEMMA CallLands ==
  ASSUME ImageOK, NEW s \in 0..total_sect, NEW n \in 1..MaxSectors, InBounds(s, n)
  PROVE  /\ FirstPart(s) \in Parts
         /\ Split => /\ s % part_size \in Nat /\ s % part_size < size[FirstPart(s)]
                     /\ Position(FirstPart(s), s % part_size) = s
         /\ ~Split => FirstPart(s) = 1 /\ s <= size[1]
<1>1. /\ Len(chain) \in Nat \ {0} /\ Parts = 1..Len(chain)
      /\ part_size \in Nat \ {0} /\ total_sect \in Nat /\ s \in Nat /\ n \in Nat \ {0}
      /\ size[Len(chain)] \in Nat \ {0} /\ size[Len(chain)] <= part_size
      /\ \A p \in Parts : p < Len(chain) => size[p] = part_size
  BY ImageFacts, SectorsAssumption
<1>2. total_sect = (Len(chain) - 1) * part_size + size[Len(chain)]
  BY TotalIs DEF part_size
<1>3. CASE ~Split
  <2>2. 1 \in Parts /\ total_sect = size[1]
    BY <1>3, SingleIs
  <2> QED BY <1>1, <1>3, <2>2 DEF FirstPart
<1>4. CASE Split
  <2> DEFINE N == Len(chain)
             q == s \div part_size
             r == s % part_size
             last == size[N]
  <2>1. s + n <= total_sect
    BY <1>4 DEF InBounds
  <2>2. q \in Nat /\ r \in 0..(part_size - 1) /\ s = part_size * q + r
    BY <1>1, DivMod
  <2>3. FirstPart(s) = q + 1
    BY <1>4 DEF FirstPart
  <2> HIDE DEF q, r, part_size, N, last
  <2>4. /\ N \in Nat \ {0} /\ part_size \in Nat \ {0} /\ last \in Nat \ {0}
        /\ last <= part_size /\ s < total_sect
        /\ total_sect = (N - 1) * part_size + last
    BY <1>1, <1>2, <2>1 DEF N, last
  <2>5. (N - 1) * part_size + part_size = part_size * N
    BY <2>4
  <2>6. s < part_size * N
    BY <1>1, <2>4, <2>5
  <2>7. q < N
    BY <1>1, <2>4, <2>6, DivBound DEF q
  <2>8. q + 1 \in Parts
    BY <1>1, <2>2, <2>4, <2>7 DEF N
  <2>9. r < size[q + 1]
    <3>1. CASE q + 1 < N
      BY <1>1, <2>2, <2>8, <3>1 DEF N
    <3>2. CASE q + 1 = N
      <4>1. part_size * q = (N - 1) * part_size
        BY <2>2, <2>4, <3>2
      <4>2. s = (N - 1) * part_size + r
        BY <2>2, <4>1
      <4>3. (N - 1) * part_size \in Nat
        BY <2>4
      <4>4. r < last
        <5> DEFINE x == (N - 1) * part_size
        <5>1. x \in Nat /\ s = x + r /\ total_sect = x + last
          BY <2>4, <4>2, <4>3
        <5> HIDE DEF x
        <5> QED BY <2>2, <2>4, <5>1
      <4> QED BY <3>2, <4>4 DEF last
    <3> QED BY <2>2, <2>4, <2>7, <3>1, <3>2
  <2>10. Position(q + 1, r) = s
    <3>1. Position(q + 1, r) = q * part_size + r
      BY <1>4, <2>2 DEF Position
    <3>2. q * part_size = part_size * q
      BY <2>2, <2>4
    <3> QED BY <2>2, <3>1, <3>2
  <2> QED BY <1>4, <2>2, <2>3, <2>8, <2>9, <2>10 DEF r
<1> QED BY <1>3, <1>4

LEMMA CallKeeps == IInv /\ Call => IInv'
<1> SUFFICES ASSUME IInv, Call PROVE IInv'
  OBVIOUS
<1>1. PICK w \in BOOLEAN, s \in 0..total_sect, n \in 1..MaxSectors :
        /\ request' = [is_write |-> w, sector |-> s, num_sectors |-> n]
        /\ IF InBounds(s, n)
           THEN /\ part' = FirstPart(s)
                /\ sector' = IF Split THEN s % part_size ELSE s
                /\ remaining' = n
                /\ pc' = "seek" /\ result' = TRUE
           ELSE Return(FALSE) /\ part' = 1 /\ sector' = 0 /\ remaining' = 0
  BY DEF Call
<1>2. /\ buf' = 0 /\ moved' = {} /\ chain' = chain /\ size' = size /\ err' = err
      /\ fptr' = 0 /\ clust' = 0 /\ btr' = 0
      /\ wbuff' = 0 /\ sector_base' = 0 /\ count' = 0
  BY DEF Call, fileVars
<1>3. /\ ImageOK /\ ImageOK' /\ Parts' = Parts /\ (Split' <=> Split)
      /\ part_size' = part_size /\ total_sect' = total_sect
  BY <1>2, FrameSize DEF IInv, Parts, Split
<1>4. /\ s \in Nat /\ n \in Nat \ {0} /\ Len(chain) \in Nat \ {0}
      /\ Parts = 1..Len(chain) /\ total_sect \in Nat
  BY <1>3, ImageFacts, SectorsAssumption
<1>5. /\ request' \in [is_write : BOOLEAN, sector : Nat, num_sectors : Nat]
      /\ request'.sector = s /\ request'.num_sectors = n
  BY <1>1, <1>4
<1>6. Upto(0)' = {}
  BY DEF Upto
<1>7. CASE InBounds(s, n)
  <2>1. /\ part' = FirstPart(s) /\ sector' = (IF Split THEN s % part_size ELSE s)
        /\ remaining' = n /\ pc' = "seek" /\ result' = TRUE
    BY <1>1, <1>7
  <2>2. /\ FirstPart(s) \in Parts
        /\ Split => /\ s % part_size \in Nat /\ s % part_size < size[FirstPart(s)]
                    /\ Position(FirstPart(s), s % part_size) = s
        /\ ~Split => FirstPart(s) = 1 /\ s <= size[1]
    BY <1>3, <1>7, CallLands
  <2>3. TypeOK'
    BY <1>2, <1>4, <1>5, <2>1, <2>2 DEF TypeOK
  <2>4. part' \in Touched'
    <3>1. 0 \in 0..(n - 1) /\ s + 0 = s
      BY <1>4
    <3>2. part' = IF Split' THEN (s + 0) \div part_size' + 1 ELSE 1
      BY <1>3, <2>1, <3>1 DEF FirstPart
    <3>3. part' = IF Split' THEN (request'.sector + 0) \div part_size' + 1 ELSE 1
      BY <1>5, <3>2
    <3>4. 0 \in 0..(request'.num_sectors - 1)
      BY <1>5, <3>1
    <3> QED BY <3>3, <3>4 DEF Touched
  <2>5. Under'
    <3>1. Split => s + n <= total_sect
      BY <1>7 DEF InBounds
    <3> QED BY <1>2, <1>3, <1>4, <1>5, <2>1, <2>2, <2>4, <3>1 DEF Under
  <2>6. Seeking'
    <3>1. Position(part, sector)' = Position(part', sector')
      BY <1>3 DEF Position
    <3>2. Position(part', sector') = s
      <4>1. CASE Split
        BY <2>1, <2>2, <4>1
      <4>2. CASE ~Split
        BY <2>1, <4>2 DEF Position
      <4> QED BY <4>1, <4>2
    <3>3. Position(part, sector)' = request'.sector + buf'
      BY <1>2, <1>4, <1>5, <3>1, <3>2
    <3>4. IF Split' THEN sector' < size'[part'] ELSE sector' <= size'[part'] /\ buf' = 0
      <4>1. CASE Split
        BY <1>2, <1>3, <2>1, <2>2, <4>1
      <4>2. CASE ~Split
        BY <1>2, <1>3, <2>1, <2>2, <4>2
      <4> QED BY <4>1, <4>2
    <3> QED BY <1>4, <2>1, <3>3, <3>4 DEF Seeking
  <2>7. MovedOK'
    BY <1>2, <1>6, <2>1 DEF MovedOK, Moving
  <2> QED
    BY <1>3, <2>1, <2>3, <2>5, <2>6, <2>7
       DEF IInv, InPart, Moving, AtHead, Aligned, Gathering
<1>8. CASE ~InBounds(s, n)
  <2>1. pc' = "idle" /\ result' = FALSE /\ part' = 1 /\ sector' = 0 /\ remaining' = 0
    BY <1>1, <1>8 DEF Return
  <2>2. TypeOK'
    BY <1>2, <1>5, <2>1 DEF TypeOK
  <2>3. MovedOK'
    BY <1>2, <2>1 DEF MovedOK, Moving
  <2> QED
    BY <1>3, <2>1, <2>2, <2>3
       DEF IInv, Under, Seeking, InPart, Moving, AtHead, Aligned, Gathering
<1> QED BY <1>7, <1>8

-----------------------------------------------------------------------------
(* Seek                                                                    *)

LEMMA SeekFacts ==
  ASSUME ImageOK, TypeOK, Under, Seeking, pc = "seek"
  PROVE  /\ cur_sectors \in 1..remaining /\ sector <= size[part]
         /\ Split => sector + cur_sectors <= size[part]
         /\ remaining - cur_sectors # 0
              => Split /\ part * part_size = request.sector + (buf + cur_sectors)
         /\ ~Split => part = 1 /\ cur_sectors = remaining /\ sector = request.sector
                      /\ size[part] = total_sect /\ buf = 0
<1>1. /\ part \in Parts /\ remaining \in Nat \ {0} /\ sector \in Nat /\ buf \in Nat
      /\ request.sector \in Nat /\ request.num_sectors \in Nat
      /\ buf + remaining = request.num_sectors
      /\ Position(part, sector) = request.sector + buf
      /\ Split => request.sector + request.num_sectors <= total_sect
      /\ IF Split THEN sector < size[part] ELSE sector <= size[part] /\ buf = 0
  BY DEF TypeOK, Under, Seeking
<1>2. /\ Len(chain) \in Nat \ {0} /\ Parts = 1..Len(chain) /\ part \in Nat \ {0}
      /\ part_size \in Nat \ {0} /\ size[part] \in Nat \ {0} /\ size[part] <= part_size
      /\ part < Len(chain) => size[part] = part_size
  BY <1>1, ImageFacts
<1>3. total_sect = (Len(chain) - 1) * part_size + size[Len(chain)]
  BY TotalIs DEF part_size
<1>4. CASE ~Split
  <2>1. part = 1 /\ total_sect = size[1]
    BY <1>1, <1>4, SingleIs
  <2>2. cur_sectors = remaining
    BY <1>4 DEF cur_sectors
  <2>3. sector = request.sector
    BY <1>1, <1>4 DEF Position
  <2> QED BY <1>1, <1>4, <2>1, <2>2, <2>3
<1>5. CASE Split
  <2> DEFINE x == (part - 1) * part_size
             cur == cur_sectors
  <2>1. cur = Least(remaining, part_size - sector)
    BY <1>5 DEF cur_sectors
  <2>2. x \in Nat /\ x + sector = request.sector + buf
    BY <1>1, <1>2, <1>5 DEF Position
  <2>3. part * part_size = x + part_size
    BY <1>2
  <2> HIDE DEF x, cur, part_size
  <2>4. cur \in 1..remaining /\ cur <= part_size - sector
    BY <1>1, <1>2, <1>5, <2>1 DEF Least
  <2>5. remaining - cur # 0 => cur = part_size - sector
    BY <1>1, <1>2, <1>5, <2>1 DEF Least
  <2>6. sector + cur <= size[part]
    <3>1. CASE part < Len(chain)
      BY <1>1, <1>2, <2>4, <3>1
    <3>2. CASE part = Len(chain)
      <4>1. total_sect = x + size[part]
        BY <1>3, <3>2 DEF x
      <4> QED BY <1>1, <1>2, <1>5, <2>2, <2>4, <4>1
    <3> QED BY <1>1, <1>2, <3>1, <3>2
  <2>7. remaining - cur # 0 => part * part_size = request.sector + (buf + cur)
    <3>1. /\ x \in Nat /\ sector \in Nat /\ buf \in Nat /\ request.sector \in Nat
          /\ part_size \in Nat /\ cur \in Nat /\ x + sector = request.sector + buf
      BY <1>1, <1>2, <2>2, <2>4
    <3>2. CASE remaining - cur # 0
      <4>1. cur = part_size - sector
        BY <2>5, <3>2
      <4>2. x + part_size = request.sector + (buf + cur)
        BY <3>1, <4>1
      <4> QED BY <2>3, <4>2
    <3> QED BY <3>2
  <2>8. sector <= size[part]
    BY <1>1, <1>2, <1>5
  <2> QED BY <1>5, <2>4, <2>6, <2>7, <2>8 DEF cur
<1> QED BY <1>4, <1>5

\* The cluster that a place inside a cluster lies in.
LEMMA HeadCluster ==
  ASSUME ImageOK, NEW p \in Parts, NEW o \in Nat, o <= size[p], o % Csize # 0
  PROVE  /\ o \div Csize < Len(chain[p])
         /\ Clust(p, (o - 1) \div Csize) = chain[p][o \div Csize + 1]
<1> DEFINE q == o \div Csize
           r == o % Csize
           n == Len(chain[p])
<1>1. q \in Nat /\ r \in 1..(Csize - 1) /\ o = Csize * q + r /\ Csize \in Nat \ {0}
  <2>1. q \in Nat /\ r \in 0..(Csize - 1) /\ o = Csize * q + r /\ Csize \in Nat \ {0}
    BY CsizeAssumption, DivMod
  <2> HIDE DEF q
  <2>2. r # 0
    OBVIOUS
  <2> HIDE DEF r
  <2> QED BY <2>1, <2>2
<1>2. n \in Nat \ {0} /\ size[p] \in Nat /\ size[p] <= Csize * n
  BY ImageFacts
<1>3. o < Csize * n
  <2>1. CASE o = Csize * n
    <3> HIDE DEF n
    <3>1. (Csize * n + 0) % Csize = 0
      <4>1. Csize \in Nat \ {0} /\ n \in Nat /\ 0 \in 0..(Csize - 1)
        BY <1>1, <1>2
      <4> QED BY ONLY <4>1, DivUnique
    <3>2. Csize * n + 0 = o
      BY <1>1, <1>2, <2>1
    <3> QED BY <3>1, <3>2
  <2>2. Csize * n \in Nat
    BY <1>1, <1>2
  <2> HIDE DEF n
  <2> QED BY <1>2, <2>1, <2>2
<1>4. q < n
  BY <1>1, <1>2, <1>3, DivBound
<1>5. (o - 1) \div Csize = q
  <2> HIDE DEF q, r
  <2>1. o - 1 = Csize * q + (r - 1) /\ r - 1 \in 0..(Csize - 1)
    BY <1>1
  <2>2. (Csize * q + (r - 1)) \div Csize = q
    BY <1>1, <2>1, DivUnique
  <2> QED BY <2>1, <2>2
<1> HIDE DEF q
<1>6. Clust(p, q) = chain[p][q + 1]
  BY <1>1, <1>4, ClustIs
<1> QED BY <1>4, <1>5, <1>6 DEF q

\* A call that returns FALSE on a part that has its err set: nothing is promised
\* of it but that it has kept to the image.
LEMMA FailKeeps ==
  ASSUME IInv, pc # "idle", pc' = "idle", result' = FALSE, moved' = moved,
         UNCHANGED <<fileVars, reqVars, runVars>>, err \subseteq err', part \in err'
  PROVE  IInv'
<1>1. /\ chain' = chain /\ size' = size /\ request' = request
      /\ UNCHANGED <<part, sector, remaining, buf, fptr, clust, btr, wbuff,
                     sector_base, count>>
  BY DEF fileVars, reqVars, runVars
<1>2. /\ Touched' = Touched /\ \A s : Own(s)' <=> Own(s)
  BY <1>1, Frame
<1>3. ImageOK'
  BY <1>1, FrameSize DEF IInv
<1>4. TypeOK'
  BY <1>1 DEF IInv, TypeOK
<1>5. ~Exact'
  BY <1>2 DEF IInv, Under, Exact
<1>6. MovedOK'
  BY <1>2, <1>5 DEF IInv, MovedOK
<1> QED
  BY <1>3, <1>4, <1>6
     DEF IInv, Under, Seeking, InPart, Moving, AtHead, Aligned, Gathering

LEMMA SeekKeeps == IInv /\ Seek => IInv'
<1> SUFFICES ASSUME IInv, Seek PROVE IInv'
  OBVIOUS
<1>1. pc = "seek" /\ chain' = chain /\ size' = size /\ err' = err /\ moved' = moved
  BY DEF Seek, fileVars
<1>2. CASE part \in err
  BY <1>1, <1>2, FailKeeps DEF Seek, Return, fileVars
<1>3. CASE part \notin err
  <2> DEFINE cur == cur_sectors
  <2>1. /\ fptr' = Least(sector, size[part])
        /\ clust' = IF fptr' = 0 THEN clust ELSE Clust(part, (fptr' - 1) \div Csize)
        /\ btr' = IF request.is_write THEN cur ELSE Least(cur, size[part] - fptr')
        /\ wbuff' = buf /\ buf' = buf + cur /\ remaining' = remaining - cur
        /\ pc' = IF fptr' % Csize # 0 THEN "head" ELSE "first"
        /\ UNCHANGED <<request, result, part, sector, sector_base, count>>
    BY <1>3 DEF Seek
  <2>2. /\ cur \in 1..remaining /\ sector <= size[part]
        /\ Split => sector + cur <= size[part]
        /\ remaining - cur # 0 => Split /\ part * part_size = request.sector + (buf + cur)
        /\ ~Split => part = 1 /\ cur = remaining /\ sector = request.sector
                     /\ size[part] = total_sect /\ buf = 0
    BY <1>1, SeekFacts DEF IInv
  <2>3. /\ ImageOK /\ TypeOK /\ part \in Parts /\ part \in Touched
        /\ buf + remaining = request.num_sectors
        /\ Split => request.sector + request.num_sectors <= total_sect
        /\ Position(part, sector) = request.sector + buf
    BY <1>1 DEF IInv, Under, Seeking
  <2>4. /\ request.sector \in Nat /\ request.num_sectors \in Nat /\ sector \in Nat
        /\ buf \in Nat /\ remaining \in Nat /\ clust \in Nat
        /\ request.is_write \in BOOLEAN /\ part \in Nat
        /\ size[part] \in Nat
    BY <2>3, ImageFacts DEF TypeOK
  <2> HIDE DEF cur
  <2>5. fptr' = sector
    BY <2>1, <2>2, <2>4 DEF Least
  <2>6. /\ btr' \in Nat /\ btr' <= cur
        /\ request.is_write => btr' = cur
        /\ ~request.is_write => sector + btr' <= size[part]
        /\ sector + cur <= size[part] => btr' = cur
    BY <2>1, <2>2, <2>4, <2>5 DEF Least
  <2>7. clust' \in Nat
    <3>1. sector # 0 => (sector - 1) \div Csize \in Nat
      <4>1. sector # 0 => sector - 1 \in Nat
        BY <2>4
      <4> QED BY <4>1, CsizeAssumption, DivMod
    <3>2. sector # 0 => Clust(part, (sector - 1) \div Csize) \in Nat
      BY <2>3, <3>1, ClustIs
    <3> QED BY <2>1, <2>4, <2>5, <3>2
  <2>8. /\ Parts' = Parts /\ (Split' <=> Split) /\ Touched' = Touched
        /\ part_size' = part_size /\ total_sect' = total_sect /\ ImageOK'
        /\ \A s : Own(s)' <=> Own(s)
        /\ \A m : Upto(m)' = Upto(m)
    BY <1>1, <2>1, <2>3, Frame, FrameSize
  <2>9. Exact' => Exact
    BY <1>1, <2>1, FrameExact
  <2>10. TypeOK'
    BY <2>1, <2>2, <2>3, <2>4, <2>5, <2>6, <2>7 DEF TypeOK
  <2>11. Under'
    BY <1>1, <2>1, <2>2, <2>3, <2>4, <2>8 DEF Under
  <2>12. pc' \in {"head", "first"} /\ Gathered' = 0
    BY <2>1 DEF Gathered
  <2>13. InPart'
    <3>1. wbuff' + Gathered' + btr' <= buf'
      BY <2>1, <2>2, <2>4, <2>6, <2>12
    <3>2. Split' \/ ~request'.is_write => fptr' + btr' <= size'[part']
      <4>1. Split => sector + btr' <= size[part]
        BY <2>2, <2>4, <2>6
      <4> QED BY <1>1, <2>1, <2>5, <2>6, <2>8, <4>1
    <3>3. remaining' # 0 => Split' /\ part' * part_size' = request'.sector + buf'
      BY <2>1, <2>2, <2>8
    <3>4. Exact' => wbuff' + Gathered' + btr' = buf'
      <4>1. ASSUME Exact PROVE btr' = cur
        <5>1. CASE request.is_write
          BY <2>6, <5>1
        <5>2. CASE Split
          BY <2>2, <2>6, <5>2
        <5>3. CASE ~request.is_write /\ ~Split
          <6>1. request.sector + request.num_sectors <= total_sect
            BY <4>1, <5>3 DEF Exact, InImage
          <6>2. sector + cur <= size[part]
            BY <2>2, <2>3, <2>4, <5>3, <6>1
          <6> QED BY <2>6, <6>2
        <5> QED BY <5>1, <5>2, <5>3
      <4> QED BY <2>1, <2>2, <2>4, <2>6, <2>9, <2>12, <4>1
    <3>5. Position(part, fptr)' = request'.sector + wbuff' + Gathered'
      <4>1. Position(part, fptr)' = Position(part, sector)
        BY <2>1, <2>5, <2>8 DEF Position
      <4> QED BY <2>1, <2>3, <2>4, <2>12, <4>1
    <3> QED BY <3>1, <3>2, <3>3, <3>4, <3>5 DEF InPart
  <2>14. AtHead'
    <3>1. CASE sector % Csize # 0
      <4>1. /\ sector \div Csize < Len(chain[part])
            /\ Clust(part, (sector - 1) \div Csize) = chain[part][sector \div Csize + 1]
        BY <2>2, <2>3, <2>4, <3>1, HeadCluster
      <4>2. sector # 0
        <5>1. (Csize * 0 + 0) % Csize = 0
          <6>1. Csize \in Nat \ {0} /\ 0 \in Nat /\ 0 \in 0..(Csize - 1)
            BY CsizeAssumption
          <6> QED BY ONLY <6>1, DivUnique
        <5>2. Csize * 0 + 0 = 0
          BY CsizeAssumption
        <5> QED BY <3>1, <5>1, <5>2
      <4> QED BY <1>1, <2>1, <2>2, <2>5, <3>1, <4>1, <4>2 DEF AtHead
    <3>2. CASE sector % Csize = 0
      BY <2>1, <2>5, <3>2 DEF AtHead
    <3> QED BY <3>1, <3>2
  <2>15. Aligned'
    BY <2>1, <2>5 DEF Aligned
  <2>16. MovedOK'
    BY <1>1, <2>1, <2>8, <2>9, <2>12 DEF IInv, MovedOK, Moving
  <2> QED
    BY <2>8, <2>10, <2>11, <2>12, <2>13, <2>14, <2>15, <2>16
       DEF IInv, Seeking, Gathering
<1> QED BY <1>2, <1>3

-----------------------------------------------------------------------------
(* The end of a part                                                       *)

\* There is a next part whenever something is left of the request.
LEMMA NextPartFits ==
  ASSUME ImageOK, TypeOK, Under, InPart, Moving, remaining # 0
  PROVE  /\ Split /\ part + 1 \in Parts /\ part + 1 \in Touched
         /\ Position(part + 1, 0) = request.sector + buf
<1>1. /\ part \in Parts /\ remaining \in Nat \ {0} /\ buf \in Nat
      /\ request.sector \in Nat /\ request.num_sectors \in Nat
      /\ buf + remaining = request.num_sectors
      /\ Split /\ part * part_size = request.sector + buf
      /\ request.sector + request.num_sectors <= total_sect
  BY DEF TypeOK, Under, InPart, Moving
<1>2. /\ Len(chain) \in Nat \ {0} /\ Parts = 1..Len(chain) /\ part \in Nat \ {0}
      /\ part_size \in Nat \ {0} /\ size[Len(chain)] \in Nat
      /\ size[Len(chain)] <= part_size /\ total_sect \in Nat
  <2>1. /\ Len(chain) \in Nat \ {0} /\ Parts = 1..Len(chain)
        /\ part_size \in Nat \ {0} /\ total_sect \in Nat
    BY ImageFacts
  <2>2. Len(chain) \in Parts /\ part \in Nat \ {0}
    BY <1>1, <2>1
  <2>3. size[Len(chain)] \in Nat /\ size[Len(chain)] <= part_size
    BY <2>2, ImageFacts
  <2> QED BY <2>1, <2>2, <2>3
<1>3. total_sect = (Len(chain) - 1) * part_size + size[Len(chain)]
  BY TotalIs DEF part_size
<1> DEFINE N == Len(chain)
           s == request.sector + buf
<1>4. s \in Nat /\ s < total_sect /\ s = part_size * part
  <2>1. part_size * part = part * part_size
    BY <1>2
  <2>2. s \in Nat /\ s < total_sect
    BY <1>1, <1>2
  <2> QED BY <1>1, <2>1, <2>2
<1>5. (N - 1) * part_size + part_size = part_size * N
  BY <1>2
<1>6. total_sect <= part_size * N
  <2> DEFINE x == (N - 1) * part_size
             y == part_size * N
  <2>1. x \in Nat /\ y \in Nat /\ x + part_size = y
    BY <1>2, <1>5
  <2>2. total_sect = x + size[N]
    BY <1>3
  <2> HIDE DEF x, y, N
  <2>3. size[N] \in Nat /\ size[N] <= part_size /\ part_size \in Nat
    BY <1>2 DEF N
  <2>4. total_sect <= y
    BY <2>1, <2>2, <2>3
  <2> QED BY <2>4 DEF y
<1> HIDE DEF s, N
<1>7. part < N
  <2>1. part >= N => part_size * part >= part_size * N
    BY <1>2 DEF N
  <2>2. total_sect \in Nat /\ N \in Nat
    BY <1>2, ImageFacts DEF N
  <2>3. part_size * N \in Nat
    BY <1>2, <2>2
  <2> QED BY <1>2, <1>4, <1>6, <2>1, <2>2, <2>3
<1>8. part + 1 \in Parts
  BY <1>2, <1>7 DEF N
<1>9. part + 1 \in Touched
  <2>1. buf \in 0..(request.num_sectors - 1)
    BY <1>1
  <2>2. s \div part_size = part
    <3>1. (part_size * part + 0) \div part_size = part
      <4>1. part_size \in Nat \ {0} /\ part \in Nat /\ 0 \in 0..(part_size - 1)
        BY <1>2
      <4> QED BY ONLY <4>1, DivUnique
    <3>2. part_size * part + 0 = s
      BY <1>2, <1>4
    <3> QED BY <3>1, <3>2
  <2>3. part + 1 = IF Split THEN (request.sector + buf) \div part_size + 1 ELSE 1
    BY <1>1, <2>2 DEF s
  <2> QED BY <2>1, <2>3 DEF Touched
<1>10. Position(part + 1, 0) = request.sector + buf
  <2>1. (part + 1) - 1 = part
    BY <1>2
  <2>2. Position(part + 1, 0) = part * part_size + 0
    BY <1>1, <2>1 DEF Position
  <2> QED BY <1>1, <2>2
<1> QED BY <1>1, <1>8, <1>9, <1>10

LEMMA PartDoneKeeps ==
  ASSUME IInv, Moving, PartDone, ImageOK', chain' = chain, ~Split \/ size' = size,
         \A m \in moved' : Own(m[2]), Exact' => moved' = Upto(buf),
         fptr' \in Nat, clust' \in Nat, btr' \in Nat, wbuff' \in Nat,
         sector_base' \in Nat, count' \in Nat
  PROVE  IInv'
<1>1. request' = request /\ remaining' = remaining /\ buf' = buf
  BY DEF PartDone
<1>2. /\ TypeOK /\ ImageOK /\ Under /\ InPart /\ part \in Parts /\ part \in Nat
      /\ remaining \in Nat /\ buf + remaining = request.num_sectors /\ buf \in Nat
      /\ request.sector \in Nat
      /\ Split => request.sector + request.num_sectors <= total_sect
  BY DEF IInv, Under, TypeOK, Moving
<1>3. /\ Parts' = Parts /\ (Split' <=> Split) /\ Touched' = Touched /\ Wanted' = Wanted
      /\ \A s : Own(s)' <=> Own(s)
      /\ \A m : Upto(m)' = Upto(m)
      /\ \A p, o : Position(p, o)' = Position(p, o)
  BY <1>1, Frame
<1>4. CASE remaining = 0
  <2>1. pc' = "idle" /\ result' = TRUE /\ part' = part /\ sector' = sector
    BY <1>4 DEF PartDone, Return
  <2>2. TypeOK'
    BY <1>1, <1>2, <2>1 DEF TypeOK
  <2>3. MovedOK'
    <3>1. Exact' => moved' = Upto(request.num_sectors)
      BY <1>2, <1>4
    <3>2. Wanted' = Upto(request.num_sectors)
      BY <1>3, WantedIs
    <3> QED BY <1>1, <1>3, <2>1, <3>1, <3>2 DEF MovedOK, Moving
  <2> QED
    BY <2>1, <2>2, <2>3
       DEF IInv, Under, Seeking, InPart, Moving, AtHead, Aligned, Gathering
<1>5. CASE remaining # 0
  <2>1. pc' = "seek" /\ part' = part + 1 /\ sector' = 0 /\ result' = result
    BY <1>5 DEF PartDone, NextPart
  <2>2. /\ Split /\ part + 1 \in Parts /\ part + 1 \in Touched
        /\ Position(part + 1, 0) = request.sector + buf
    BY <1>2, <1>5, NextPartFits
  <2>3. TypeOK'
    BY <1>1, <1>2, <2>1 DEF TypeOK
  <2>4. size' = size /\ total_sect' = total_sect /\ part_size' = part_size
    BY <2>2, FrameSize
  <2>5. Under'
    BY <1>1, <1>2, <1>3, <2>1, <2>2, <2>4 DEF Under
  <2>6. Seeking'
    <3>1. Position(part, sector)' = Position(part + 1, 0)
      BY <1>3, <2>1, <2>4 DEF Position
    <3>2. size[part + 1] > 0 /\ size'[part'] = size[part + 1]
      <4>1. size[part + 1] \in Nat \ {0}
        BY <1>2, <2>2, ImageFacts
      <4> QED BY <2>1, <2>4, <4>1
    <3> QED BY <1>1, <1>2, <1>3, <1>5, <2>1, <2>2, <3>1, <3>2 DEF Seeking
  <2>7. MovedOK'
    BY <1>1, <1>3, <2>1 DEF MovedOK, Moving
  <2> QED
    BY <2>1, <2>3, <2>5, <2>6, <2>7
       DEF IInv, InPart, Moving, AtHead, Aligned, Gathering
<1> QED BY <1>4, <1>5

-----------------------------------------------------------------------------
(* The head of a part                                                      *)

\* What is known inside a part, in the terms that its steps use.
LEMMA PartFacts ==
  ASSUME IInv, Moving
  PROVE  /\ part \in Parts /\ part \in Touched /\ part \in Nat
         /\ size[part] \in Nat /\ size[part] <= part_size /\ part_size \in Nat
         /\ Len(chain[part]) \in Nat \ {0}
         /\ fptr \in Nat /\ btr \in Nat /\ wbuff \in Nat /\ buf \in Nat /\ count \in Nat
         /\ clust \in Nat /\ sector_base \in Nat /\ request.sector \in Nat
         /\ ~Split => part = 1
         /\ Split => fptr + btr <= part_size
         /\ Csize \in Nat \ {0}
<1>1. /\ part \in Parts /\ part \in Touched
      /\ Split => fptr + btr <= size[part]
  BY DEF IInv, Under, Moving, InPart
<1>2. /\ part \in Nat /\ fptr \in Nat /\ btr \in Nat /\ wbuff \in Nat /\ buf \in Nat
      /\ clust \in Nat /\ sector_base \in Nat /\ request.sector \in Nat /\ count \in Nat
  BY DEF IInv, TypeOK
<1>3. /\ size[part] \in Nat /\ size[part] <= part_size /\ part_size \in Nat
      /\ Len(chain[part]) \in Nat \ {0}
  BY <1>1, ImageFacts DEF IInv
<1>4. ~Split => part = 1
  BY <1>1, SingleIs DEF IInv
<1>5. Split => fptr + btr <= part_size
  BY <1>1, <1>2, <1>3
<1> QED BY <1>1, <1>2, <1>3, <1>4, <1>5, CsizeAssumption

\* From a place of the part on, n sectors of its cluster are the request's next.
LEMMA ClusterPlaces ==
  ASSUME IInv, Moving, NEW b \in Nat, NEW n \in Nat,
         fptr \div Csize < Len(chain[part]), (fptr % Csize) + n <= Csize, n <= btr
  PROVE  /\ PlaceIn(part, fptr) \in Nat
         /\ \A i \in 0..(n - 1) : Own(PlaceIn(part, fptr) + i)
         /\ Position(part, fptr) = request.sector + b
              => \A i \in 0..(n - 1) :
                   PlaceIn(part, fptr) + i = Place(request.sector + (b + i))
<1> DEFINE s == PlaceIn(part, fptr)
<1>1. /\ ImageOK /\ part \in Parts /\ fptr \in Nat /\ btr \in Nat /\ part_size \in Nat
      /\ request.sector \in Nat /\ Csize \in Nat \ {0} /\ part \in Nat
      /\ ~Split => part = 1
      /\ Split => fptr + btr <= part_size
  BY PartFacts DEF IInv
<1>2. fptr % Csize \in 0..(Csize - 1)
  BY <1>1, DivMod
<1>3. s \in Nat
  <2>1. (fptr % Csize) + 0 < Csize
    BY <1>1, <1>2
  <2> QED BY <1>1, <2>1, OwnIn
<1> HIDE DEF s
<1>4. ASSUME NEW i \in 0..(n - 1)
      PROVE  Own(s + i) /\ PlaceIn(part, fptr + i) = s + i
  <2>1. i \in Nat /\ (fptr % Csize) + i < Csize
    BY <1>1, <1>2, <1>4
  <2> QED BY <1>1, <2>1, OwnIn DEF s
<1>5. ASSUME NEW i \in 0..(n - 1), Position(part, fptr) = request.sector + b
      PROVE  s + i = Place(request.sector + (b + i))
  <2>1. fptr + i \in Nat /\ (Split => fptr + i < part_size) /\ i \in Nat
    BY <1>1, <1>5
  <2>2. Place(Position(part, fptr + i)) = PlaceIn(part, fptr + i)
    BY <1>1, <2>1, PlaceIs
  <2>3. Position(part, fptr + i) = request.sector + (b + i)
    <3>1. CASE Split
      <4> DEFINE x == (part - 1) * part_size
      <4>1. /\ Position(part, fptr) = x + fptr
            /\ Position(part, fptr + i) = x + (fptr + i)
        BY <3>1 DEF Position
      <4>2. x \in Int
        BY <1>1
      <4> HIDE DEF x
      <4> QED BY <1>1, <1>5, <2>1, <4>1, <4>2
    <3>2. CASE ~Split
      BY <1>1, <1>5, <2>1, <3>2 DEF Position
    <3> QED BY <3>1, <3>2
  <2> QED BY <1>4, <2>2, <2>3
<1> QED BY <1>3, <1>4, <1>5 DEF s

\* The place of the head: f_read or f_write from clust on.
LEMMA HeadPlace ==
  ASSUME IInv, pc = "head"
  PROVE  /\ fptr \div Csize < Len(chain[part])
         /\ Sect(clust) + (fptr % Csize) = PlaceIn(part, fptr)
         /\ head_sectors \in Nat /\ head_sectors <= btr
         /\ (fptr % Csize) + head_sectors <= Csize
         /\ head_sectors < btr => (fptr + head_sectors) % Csize = 0
         /\ fptr <= size[part]
         /\ fptr + head_sectors <= Csize * Len(chain[part])
<1>1. Moving
  BY DEF Moving
<1>2. /\ fptr \in Nat /\ btr \in Nat /\ Csize \in Nat \ {0} /\ Len(chain[part]) \in Nat
  BY <1>1, PartFacts
<1>3. /\ fptr \div Csize < Len(chain[part]) /\ fptr <= size[part]
      /\ clust = chain[part][fptr \div Csize + 1]
  BY DEF IInv, AtHead
<1> DEFINE q == fptr \div Csize
           r == fptr % Csize
           head == head_sectors
           n == Len(chain[part])
<1>4. q \in Nat /\ r \in 0..(Csize - 1) /\ fptr = Csize * q + r
  BY <1>2, DivMod
<1>5. Sect(clust) + (fptr % Csize) = PlaceIn(part, fptr)
  BY <1>3 DEF PlaceIn
<1>6. head = Least(btr, Csize - r)
  BY DEF head_sectors
<1> HIDE DEF q, r, head, n
<1>7. head \in Nat /\ head <= btr /\ r + head <= Csize /\ (head < btr => head = Csize - r)
  BY <1>2, <1>4, <1>6 DEF Least
<1>8. Csize * (q + 1) = Csize * q + Csize
  BY <1>2, <1>4
<1>9. fptr + head <= Csize * n
  <2>1. q + 1 <= n
    BY <1>2, <1>3, <1>4 DEF q, n
  <2>2. Csize * (q + 1) <= Csize * n
    BY <1>2, <1>4, <2>1 DEF n
  <2> DEFINE x == Csize * q
             y == Csize * n
  <2>3. x \in Nat /\ y \in Nat
    BY <1>2, <1>4 DEF n
  <2>4. x + Csize <= y
    BY <1>8, <2>2
  <2>5. fptr = x + r
    BY <1>4
  <2> HIDE DEF x, y
  <2>6. fptr + head <= y
    BY <1>2, <1>4, <1>7, <2>3, <2>4, <2>5
  <2> QED BY <2>6 DEF y
<1>10. head < btr => (fptr + head) % Csize = 0
  <2>1. (Csize * (q + 1) + 0) % Csize = 0
    <3>1. Csize \in Nat \ {0} /\ q + 1 \in Nat /\ 0 \in 0..(Csize - 1)
      BY <1>2, <1>4
    <3> QED BY ONLY <3>1, DivUnique
  <2>2. head < btr => fptr + head = Csize * (q + 1) + 0
    <3> DEFINE x == Csize * q
    <3>1. x \in Nat
      BY <1>2, <1>4
    <3>2. Csize * (q + 1) = x + Csize /\ fptr = x + r
      BY <1>4, <1>8
    <3> HIDE DEF x
    <3> QED BY <1>2, <1>4, <1>7, <3>1, <3>2
  <2> QED BY <2>1, <2>2
<1> QED BY <1>3, <1>5, <1>7, <1>9, <1>10 DEF head, r, n

\* Only the last cluster of a single file is ever filled up.
LEMMA HeadGrows ==
  ASSUME IInv, pc = "head", HeadMoved, chain' = chain
  PROVE  /\ ImageOK' /\ (~Split \/ size' = size)
         /\ request.is_write \/ size' = size
         /\ size'[part] >= size[part] /\ size'[part] \in Nat
<1> DEFINE head == head_sectors
<1>1. Moving
  BY DEF Moving
<1>2. /\ part \in Parts /\ part \in Nat /\ fptr \in Nat /\ btr \in Nat /\ size[part] \in Nat
      /\ ~Split => part = 1
  BY <1>1, PartFacts
<1>3. /\ head \in Nat /\ head <= btr /\ fptr + head <= Csize * Len(chain[part])
  BY HeadPlace
<1>4. /\ fptr' = fptr + head
      /\ size' = IF request.is_write /\ fptr' > size[part]
                 THEN [size EXCEPT ![part] = fptr'] ELSE size
  BY DEF HeadMoved
<1>5. Split \/ ~request.is_write => fptr + btr <= size[part]
  BY <1>1 DEF IInv, InPart
<1>6. ImageOK
  BY DEF IInv
<1> HIDE DEF head
<1>7. CASE size' = size
  BY <1>2, <1>6, <1>7, FrameSize
<1>8. CASE size' # size
  <2>1. /\ request.is_write /\ fptr' > size[part] /\ fptr' \in Nat \ {0}
        /\ size' = [size EXCEPT ![part] = fptr']
    BY <1>2, <1>3, <1>4, <1>8
  <2>2. ~Split
    BY <1>2, <1>3, <1>4, <1>5, <2>1
  <2>3. Len(chain) = 1 /\ Parts = {1} /\ part = 1
    BY <1>2, <1>6, <2>2, SingleIs
  <2>4. size \in [{1} -> Nat \ {0}] /\ DOMAIN chain = {1}
    BY <1>6, <2>3 DEF ImageOK, Parts
  <2>5. size'[1] = fptr' /\ size' \in [{1} -> Nat \ {0}]
    BY <2>1, <2>3, <2>4
  <2>6. size[1] > Csize * (Len(chain[1]) - 1)
    BY <1>6, <2>4 DEF ImageOK
  <2>7. Csize * (Len(chain[1]) - 1) \in Int
    <3>1. Len(chain[1]) \in Nat
      BY <1>6, <2>3, ImageFacts
    <3> QED BY <3>1, CsizeAssumption
  <2>8. size'[1] > Csize * (Len(chain[1]) - 1)
    <3> DEFINE x == Csize * (Len(chain[1]) - 1)
    <3>1. x \in Int /\ size[1] > x /\ fptr' > size[1] /\ size[1] \in Nat /\ fptr' \in Nat
      BY <1>2, <2>1, <2>3, <2>6, <2>7
    <3> HIDE DEF x
    <3>2. fptr' > x
      BY <3>1
    <3> QED BY <2>5, <3>2 DEF x
  <2>9. size'[1] <= Csize * Len(chain[1])
    BY <1>3, <1>4, <2>3, <2>5
  <2>10. ImageOK'
    <3>1. /\ chain' # <<>> /\ chain' \in Seq(Seq(Nat \ {0, 1}))
          /\ size' \in [DOMAIN chain' -> Nat \ {0}]
      BY <1>6, <2>4, <2>5 DEF ImageOK
    <3>2. ASSUME NEW p \in DOMAIN chain'
          PROVE  /\ size'[p] > Csize * (Len(chain'[p]) - 1)
                 /\ size'[p] <= Csize * Len(chain'[p])
                 /\ p < Len(chain') => size'[p] = size'[1]
                 /\ size'[p] <= size'[1]
      <4>1. p = 1
        BY <2>4
      <4> QED BY <2>3, <2>5, <2>8, <2>9, <4>1
    <3> QED BY <3>1, <3>2 DEF ImageOK
  <2> QED BY <1>2, <2>1, <2>2, <2>3, <2>5, <2>10
<1> QED BY <1>7, <1>8

LEMMA HeadIoKeeps == IInv /\ HeadIo => IInv'
<1> SUFFICES ASSUME IInv, HeadIo PROVE IInv'
  OBVIOUS
<1> DEFINE head == head_sectors
<1>1. /\ pc = "head" /\ chain' = chain /\ clust' = clust
      /\ sector_base' = sector_base /\ count' = count
      /\ wbuff' = wbuff + head /\ btr' = btr - head
      /\ HeadMoved \/ HeadFailed
      /\ IF btr' = 0 THEN PartDone
         ELSE pc' = "first" /\ UNCHANGED <<reqVars, result>>
  BY DEF HeadIo
<1>2. Moving /\ Gathered = 0
  BY <1>1 DEF Moving, Gathered
<1>3. /\ part \in Parts /\ part \in Touched /\ part \in Nat
      /\ size[part] \in Nat /\ fptr \in Nat /\ btr \in Nat /\ wbuff \in Nat /\ buf \in Nat
      /\ count \in Nat /\ clust \in Nat /\ sector_base \in Nat /\ request.sector \in Nat
  BY <1>2, PartFacts
<1>4. /\ fptr \div Csize < Len(chain[part])
      /\ Sect(clust) + (fptr % Csize) = PlaceIn(part, fptr)
      /\ head \in Nat /\ head <= btr /\ (fptr % Csize) + head <= Csize
      /\ head < btr => (fptr + head) % Csize = 0
  BY <1>1, HeadPlace
<1>5. /\ wbuff + btr <= buf
      /\ Split \/ ~request.is_write => fptr + btr <= size[part]
      /\ remaining # 0 => Split /\ part * part_size = request.sector + buf
      /\ Exact => wbuff + btr = buf /\ Position(part, fptr) = request.sector + wbuff
      /\ \A m \in moved : Own(m[2])
      /\ Exact => moved = Upto(wbuff)
  <2>1. InPart /\ MovedOK
    BY DEF IInv
  <2>2. /\ wbuff + Gathered + btr = wbuff + btr
        /\ request.sector + wbuff + Gathered = request.sector + wbuff
    BY <1>2, <1>3
  <2> QED BY <1>2, <2>1, <2>2 DEF InPart, MovedOK
<1>6. request' = request /\ buf' = buf /\ remaining' = remaining
  BY <1>1 DEF PartDone, reqVars
<1> HIDE DEF head
\* What the two outcomes have in common.
<1>7. /\ ImageOK' /\ (~Split \/ size' = size)
      /\ request.is_write \/ size' = size
      /\ size'[part] >= size[part] /\ size'[part] \in Nat
      /\ err \subseteq err' /\ fptr' \in Nat
      /\ fptr' + btr' <= fptr + btr
      /\ \A m \in moved' : Own(m[2])
      /\ Exact' => /\ Exact /\ fptr' = fptr + head
                   /\ moved' = Upto(wbuff + head)
  <2>1. CASE HeadMoved
    <3>1. /\ moved' = moved \cup Run(wbuff, PlaceIn(part, fptr), head)
          /\ fptr' = fptr + head /\ err' = err
      BY <1>4, <2>1 DEF HeadMoved, head
    <3>2. /\ ImageOK' /\ (~Split \/ size' = size)
          /\ request.is_write \/ size' = size
          /\ size'[part] >= size[part] /\ size'[part] \in Nat
      BY <1>1, <2>1, HeadGrows
    <3>3. /\ PlaceIn(part, fptr) \in Nat
          /\ \A i \in 0..(head - 1) : Own(PlaceIn(part, fptr) + i)
          /\ Position(part, fptr) = request.sector + wbuff
               => \A i \in 0..(head - 1) :
                    PlaceIn(part, fptr) + i = Place(request.sector + (wbuff + i))
      BY <1>2, <1>3, <1>4, ClusterPlaces
    <3>4. ASSUME NEW m \in moved' PROVE Own(m[2])
      <4>1. CASE m \in moved
        BY <1>5, <4>1
      <4>2. CASE m \in Run(wbuff, PlaceIn(part, fptr), head)
        <5>1. PICK i \in 0..(head - 1) : m = <<wbuff + i, PlaceIn(part, fptr) + i>>
          BY <4>2 DEF Run
        <5>2. m[2] = PlaceIn(part, fptr) + i
          BY <5>1
        <5> QED BY <3>3, <5>2
      <4> QED BY <3>1, <3>4, <4>1, <4>2
    <3>5. Exact' => Exact
      BY <1>1, <1>6, <3>1, <3>2, FrameExact
    <3>6. Exact => moved' = Upto(wbuff + head)
      <4> SUFFICES ASSUME Exact PROVE moved' = Upto(wbuff + head)
        OBVIOUS
      <4>1. \A i \in 0..(head - 1) :
              PlaceIn(part, fptr) + i = Place(request.sector + (wbuff + i))
        BY <1>5, <3>3
      <4>2. Upto(wbuff) \cup Run(wbuff, PlaceIn(part, fptr), head) = Upto(wbuff + head)
        BY <1>3, <1>4, <3>3, <4>1, RunUpto
      <4> QED BY <1>5, <3>1, <4>2
    <3>7. fptr' \in Nat /\ fptr' + btr' <= fptr + btr
      BY <1>1, <1>3, <1>4, <3>1
    <3> QED BY <3>1, <3>2, <3>4, <3>5, <3>6, <3>7
  <2>2. CASE HeadFailed
    <3>1. /\ err' = err \cup {part} /\ moved' = moved /\ fptr' = fptr /\ size' = size
      BY <2>2 DEF HeadFailed
    <3>2. ImageOK'
      BY <1>1, <3>1, FrameSize DEF IInv
    <3>3. ~Exact'
      <4>1. Touched' = Touched
        BY <1>1, <1>6, <3>1, Frame
      <4> QED BY <1>3, <3>1, <4>1 DEF Exact
    <3>4. fptr' + btr' <= fptr + btr
      BY <1>1, <1>3, <1>4, <3>1
    <3> QED BY <1>3, <1>5, <3>1, <3>2, <3>3, <3>4
  <2> QED BY <1>1, <2>1, <2>2
<1>8. /\ wbuff' \in Nat /\ btr' \in Nat /\ wbuff' + btr' = wbuff + btr
      /\ Exact' => wbuff' + btr' = buf
  <2>1. wbuff' \in Nat /\ btr' \in Nat /\ wbuff' + btr' = wbuff + btr
    BY <1>1, <1>3, <1>4
  <2> QED BY <1>5, <1>7, <2>1
<1>9. CASE btr' = 0
  <2>1. PartDone
    BY <1>1, <1>9
  <2>2. Exact' => moved' = Upto(buf)
    <3>1. Exact' => wbuff + head = buf
      BY <1>1, <1>3, <1>8, <1>9
    <3> QED BY <1>7, <3>1
  <2>3. /\ fptr' \in Nat /\ clust' \in Nat /\ btr' \in Nat /\ wbuff' \in Nat
        /\ sector_base' \in Nat /\ count' \in Nat
    BY <1>1, <1>3, <1>7, <1>8
  <2>4. ImageOK' /\ chain' = chain /\ (~Split \/ size' = size)
    BY <1>1, <1>7
  <2>5. \A m \in moved' : Own(m[2])
    BY <1>7
  <2> QED BY <1>2, <2>1, <2>2, <2>3, <2>4, <2>5, PartDoneKeeps
<1>10. CASE btr' # 0
  <2>1. /\ pc' = "first" /\ result' = result /\ part' = part /\ sector' = sector
    BY <1>1, <1>10 DEF reqVars
  <2>2. /\ Parts' = Parts /\ (Split' <=> Split) /\ Touched' = Touched
        /\ \A s : Own(s)' <=> Own(s)
        /\ \A m : Upto(m)' = Upto(m)
        /\ \A p, o : Position(p, o)' = Position(p, o)
    BY <1>1, <1>6, <1>7, Frame
  <2>3. Gathered' = 0
    BY <2>1 DEF Gathered
  <2>4. TypeOK'
    BY <1>1, <1>3, <1>6, <1>7, <1>8, <2>1 DEF IInv, TypeOK
  <2>5. Under'
    <3>1. Under
      BY DEF IInv
    <3>2. Split => total_sect' = total_sect
      BY <1>1, <1>7, FrameSize
    <3> QED BY <1>1, <1>6, <2>1, <2>2, <3>1, <3>2 DEF Under
  <2>6. InPart'
    <3>1. wbuff' + Gathered' + btr' = wbuff + btr
      BY <1>8, <2>3
    <3>2. Split' \/ ~request'.is_write => fptr' + btr' <= size'[part']
      <4>1. CASE Split \/ ~request.is_write
        <5>1. fptr + btr <= size[part]
          BY <1>5, <4>1
        <5>2. /\ fptr' + btr' <= fptr + btr /\ size'[part] >= size[part]
              /\ size'[part] \in Nat /\ fptr' \in Nat
          BY <1>7
        <5>3. fptr' + btr' <= size'[part]
          <6> DEFINE x == size'[part]
                     y == size[part]
          <6>1. y \in Nat /\ fptr \in Nat /\ btr \in Nat /\ btr' \in Nat
            BY <1>3, <1>8
          <6>2. /\ fptr' + btr' <= fptr + btr /\ x >= y /\ x \in Nat /\ fptr' \in Nat
            BY <5>2
          <6>3. fptr + btr <= y
            BY <5>1
          <6> HIDE DEF x, y
          <6>4. fptr' + btr' <= x
            BY <6>1, <6>2, <6>3, SumBelow
          <6> QED BY <6>4 DEF x
        <5> QED BY <2>1, <5>3
      <4>2. CASE ~(Split \/ ~request.is_write)
        BY <1>6, <2>2, <4>2
      <4> QED BY <4>1, <4>2
    <3>3. Split => part_size' = part_size
      BY <1>1, <1>7, FrameSize
    <3>4. remaining' # 0 => Split' /\ part' * part_size' = request'.sector + buf'
      BY <1>5, <1>6, <2>1, <2>2, <3>3
    <3>5. Exact' => Position(part, fptr)' = request'.sector + wbuff' + Gathered'
      <4> SUFFICES ASSUME Exact'
                   PROVE  Position(part, fptr)' = request'.sector + wbuff' + Gathered'
        OBVIOUS
      <4>1. Position(part, fptr)' = Position(part, fptr')
        BY <2>1, <2>2, <3>3 DEF Position
      <4>2. Position(part, fptr') = Position(part, fptr) + head
        <5>1. CASE Split
          <6> DEFINE x == (part - 1) * part_size
          <6>1. x \in Int
            BY <1>2, <1>3, PartFacts
          <6>2. Position(part, fptr') = x + fptr' /\ Position(part, fptr) = x + fptr
            BY <5>1 DEF Position
          <6> HIDE DEF x
          <6> QED BY <1>3, <1>4, <1>7, <6>1, <6>2
        <5>2. CASE ~Split
          BY <1>3, <1>7, <5>2 DEF Position
        <5> QED BY <5>1, <5>2
      <4> QED BY <1>1, <1>3, <1>4, <1>5, <1>6, <1>7, <2>3, <4>1, <4>2
    <3> QED BY <1>5, <1>6, <1>8, <2>3, <3>1, <3>2, <3>4, <3>5 DEF InPart
  <2>7. Aligned'
    <3>1. Exact' => fptr' % Csize = 0
      BY <1>1, <1>3, <1>4, <1>7, <1>10
    <3> QED BY <3>1 DEF Aligned
  <2>8. MovedOK'
    BY <1>1, <1>7, <2>1, <2>2 DEF MovedOK, Moving
  <2>9. Seeking' /\ AtHead' /\ Gathering' /\ ImageOK'
    BY <1>7, <2>1 DEF Seeking, AtHead, Gathering
  <2> QED
    BY <2>4, <2>5, <2>6, <2>7, <2>8, <2>9 DEF IInv
<1> QED BY <1>9, <1>10

-----------------------------------------------------------------------------
(* Whole clusters                                                          *)

\* The first n sectors of a cluster of the part are the image's own.
LEMMA ClusterOwn ==
  ASSUME ImageOK, NEW p \in Parts, NEW k \in Nat, k < Len(chain[p]),
         NEW i \in Nat, i < Csize
  PROVE  Own(Sect(chain[p][k + 1]) + i) /\ Sect(chain[p][k + 1]) \in Nat
<1> DEFINE o == Csize * k + 0
<1>1. Csize \in Nat \ {0} /\ 0 \in 0..(Csize - 1)
  BY CsizeAssumption
<1>2. o \div Csize = k /\ o % Csize = 0
  BY <1>1, DivUnique
<1>3. o \in Nat
  BY <1>1
<1> HIDE DEF o
<1>4. PlaceIn(p, o) = Sect(chain[p][k + 1]) + 0
  BY <1>2 DEF PlaceIn
<1>5. Own(PlaceIn(p, o) + i) /\ PlaceIn(p, o) \in Nat
  <2>1. o \div Csize < Len(chain[p]) /\ (o % Csize) + i < Csize
    BY <1>1, <1>2
  <2> QED BY <1>3, <2>1, OwnIn
<1>6. Sect(chain[p][k + 1]) \in Int
  <2>1. chain[p][k + 1] \in Nat
    <3>1. chain[p] \in [1..Len(chain[p]) -> Nat \ {0, 1}] /\ Len(chain[p]) \in Nat
      BY ImageFacts
    <3>2. k + 1 \in 1..Len(chain[p])
      BY <3>1
    <3> QED BY <3>1, <3>2
  <2>2. (chain[p][k + 1] - 2) * Csize \in Int
    BY <1>1, <2>1
  <2> QED BY <2>2, BaseAssumption DEF Sect
<1>7. Sect(chain[p][k + 1]) = PlaceIn(p, o)
  BY <1>4, <1>6
<1> QED BY <1>5, <1>7

\* The next cluster is taken up, at the beginning of a command or as a part of
\* it: its sectors are the image's, and those that the request wants next.
LEMMA TakeFacts ==
  ASSUME IInv, pc \in {"first", "gather"}, next_clust # 0, Take, NEW b \in Nat
  PROVE  /\ next_sectors \in Nat /\ next_sectors <= btr
         /\ fptr' = fptr + next_sectors /\ btr' = btr - next_sectors
         /\ clust' \in Nat /\ Sect(next_clust) \in Nat
         /\ \A i \in 0..(next_sectors - 1) : Own(Sect(next_clust) + i)
         /\ Exact /\ btr > 0 /\ Position(part, fptr) = request.sector + b
              => \A i \in 0..(next_sectors - 1) :
                   Sect(next_clust) + i = Place(request.sector + (b + i))
         /\ Exact /\ btr' > 0 => fptr' % Csize = 0
<1> DEFINE n == next_sectors
           s == Sect(next_clust)
<1>1. Moving
  BY DEF Moving
<1>2. /\ ImageOK /\ part \in Parts /\ part \in Nat /\ fptr \in Nat /\ btr \in Nat
      /\ Csize \in Nat \ {0} /\ Len(chain[part]) \in Nat \ {0}
  BY <1>1, PartFacts DEF IInv
<1>3. n = Least(btr, Csize) /\ fptr' = fptr + n /\ btr' = btr - n /\ clust' = next_clust
  BY DEF next_sectors, Take
<1>4. n \in Nat /\ n <= btr /\ n <= Csize /\ (n < btr => n = Csize)
  BY <1>2, <1>3 DEF Least
<1>5. /\ fptr \div Csize \in Nat /\ fptr \div Csize < Len(chain[part])
      /\ next_clust = chain[part][fptr \div Csize + 1] /\ next_clust \in Nat
  <2>1. fptr \div Csize \in Nat
    BY <1>2, DivMod
  <2> QED BY <1>2, <2>1, ClustIs DEF next_clust
<1>6. s \in Nat
  <2>1. 0 < Csize
    BY <1>2
  <2> QED BY <1>2, <1>5, <2>1, ClusterOwn
<1>7. ASSUME NEW i \in 0..(n - 1) PROVE Own(s + i)
  <2>1. i \in Nat /\ i < Csize
    BY <1>2, <1>4, <1>7
  <2> QED BY <1>2, <1>5, <2>1, ClusterOwn
<1>8. Exact /\ btr > 0 => fptr % Csize = 0
  BY DEF IInv, Aligned
<1> HIDE DEF n, s
<1>9. ASSUME Exact, btr > 0, Position(part, fptr) = request.sector + b
      PROVE  \A i \in 0..(n - 1) : s + i = Place(request.sector + (b + i))
  <2>1. fptr % Csize = 0
    BY <1>8, <1>9
  <2>2. PlaceIn(part, fptr) = s + 0
    BY <1>5, <2>1 DEF PlaceIn, s
  <2>3. PlaceIn(part, fptr) = s
    BY <1>6, <2>2
  <2>4. (fptr % Csize) + n <= Csize
    BY <1>2, <1>4, <2>1
  <2> QED BY <1>1, <1>4, <1>5, <1>9, <2>3, <2>4, ClusterPlaces
<1>10. ASSUME Exact, btr' > 0 PROVE fptr' % Csize = 0
  <2>1. n = Csize /\ btr > 0
    BY <1>2, <1>3, <1>4, <1>10
  <2>2. fptr % Csize = 0
    BY <1>8, <1>10, <2>1
  <2> DEFINE q == fptr \div Csize
  <2>3. q \in Nat /\ fptr = Csize * q + (fptr % Csize)
    BY <1>2, DivMod
  <2> HIDE DEF q
  <2>4. fptr = Csize * q
    BY <1>2, <2>2, <2>3
  <2>5. Csize * (q + 1) = Csize * q + Csize
    BY <1>2, <2>3
  <2>6. fptr' = Csize * (q + 1) + 0
    BY <1>2, <1>3, <2>1, <2>3, <2>4, <2>5
  <2>7. (Csize * (q + 1) + 0) % Csize = 0
    <3>1. Csize \in Nat \ {0} /\ q + 1 \in Nat /\ 0 \in 0..(Csize - 1)
      BY <1>2, <2>3
    <3> QED BY ONLY <3>1, DivUnique
  <2> QED BY <2>6, <2>7
<1> QED BY <1>3, <1>4, <1>5, <1>6, <1>7, <1>9, <1>10 DEF n, s

\* The file pointer and what is gathered go on together.
LEMMA PositionMoves ==
  ASSUME NEW p \in Nat, NEW o \in Nat, NEW n \in Nat, part_size \in Nat
  PROVE  Position(p, o + n) = Position(p, o) + n /\ Position(p, o) \in Int
<1>1. CASE Split
  <2> DEFINE x == (p - 1) * part_size
  <2>1. x \in Int
    OBVIOUS
  <2>2. Position(p, o + n) = x + (o + n) /\ Position(p, o) = x + o
    BY <1>1 DEF Position
  <2> HIDE DEF x
  <2> QED BY <2>1, <2>2
<1>2. CASE ~Split
  BY <1>2 DEF Position
<1> QED BY <1>1, <1>2

\* A step that takes up a cluster keeps the invariant when the command that is
\* then being gathered is right, and what has been moved is.
LEMMA TakeKeeps ==
  ASSUME IInv, pc \in {"first", "gather"}, next_clust # 0, Take, pc' = "gather",
         UNCHANGED <<fileVars, err, reqVars, result>>,
         wbuff' \in Nat, count' \in Nat, sector_base' \in Nat,
         wbuff' + count' = wbuff + Gathered + next_sectors,
         \A i \in 0..(count' - 1) : Own(sector_base' + i),
         Exact => \A i \in 0..(count' - 1) :
                    sector_base' + i = Place(request.sector + wbuff' + i),
         \A m \in moved' : Own(m[2]),
         Exact => moved' = Upto(wbuff')
  PROVE  IInv'
<1>1. Moving
  BY DEF Moving
<1>2. /\ chain' = chain /\ size' = size /\ err' = err /\ result' = result
      /\ request' = request /\ part' = part /\ sector' = sector
      /\ remaining' = remaining /\ buf' = buf
  BY DEF fileVars, reqVars
<1>3. /\ part \in Parts /\ part \in Nat /\ fptr \in Nat /\ btr \in Nat /\ wbuff \in Nat
      /\ buf \in Nat /\ count \in Nat /\ part_size \in Nat /\ size[part] \in Nat
      /\ request.sector \in Nat
  BY <1>1, PartFacts
<1> DEFINE n == next_sectors
           b == wbuff + Gathered
<1>4. /\ n \in Nat /\ n <= btr /\ fptr' = fptr + n /\ btr' = btr - n /\ clust' \in Nat
      /\ Exact /\ btr' > 0 => fptr' % Csize = 0
  BY <1>3, TakeFacts
<1>5. b \in Nat
  BY <1>3 DEF Gathered
<1>6. /\ b + btr <= buf
      /\ Split \/ ~request.is_write => fptr + btr <= size[part]
      /\ remaining # 0 => Split /\ part * part_size = request.sector + buf
      /\ Exact => b + btr = buf /\ Position(part, fptr) = request.sector + wbuff + Gathered
  BY <1>1 DEF IInv, InPart
<1>7. request.sector + wbuff + Gathered = request.sector + b
  BY <1>3 DEF Gathered
<1>8. wbuff' + count' = b + n
  OBVIOUS
<1> HIDE DEF n, b
<1>9. /\ Parts' = Parts /\ (Split' <=> Split) /\ Touched' = Touched
      /\ \A s : Own(s)' <=> Own(s)
      /\ \A k : Place(k)' = Place(k)
      /\ \A m : Upto(m)' = Upto(m)
      /\ \A p, o : Position(p, o)' = Position(p, o)
  BY <1>2, Frame
<1>10. part_size' = part_size /\ total_sect' = total_sect /\ ImageOK'
  BY <1>2, FrameSize DEF IInv
<1>11. Exact' => Exact
  BY <1>2, FrameExact
<1>12. Gathered' = count'
  BY DEF Gathered
<1>13. TypeOK'
  BY <1>2, <1>3, <1>4 DEF IInv, TypeOK
<1>14. Under'
  BY <1>1, <1>2, <1>9, <1>10 DEF IInv, Under, Moving
<1>15. InPart'
  <2>1. btr' \in Nat /\ b + n + btr' = b + btr
    BY <1>3, <1>4, <1>5
  <2>2. wbuff' + Gathered' + btr' = b + btr
    BY <1>8, <1>12, <2>1
  <2>3. fptr' + btr' = fptr + btr
    BY <1>3, <1>4
  <2>4. Exact' => Position(part, fptr)' = request'.sector + wbuff' + Gathered'
    <3> SUFFICES ASSUME Exact'
                 PROVE  Position(part, fptr)' = request'.sector + wbuff' + Gathered'
      OBVIOUS
    <3>1. Position(part, fptr) = request.sector + b
      BY <1>6, <1>7, <1>11
    <3>2. Position(part, fptr)' = Position(part, fptr')
      BY <1>2, <1>9, <1>10 DEF Position
    <3>3. Position(part, fptr') = Position(part, fptr) + n
      BY <1>3, <1>4, PositionMoves
    <3>4. Position(part, fptr)' = request.sector + b + n
      BY <3>1, <3>2, <3>3
    <3>5. request.sector + b + n = request.sector + (wbuff' + count')
      <4>1. request.sector + b + n = request.sector + (b + n)
        BY <1>3, <1>4, <1>5
      <4> QED BY <1>8, <4>1
    <3>6. request.sector + (wbuff' + count') = request.sector + wbuff' + count'
      BY <1>3
    <3> QED BY <1>2, <1>12, <3>4, <3>5, <3>6
  <2>5. wbuff' + Gathered' + btr' <= buf'
    BY <1>2, <1>6, <2>2
  <2>6. Split' \/ ~request'.is_write => fptr' + btr' <= size'[part']
    BY <1>2, <1>6, <1>9, <2>3
  <2>7. remaining' # 0 => Split' /\ part' * part_size' = request'.sector + buf'
    BY <1>2, <1>6, <1>9, <1>10
  <2>8. Exact' => wbuff' + Gathered' + btr' = buf'
    BY <1>2, <1>6, <1>11, <2>2
  <2> QED BY <2>4, <2>5, <2>6, <2>7, <2>8 DEF InPart
<1>16. Aligned'
  BY <1>4, <1>11 DEF Aligned
<1>17. Gathering'
  <2>1. \A i \in 0..(count' - 1) : Own(sector_base + i)'
    BY <1>2, <1>9 DEF Own, Sect
  <2>2. Exact' => \A i \in 0..(count' - 1) :
                    sector_base' + i = Place(request.sector + wbuff + i)'
    <3> SUFFICES ASSUME Exact', NEW i \in 0..(count' - 1)
                 PROVE  sector_base' + i = Place(request.sector + wbuff + i)'
      OBVIOUS
    <3>1. sector_base' + i = Place(request.sector + wbuff' + i)
      BY <1>11
    <3>2. Place(request.sector + wbuff + i)' = Place(request.sector + wbuff' + i)
      BY <1>2, <1>9, <1>10 DEF Place, Sect
    <3> QED BY <3>1, <3>2
  <2> QED BY <2>1, <2>2 DEF Gathering
<1>18. MovedOK'
  <2>1. \A m \in moved' : Own(m[2])'
    BY <1>9
  <2>2. Exact' => moved' = Upto(wbuff)'
    BY <1>2, <1>9, <1>11 DEF Upto, Place, Sect
  <2> QED BY <2>1, <2>2 DEF MovedOK, Moving
<1>19. Seeking' /\ AtHead'
  BY DEF Seeking, AtHead
<1> QED BY <1>10, <1>13, <1>14, <1>15, <1>16, <1>17, <1>18, <1>19 DEF IInv

LEMMA FirstKeeps == IInv /\ First => IInv'
<1> SUFFICES ASSUME IInv, First PROVE IInv'
  OBVIOUS
<1> DEFINE n == next_sectors
<1>1. /\ pc = "first" /\ next_clust # 0 /\ Take /\ pc' = "gather"
      /\ sector_base' = Sect(next_clust) /\ count' = n
      /\ UNCHANGED <<fileVars, err, reqVars, result>> /\ wbuff' = wbuff /\ moved' = moved
  BY DEF First
<1>2. Moving /\ Gathered = 0
  BY <1>1 DEF Moving, Gathered
<1>3. wbuff \in Nat /\ request.sector \in Nat /\ btr \in Nat
  BY <1>2, PartFacts
<1>4. /\ n \in Nat /\ n <= btr /\ Sect(next_clust) \in Nat
      /\ \A i \in 0..(n - 1) : Own(Sect(next_clust) + i)
      /\ Exact /\ btr > 0 /\ Position(part, fptr) = request.sector + wbuff
           => \A i \in 0..(n - 1) :
                Sect(next_clust) + i = Place(request.sector + (wbuff + i))
  BY <1>1, <1>3, TakeFacts
<1>5. Exact => Position(part, fptr) = request.sector + wbuff
  <2>1. request.sector + wbuff + Gathered = request.sector + wbuff
    BY <1>2, <1>3
  <2> QED BY <1>2, <2>1 DEF IInv, InPart
<1>6. (\A m \in moved : Own(m[2])) /\ (Exact => moved = Upto(wbuff))
  BY <1>2 DEF IInv, MovedOK
<1> HIDE DEF n
<1>7. Exact => \A i \in 0..(n - 1) :
                 Sect(next_clust) + i = Place(request.sector + wbuff + i)
  <2> SUFFICES ASSUME Exact, NEW i \in 0..(n - 1)
               PROVE  Sect(next_clust) + i = Place(request.sector + wbuff + i)
    OBVIOUS
  <2>1. btr > 0
    BY <1>3, <1>4
  <2>2. Sect(next_clust) + i = Place(request.sector + (wbuff + i))
    BY <1>4, <1>5, <2>1
  <2>3. request.sector + (wbuff + i) = request.sector + wbuff + i
    BY <1>3
  <2> QED BY <2>2, <2>3
<1>8. wbuff + n = wbuff + Gathered + n
  BY <1>2, <1>3, <1>4
<1> QED BY <1>1, <1>3, <1>4, <1>6, <1>7, <1>8, TakeKeeps DEF n

\* The cluster's sectors go on behind those that are gathered.
LEMMA JoinKeeps == IInv /\ Join => IInv'
<1> SUFFICES ASSUME IInv, Join PROVE IInv'
  OBVIOUS
<1> DEFINE n == next_sectors
           b == wbuff + count
           s == Sect(next_clust)
<1>1. /\ pc = "gather" /\ btr > 0 /\ next_clust # 0 /\ Joins /\ Take
      /\ pc' = "gather" /\ count' = count + n /\ sector_base' = sector_base
      /\ UNCHANGED <<fileVars, err, reqVars, result>> /\ wbuff' = wbuff /\ moved' = moved
  BY DEF Join
<1>2. Moving /\ Gathered = count
  BY <1>1 DEF Moving, Gathered
<1>3. /\ wbuff \in Nat /\ request.sector \in Nat /\ btr \in Nat /\ count \in Nat
      /\ sector_base \in Nat
  BY <1>2, PartFacts
<1>4. b \in Nat
  BY <1>3
<1>5. /\ n \in Nat /\ s \in Nat
      /\ \A i \in 0..(n - 1) : Own(s + i)
      /\ Exact /\ btr > 0 /\ Position(part, fptr) = request.sector + b
           => \A i \in 0..(n - 1) : s + i = Place(request.sector + (b + i))
  BY <1>1, <1>4, TakeFacts
<1>6. s = sector_base + count
  BY <1>1, <1>3, <1>5 DEF Joins
<1>7. Exact => Position(part, fptr) = request.sector + b
  <2>1. request.sector + wbuff + Gathered = request.sector + b
    BY <1>2, <1>3
  <2> QED BY <1>2, <2>1 DEF IInv, InPart
<1>8. (\A m \in moved : Own(m[2])) /\ (Exact => moved = Upto(wbuff))
  BY <1>2 DEF IInv, MovedOK
<1>9. /\ \A i \in 0..(count - 1) : Own(sector_base + i)
      /\ Exact => \A i \in 0..(count - 1) :
                    sector_base + i = Place(request.sector + wbuff + i)
  BY <1>1 DEF IInv, Gathering
<1> HIDE DEF n, s
<1>10. ASSUME NEW i \in 0..(count + n - 1)
       PROVE  /\ Own(sector_base + i)
              /\ Exact => sector_base + i = Place(request.sector + wbuff + i)
  <2>1. CASE i < count
    <3>1. i \in 0..(count - 1)
      BY <1>3, <1>5, <1>10, <2>1
    <3> QED BY <1>9, <3>1
  <2>2. CASE i >= count
    <3> DEFINE j == i - count
    <3>1. j \in 0..(n - 1) /\ i = count + j
      BY <1>3, <1>5, <1>10, <2>2
    <3> HIDE DEF j
    <3>2. sector_base + i = s + j /\ request.sector + wbuff + i = request.sector + (b + j)
      BY <1>3, <1>5, <1>6, <3>1
    <3> QED BY <1>1, <1>5, <1>7, <3>1, <3>2
  <2> QED BY <1>3, <1>5, <1>10, <2>1, <2>2
<1>11. wbuff + (count + n) = wbuff + Gathered + n /\ count + n \in Nat
  BY <1>2, <1>3, <1>5
<1> QED BY <1>1, <1>3, <1>5, <1>8, <1>10, <1>11, TakeKeeps DEF n

\* The gathered command moves what it was gathered for.
LEMMA MadeFacts ==
  ASSUME IInv, pc = "gather", moved' = moved \cup Run(wbuff, sector_base, count)
  PROVE  /\ \A m \in moved' : Own(m[2])
         /\ Exact => moved' = Upto(wbuff + count)
<1>1. Moving
  BY DEF Moving
<1>2. wbuff \in Nat /\ count \in Nat /\ sector_base \in Nat /\ request.sector \in Nat
  BY <1>1, PartFacts
<1>3. /\ \A m \in moved : Own(m[2])
      /\ Exact => moved = Upto(wbuff)
      /\ \A i \in 0..(count - 1) : Own(sector_base + i)
      /\ Exact => \A i \in 0..(count - 1) :
                    sector_base + i = Place(request.sector + wbuff + i)
  BY <1>1 DEF IInv, MovedOK, Gathering
<1>4. ASSUME NEW m \in moved' PROVE Own(m[2])
  <2>1. CASE m \in moved
    BY <1>3, <2>1
  <2>2. CASE m \in Run(wbuff, sector_base, count)
    <3>1. PICK i \in 0..(count - 1) : m = <<wbuff + i, sector_base + i>>
      BY <2>2 DEF Run
    <3>2. m[2] = sector_base + i
      BY <3>1
    <3> QED BY <1>3, <3>2
  <2> QED BY <1>4, <2>1, <2>2
<1>5. ASSUME Exact PROVE moved' = Upto(wbuff + count)
  <2>1. ASSUME NEW i \in 0..(count - 1)
        PROVE  sector_base + i = Place(request.sector + (wbuff + i))
    <3>1. request.sector + (wbuff + i) = request.sector + wbuff + i
      BY <1>2
    <3> QED BY <1>3, <1>5, <3>1
  <2>2. Upto(wbuff) \cup Run(wbuff, sector_base, count) = Upto(wbuff + count)
    BY <1>2, <2>1, RunUpto
  <2> QED BY <1>3, <1>5, <2>2
<1> QED BY <1>4, <1>5

LEMMA FlushKeeps == IInv /\ Flush => IInv'
<1> SUFFICES ASSUME IInv, Flush PROVE IInv'
  OBVIOUS
<1> DEFINE n == next_sectors
           b == wbuff + count
           s == Sect(next_clust)
<1>1. /\ pc = "gather" /\ btr > 0 /\ next_clust # 0 /\ Take /\ pc' = "gather"
      /\ moved' = moved \cup Run(wbuff, sector_base, count)
      /\ wbuff' = b /\ sector_base' = s /\ count' = n
      /\ UNCHANGED <<fileVars, err, reqVars, result>>
  BY DEF Flush, Advance
<1>2. Moving /\ Gathered = count
  BY <1>1 DEF Moving, Gathered
<1>3. wbuff \in Nat /\ request.sector \in Nat /\ count \in Nat
  BY <1>2, PartFacts
<1>4. b \in Nat
  BY <1>3
<1>5. /\ n \in Nat /\ s \in Nat
      /\ \A i \in 0..(n - 1) : Own(s + i)
      /\ Exact /\ btr > 0 /\ Position(part, fptr) = request.sector + b
           => \A i \in 0..(n - 1) : s + i = Place(request.sector + (b + i))
  BY <1>1, <1>4, TakeFacts
<1>6. Exact => Position(part, fptr) = request.sector + b
  <2>1. request.sector + wbuff + Gathered = request.sector + b
    BY <1>2, <1>3
  <2> QED BY <1>2, <2>1 DEF IInv, InPart
<1>7. (\A m \in moved' : Own(m[2])) /\ (Exact => moved' = Upto(b))
  BY <1>1, MadeFacts
<1> HIDE DEF n, b, s
<1>8. Exact => \A i \in 0..(n - 1) : s + i = Place(request.sector + b + i)
  <2> SUFFICES ASSUME Exact, NEW i \in 0..(n - 1)
               PROVE  s + i = Place(request.sector + b + i)
    OBVIOUS
  <2>1. s + i = Place(request.sector + (b + i))
    BY <1>1, <1>5, <1>6
  <2>2. request.sector + (b + i) = request.sector + b + i
    BY <1>3, <1>4
  <2> QED BY <2>1, <2>2
<1>9. b + n = wbuff + Gathered + n
  BY <1>2 DEF b
<1> QED BY <1>1, <1>4, <1>5, <1>7, <1>8, <1>9, TakeKeeps DEF n

\* With nothing left to gather, the part is done.
LEMMA FinalKeeps == IInv /\ Final => IInv'
<1> SUFFICES ASSUME IInv, Final PROVE IInv'
  OBVIOUS
<1>1. /\ pc = "gather" /\ btr = 0 /\ PartDone
      /\ moved' = moved \cup Run(wbuff, sector_base, count)
      /\ chain' = chain /\ size' = size /\ err' = err /\ fptr' = fptr /\ clust' = clust
      /\ btr' = btr /\ wbuff' = wbuff /\ sector_base' = sector_base /\ count' = count
  BY DEF Final, fileVars, runVars
<1>2. Moving /\ Gathered = count
  BY <1>1 DEF Moving, Gathered
<1>3. /\ wbuff \in Nat /\ count \in Nat /\ fptr \in Nat /\ clust \in Nat
      /\ sector_base \in Nat /\ btr \in Nat
  BY <1>2, PartFacts
<1>4. (\A m \in moved' : Own(m[2])) /\ (Exact => moved' = Upto(wbuff + count))
  BY <1>1, MadeFacts
<1>5. Exact => wbuff + count = buf
  <2>1. wbuff + Gathered + btr = wbuff + count
    BY <1>1, <1>2, <1>3
  <2> QED BY <1>2, <2>1 DEF IInv, InPart
<1>6. ImageOK'
  BY <1>1, FrameSize DEF IInv
<1>7. Exact' => Exact
  <2>1. request' = request
    BY <1>1 DEF PartDone
  <2> QED BY <1>1, <2>1, FrameExact
<1>8. Exact' => moved' = Upto(buf)
  BY <1>4, <1>5, <1>7
<1> QED BY <1>1, <1>2, <1>3, <1>4, <1>6, <1>8, PartDoneKeeps

-----------------------------------------------------------------------------
(* Every step                                                              *)

LEMMA AbortKeeps == IInv /\ pc # "idle" /\ Abort => IInv'
BY FailKeeps DEF Abort, Return

LEMMA StutterKeeps == IInv /\ UNCHANGED vars => IInv'
<1> SUFFICES ASSUME IInv, UNCHANGED vars PROVE IInv'
  OBVIOUS
<1>1. /\ chain' = chain /\ size' = size /\ err' = err /\ pc' = pc
      /\ request' = request /\ result' = result /\ part' = part /\ sector' = sector
      /\ remaining' = remaining /\ buf' = buf /\ fptr' = fptr /\ clust' = clust
      /\ btr' = btr /\ wbuff' = wbuff /\ sector_base' = sector_base
      /\ count' = count /\ moved' = moved
  BY DEF vars, fileVars, reqVars, runVars
<1>2. /\ Touched' = Touched /\ Wanted' = Wanted /\ Parts' = Parts /\ (Split' <=> Split)
      /\ \A s : Own(s)' <=> Own(s)
      /\ \A k : Place(k)' = Place(k)
      /\ \A m : Upto(m)' = Upto(m)
      /\ \A p, o : Position(p, o)' = Position(p, o)
  BY <1>1, Frame
<1>3. (ImageOK' <=> ImageOK) /\ part_size' = part_size /\ total_sect' = total_sect
  BY <1>1, FrameSize
<1>4. (Exact' <=> Exact) /\ (InImage' <=> InImage)
  BY <1>1, <1>2, <1>3 DEF Exact, InImage
<1>5. TypeOK' /\ ImageOK'
  BY <1>1, <1>3 DEF IInv, TypeOK
<1>6. Under' /\ Seeking'
  <2>1. Position(part, sector)' = Position(part, sector)
    BY <1>1, <1>2, <1>3 DEF Position
  <2> QED BY <1>1, <1>2, <1>3, <2>1 DEF IInv, Under, Seeking
<1>7. InPart'
  <2>1. Position(part, fptr)' = Position(part, fptr)
    BY <1>1, <1>2, <1>3 DEF Position
  <2> QED BY <1>1, <1>2, <1>3, <1>4, <2>1 DEF IInv, InPart, Moving, Gathered
<1>8. AtHead' /\ Aligned'
  BY <1>1, <1>4 DEF IInv, AtHead, Aligned
<1>9. Gathering'
  BY <1>1, <1>3, <1>4 DEF IInv, Gathering, Own, Parts, Place, Split, Sect
<1>10. MovedOK'
  BY <1>1, <1>2, <1>3, <1>4 DEF IInv, MovedOK, Moving, Upto, Place, Split, Sect
<1> QED BY <1>5, <1>6, <1>7, <1>8, <1>9, <1>10 DEF IInv

LEMMA IInvNext == IInv /\ [Next]_vars => IInv'
<1> SUFFICES ASSUME IInv, [Next]_vars PROVE IInv'
  OBVIOUS
<1>1. CASE Call
  BY <1>1, CallKeeps
<1>2. CASE Seek
  BY <1>2, SeekKeeps
<1>3. CASE HeadIo
  BY <1>3, HeadIoKeeps
<1>4. CASE NoCluster
  BY <1>4, AbortKeeps DEF NoCluster
<1>5. CASE First
  BY <1>5, FirstKeeps
<1>6. CASE Join
  BY <1>6, JoinKeeps
<1>7. CASE Flush
  BY <1>7, FlushKeeps
<1>8. CASE Final
  BY <1>8, FinalKeeps
<1>9. CASE Failed
  BY <1>9, AbortKeeps DEF Failed, GatherFailed
<1>10. CASE UNCHANGED vars
  BY <1>10, StutterKeeps
<1> QED
  BY <1>1, <1>2, <1>3, <1>4, <1>5, <1>6, <1>7, <1>8, <1>9, <1>10 DEF Next, InCall

\* The inductive invariant: what the buffer holds up to wbuff, and what the
\* command under way is going to add.
LEMMA AlwaysIInv == Spec => []IInv
BY IInvInit, IInvNext, PTL DEF Spec

-----------------------------------------------------------------------------
(* Results                                                                 *)

LEMMA UptoGrows ==
  ASSUME NEW m \in Nat, NEW n \in Nat, m <= n
  PROVE  Upto(m) \subseteq Upto(n)
<1>1. 0..(m - 1) \subseteq 0..(n - 1)
  OBVIOUS
<1> QED BY <1>1 DEF Upto

LEMMA WhatIsMoved ==
  ASSUME IInv
  PROVE  NothingMisplaced /\ SuccessIsComplete /\ OwnClustersOnly
<1>1. /\ request.num_sectors \in Nat /\ buf \in Nat /\ remaining \in Nat
      /\ wbuff \in Nat /\ count \in Nat /\ btr \in Nat
      /\ pc \in {"idle", "seek", "head", "first", "gather"}
  BY DEF IInv, TypeOK
<1>2. InImage /\ Touched \cap err = {} => Exact
  BY DEF Exact
<1>3. NothingMisplaced
  <2> SUFFICES ASSUME InImage, Touched \cap err = {} PROVE moved \subseteq Wanted
    BY DEF NothingMisplaced
  <2>1. CASE pc = "idle"
    BY <1>2, <2>1 DEF IInv, MovedOK
  <2>2. pc # "idle" => buf <= request.num_sectors
    <3>1. pc # "idle" => buf + remaining = request.num_sectors
      BY DEF IInv, Under
    <3> QED BY <1>1, <3>1
  <2>3. CASE pc = "seek"
    BY <1>1, <1>2, <2>2, <2>3, UptoGrows, WantedIs DEF IInv, MovedOK
  <2>4. CASE Moving
    <3>1. wbuff + Gathered + btr <= buf /\ moved = Upto(wbuff)
      BY <1>2, <2>4 DEF IInv, InPart, MovedOK
    <3>2. wbuff <= buf
      BY <1>1, <3>1 DEF Gathered
    <3>3. wbuff <= request.num_sectors
      BY <1>1, <2>2, <2>4, <3>2 DEF Moving
    <3> QED BY <1>1, <3>1, <3>3, UptoGrows, WantedIs
  <2> QED BY <1>1, <2>1, <2>3, <2>4 DEF Moving
<1>4. SuccessIsComplete
  BY <1>2, WantedIs DEF IInv, MovedOK, SuccessIsComplete
<1>5. OwnClustersOnly
  BY DEF IInv, MovedOK, Own, OwnClustersOnly
<1> QED BY <1>3, <1>4, <1>5

(* For every layout of the clusters and every size of a cluster and of the
   parts: emummc_read_write_inner, over f_read_fast and f_write_fast, puts no
   sector in a wrong place, unless an earlier f_read or f_write of the part
   has failed unseen or the request is past the end (emummc.c:320-401,
   ff.c:3902-3993 and 4144-4243).                                          *)
THEOREM NothingGoesAstray == Spec => []NothingMisplaced
<1>1. IInv => NothingMisplaced
  BY WhatIsMoved
<1> QED BY <1>1, AlwaysIInv, PTL

(* When it reports success, every sector has been moved: the gathered commands,
   the heads and the parts leave no gap.                                   *)
THEOREM SuccessMeansAll == Spec => []SuccessIsComplete
<1>1. IInv => SuccessIsComplete
  BY WhatIsMoved
<1> QED BY <1>1, AlwaysIInv, PTL

(* Whatever is asked and whatever has failed before: no command of the card
   reaches outside the clusters of the image's own files.                  *)
THEOREM KeepsToItsClusters == Spec => []OwnClustersOnly
<1>1. IInv => OwnClustersOnly
  BY WhatIsMoved
<1> QED BY <1>1, AlwaysIInv, PTL
=============================================================================
