--------------------------- MODULE FatVolumeProofs ---------------------------
(***************************************************************************)
(* Proofs about FatVolume, for every card that is formatted and whatever   *)
(* fails.  Of all that is on the card only the entries of files that were  *)
(* written to ever change, and of these only the size and the checksum     *)
(* (VolInv, the first part); and the files of a mounted image are those    *)
(* that their names stand for, with their chains (ImageInv, the second).   *)
(***************************************************************************)
EXTENDS FatVolume, SequenceTheorems, FiniteSetTheorems, TLAPS

-----------------------------------------------------------------------------
(* The invariant                                                           *)

WinFields == {"sect", "data", "dirty"}
FilFields == {"open", "sclust", "size", "stat", "clust", "dir_sect", "dir_ptr",
              "container", "c_ofs", "modified", "cltbl"}
DjFields  == {"sclust", "size", "stat", "dptr", "clust", "sect", "ord", "sum"}

Similar(new, old) == new = old \/ SameFile(new, old)

\* Data is what sector s of card c held at first, but for entries of the files
\* ks.
Kept(c, ks, s, data) ==
  LET old == c.sectors[s]
  IN /\ DOMAIN data = DOMAIN old /\ data.kind = old.kind
     /\ old.kind # "dir" => data = old
     /\ old.kind = "dir" =>
          /\ DOMAIN data.dirent = DOMAIN old.dirent
          /\ \A i \in 0..(PerSect - 1) :
               \/ data.dirent[i] = old.dirent[i]
               \/ /\ SameFile(data.dirent[i], old.dirent[i])
                  /\ MayChange(c, ks, s, i)

\* The sectors as they are now, and the window on them.
DiskOK(c, ks, sectors, w) ==
  /\ DOMAIN sectors = DOMAIN c.sectors
  /\ \A s \in DOMAIN sectors : Kept(c, ks, s, sectors[s])
  /\ DOMAIN w = WinFields /\ w.dirty \in BOOLEAN
  /\ w.sect \in DOMAIN sectors => Kept(c, ks, w.sect, w.data)
  /\ w.dirty => w.sect \in DOMAIN sectors

DiskInv == medium \in Cards /\ DiskOK(medium, touched, card, win)

Before  == {"idle", "boot", "fatal"}
Reading == {"entry", "next", "seek"}

Mounted == fs.volbase \in Volumes(medium) /\ fs = VolumeOf(medium, fs.volbase)

\* The volume, and where the call is in it.
VolumeInv ==
  /\ (fs = NoFs /\ at \in Before) \/ (Mounted /\ at # "boot")
  /\ at = "boot" => /\ left \in 0..4
                    /\ left > 0 => medium.sectors[0].kind = "mbr"
  /\ file \in 1..(Len(Names) + 1)
  /\ at \notin {"close", "fatal"} => file \in DOMAIN Names
  /\ parts \in Int /\ 2 + parts <= Len(Names)
  /\ level \in Nat /\ task \in {"find", "load", "store"}
  /\ at = "seek" => task # "find"
  /\ at \in Reading /\ task # "find" => fs.fs_type = "exFAT"

\* The chain of a directory; its entry n, as it was at first.
ChainOf(c, b, obj) ==
  CHOOSE ch \in c.dirs[b] : IsChain(c, VolumeOf(c, b), ch, obj)

Old(c, b, obj, n) == EntryOf(c, VolumeOf(c, b), ChainOf(c, b, obj), n)

\* The object that d reads.
Object(d) == [sclust |-> d.sclust, size |-> d.size, stat |-> d.stat]

IsObject(c, b, obj) ==
  /\ obj = Object(obj) /\ (obj.sclust = 0 => obj.stat = 0)
  /\ IsDirectory(c, b, obj)

\* Block n of a directory is that of file k.
NamedBlock(c, b, obj, n, k) ==
  /\ n \in Nat /\ Old(c, b, obj, n).type = "filedir" /\ ~Old(c, b, obj, n).dir
  /\ Old(c, b, obj, n + 2).name = Names[k].long

\* Its stream entry has the clusters of f.
StreamIs(c, b, obj, n, f) ==
  LET old == Old(c, b, obj, n + 1)
  IN old.sclust = f.sclust /\ old.stat = f.stat

\* What the FIL of file k says of its entry.
FileOK(c, b, f, k) ==
  IF VolumeOf(c, b).fs_type = "exFAT"
  THEN /\ IsObject(c, b, f.container) /\ NamedBlock(c, b, f.container, f.c_ofs, k)
       /\ StreamIs(c, b, f.container, f.c_ofs, f)
  ELSE \E p \in Places(c) :
         LET old == EntryOf(c, VolumeOf(c, p[1]), p[2], p[3])
         IN /\ PlaceOf(c, p) = <<f.dir_sect, f.dir_ptr>>
            /\ BelongsTo(c, p, k) /\ old.type = "short"
            /\ old.sclust = f.sclust

FilOK(c, b, f, k) ==
  /\ DOMAIN f = FilFields /\ f.open \in BOOLEAN /\ f.modified \in BOOLEAN
  /\ f.open => FileOK(c, b, f, k)

FilesInv ==
  /\ DOMAIN fil = DOMAIN Names
  /\ \A k \in DOMAIN Names :
       /\ FilOK(medium, fs.volbase, fil[k], k)
       /\ fil[k].open => fs # NoFs
       /\ fil[k].modified => fil[k].open /\ k \in touched

\* A file that is synchronized is open.
SyncInv ==
  /\ at \in {"sync", "syncFs"} => fil[file].open /\ file \in touched
  /\ at \in Reading /\ task # "find" => fil[file].open /\ file \in touched

\* d stands at an entry of its directory.
DirAt(c, b, d) ==
  LET f  == VolumeOf(c, b)
      ch == ChainOf(c, b, Object(d))
      i  == d.dptr \div PerCluster(f) + 1
  IN /\ DOMAIN d = DjFields /\ IsObject(c, b, Object(d))
     /\ d.dptr \in Nat /\ i \in 1..Len(ch)
     /\ d.clust = ch[i] /\ d.sect = SectorOf(f, ch, d.dptr)

\* In "next", dj stands at the last entry of a cluster, in "seek" at the first.
WalkInv ==
  at \in Reading =>
    /\ DirAt(medium, fs.volbase, dj)
    /\ at = "next" => (dj.dptr + 1) % PerCluster(fs) = 0
    /\ at = "seek" => /\ dj.dptr % PerCluster(fs) = 0
                      /\ blk_ofs \in Nat /\ dj.dptr <= blk_ofs

\* On FAT32: all of the long name has been seen, in entry n.
LongSeen(c, b, d, n, name) ==
  d.ord = 0 =>
    LET e == Old(c, b, Object(d), n)
    IN n >= 0 /\ e.type = "long" /\ e.name = name /\ e.sum = d.sum

\* The entry that is read next.
Here == IF at = "next" THEN dj.dptr + 1 ELSE dj.dptr

LongInv ==
  at \in Reading /\ fs.fs_type = "FAT32" =>
    LongSeen(medium, fs.volbase, dj, Here - 1, Segment.long)

\* On exFAT: what buf holds of block n is that of the directory.
BlockOK(c, b, obj, n, buf) ==
  /\ buf \in Seq(Range(buf))
  /\ buf # <<>> => n \in Nat
  /\ \A j \in 1..Len(buf) :
       /\ DOMAIN buf[j] = EntryFields /\ InOrder(buf[j], j)
       /\ Similar(buf[j], Old(c, b, obj, n + j - 1))
  /\ Len(buf) > 1 /\ buf[1].dir => buf[2] = Old(c, b, obj, n + 1)

\* Where the next entry of the block is loaded from or stored to.
BlockInv ==
  at \in Reading /\ fs.fs_type = "exFAT" =>
    /\ BlockOK(medium, fs.volbase, Object(dj), blk_ofs, dirbuf)
    /\ task = "find" /\ dirbuf # <<>> => Here = blk_ofs + Len(dirbuf)
    /\ task # "find" =>
         /\ Object(dj) = fil[file].container /\ blk_ofs = fil[file].c_ofs
         /\ task = "load" =>
              IF at = "seek" THEN dirbuf = <<>> ELSE Here = blk_ofs + Len(dirbuf)
         /\ task = "store" =>
              /\ left \in 1..Len(dirbuf)
              /\ IF at = "seek" THEN left = 1 ELSE Here = blk_ofs + left - 1

VolInv ==
  DiskInv /\ VolumeInv /\ FilesInv /\ SyncInv /\ WalkInv /\ LongInv /\ BlockInv

-----------------------------------------------------------------------------
(* Arithmetic: pieces of c sectors of p entries                            *)

LEMMA DivMod ==
  ASSUME NEW a \in Nat, NEW c \in Nat \ {0}
  PROVE  /\ a \div c \in Nat /\ a % c \in 0..(c - 1)
         /\ a = c * (a \div c) + (a % c)
<1> DEFINE q == a \div c
           r == a % c
<1>1. q \in Nat /\ r \in 0..(c - 1)
  OBVIOUS
<1>2. a - r = q * c
  BY SMTT(30)
<1> HIDE DEF q, r
<1>3. a = c * q + r
  BY <1>1, <1>2, SMTT(30)
<1> QED BY <1>1, <1>3 DEF q, r

LEMMA DivUnique ==
  ASSUME NEW c \in Nat \ {0}, NEW q \in Nat, NEW r \in 0..(c - 1)
  PROVE  (c * q + r) \div c = q /\ (c * q + r) % c = r
<1> DEFINE a == c * q + r
<1>1. a \in Int
  BY SMTT(30)
<1>2. a = c * q + r
  OBVIOUS
<1> HIDE DEF a
<1>3. a \div c = q /\ a % c = r
  BY <1>1, <1>2, SMTT(30)
<1> QED BY <1>3 DEF a

\* Two places less than a piece apart and in the same one.
LEMMA DivStep ==
  ASSUME NEW a \in Nat, NEW c \in Nat \ {0}, NEW i \in Nat, (a % c) + i < c
  PROVE  (a + i) \div c = a \div c /\ (a + i) % c = (a % c) + i
<1>1. a \div c \in Nat /\ a % c \in 0..(c - 1) /\ a = c * (a \div c) + (a % c)
  BY DivMod
<1>2. a + i = c * (a \div c) + ((a % c) + i) /\ (a % c) + i \in 0..(c - 1)
  BY <1>1
<1> DEFINE q == a \div c
           r == (a % c) + i
<1>3. (c * q + r) \div c = q /\ (c * q + r) % c = r
  BY <1>1, <1>2, DivUnique
<1> QED BY <1>2, <1>3

LEMMA TimesIn == ASSUME NEW p \in Nat \ {0}, NEW c \in Nat \ {0} PROVE p * c \in Nat \ {0}
BY SMTT(30)

\* An entry of a piece, counted through the sectors.
LEMMA ModMod ==
  ASSUME NEW p \in Nat \ {0}, NEW c \in Nat \ {0}, NEW n \in Nat,
         NEW i \in Nat
  PROVE  ((n % (p * c)) + i) % p = (n + i) % p
<1> DEFINE per == p * c
<1>1. per \in Nat \ {0}
  BY TimesIn
<1> HIDE DEF per
<1> DEFINE q == n \div per
           m == n % per
<1>2. q \in Nat /\ m \in 0..(per - 1) /\ n = per * q + m
  BY <1>1, DivMod
<1> HIDE DEF q, m
<1> DEFINE b == m + i
<1>3. b \in Nat /\ b = m + i
  BY <1>1, <1>2
<1> HIDE DEF b
<1> DEFINE a == b \div p
           r == b % p
<1>4. a \in Nat /\ r \in 0..(p - 1) /\ b = p * a + r
  BY <1>3, DivMod
<1> HIDE DEF a, r
<1> DEFINE v == c * q + a
<1>5. v \in Nat
  BY <1>2, <1>4, SMTT(30)
<1>6. n + i = p * v + r
  <2>1. per * q = p * (c * q)
    BY <1>2, SMTT(30) DEF per
  <2> DEFINE u == c * q
  <2>2. u \in Nat
    BY <1>2, SMTT(30)
  <2>3. per * q = p * u
    BY <2>1
  <2> HIDE DEF u, per
  <2>4. v = u + a
    BY DEF u
  <2> HIDE DEF v
  <2>5. p * (u + a) = p * u + p * a
    BY <1>4, <2>2, SMTT(30)
  <2>6. p * u \in Nat /\ p * a \in Nat
    BY <1>4, <2>2, SMTT(30)
  <2>7. n = p * u + m /\ m + i = p * a + r
    BY <1>2, <1>3, <1>4, <2>3
  <2>8. n + i = (p * u + p * a) + r
    BY ONLY <2>6, <2>7, <1>2, <1>1, <1>4, p \in Nat, i \in Nat
  <2> QED BY <2>4, <2>5, <2>8
<1> HIDE DEF v
<1>7. (p * v + r) % p = r
  BY <1>4, <1>5, DivUnique
<1>8. b % p = (n + i) % p
  BY <1>6, <1>7 DEF r
<1> QED BY <1>3, <1>8 DEF m, per

\* On to the next entry, in the same piece or in another one.
LEMMA NextPiece ==
  ASSUME NEW per \in Nat \ {0}, NEW n \in Nat
  PROVE  /\ (n + 1) % per # 0 =>
              (n + 1) \div per = n \div per /\ (n + 1) % per = (n % per) + 1
         /\ (n + 1) % per = 0 =>
              (n + 1) \div per = n \div per + 1 /\ (n % per) = per - 1
<1> DEFINE q == n \div per
           m == n % per
<1>1. q \in Nat /\ m \in 0..(per - 1) /\ n = per * q + m
  BY DivMod
<1>2. CASE m + 1 < per
  <2>1. (n + 1) \div per = q /\ (n + 1) % per = m + 1
    BY <1>2, DivStep
  <2>2. m + 1 # 0
    BY <1>1
  <2> QED BY <2>1, <2>2
<1>3. CASE m + 1 = per
  <2> HIDE DEF q, m
  <2> DEFINE b == q + 1
  <2>1. b \in Nat /\ 0 \in 0..(per - 1)
    BY <1>1
  <2>2. n + 1 = per * b + 0
    <3>1. per * (q + 1) = per * q + per
      BY <1>1, SMTT(30)
    <3>2. per * q \in Nat
      BY <1>1, SMTT(30)
    <3> QED BY <1>1, <1>3, <3>1, <3>2
  <2> HIDE DEF b
  <2>3. (per * b + 0) \div per = b /\ (per * b + 0) % per = 0
    BY <2>1, DivUnique
  <2>4. (n + 1) \div per = q + 1 /\ (n + 1) % per = 0
    BY <2>2, <2>3 DEF b
  <2>5. m = per - 1
    BY <1>1, <1>3
  <2> QED BY <2>4, <2>5 DEF q, m
<1> HIDE DEF q, m
<1>4. m + 1 < per \/ m + 1 = per
  BY <1>1
<1> QED BY <1>2, <1>3, <1>4

LEMMA NextEntry ==
  ASSUME NEW p \in Nat \ {0}, NEW c \in Nat \ {0}, NEW n \in Nat
  PROVE  LET per == p * c
         IN /\ (n + 1) % per # 0 =>
                 /\ (n + 1) \div per = n \div per
                 /\ ((n + 1) % per) \div p
                      = (n % per) \div p + (IF (n + 1) % p = 0 THEN 1 ELSE 0)
            /\ (n + 1) % per = 0 =>
                 /\ (n + 1) \div per = n \div per + 1
                 /\ ((n + 1) % per) \div p = 0
<1> DEFINE per == p * c
<1>1. per \in Nat \ {0}
  BY TimesIn
<1>2. ((n % per) + 1) % p = (n + 1) % p
  <2>1. 1 \in Nat
    OBVIOUS
  <2> QED BY <2>1, ModMod, Zenon
<1> HIDE DEF per
<1>3. n % per \in Nat
  BY <1>1
<1> DEFINE m == n % per
<1> HIDE DEF m
<1>4. (m + 1) \div p = m \div p + (IF (m + 1) % p = 0 THEN 1 ELSE 0)
  <2>1. m \in Nat /\ m \div p \in Int
    BY <1>3 DEF m
  <2>2. /\ (m + 1) % p # 0 => (m + 1) \div p = m \div p
        /\ (m + 1) % p = 0 => (m + 1) \div p = m \div p + 1
    BY <2>1, NextPiece, Zenon
  <2> QED BY <2>1, <2>2
<1>5. (n + 1) % per # 0 =>
        /\ (n + 1) \div per = n \div per
        /\ (n + 1) % per = m + 1
  BY <1>1, NextPiece DEF m
<1>6. (n + 1) % per = 0 => (n + 1) \div per = n \div per + 1
  BY <1>1, NextPiece
<1>7. 0 \div p = 0
  OBVIOUS
<1>8. CASE (n + 1) % per # 0
  BY <1>2, <1>4, <1>5, <1>8 DEF m, per
<1>9. CASE (n + 1) % per = 0
  BY <1>6, <1>7, <1>9 DEF per
<1> QED BY <1>8, <1>9

\* On to an entry i further on, from the first of a piece.
LEMMA SeekEntry ==
  ASSUME NEW per \in Nat \ {0}, NEW n \in Nat, n % per = 0, NEW i \in Nat
  PROVE  /\ i < per => (n + i) \div per = n \div per /\ (n + i) % per = i
         /\ i = per => (n + i) \div per = n \div per + 1 /\ (n + i) % per = 0
<1>1. CASE i < per
  <2>1. (n % per) + i < per /\ (n % per) + i = i
    BY <1>1
  <2>2. (n + i) \div per = n \div per /\ (n + i) % per = (n % per) + i
    BY <2>1, DivStep, Zenon
  <2>3. i # per
    BY <1>1
  <2> QED BY <2>1, <2>2, <2>3, Zenon
<1>2. CASE i = per
  <2> DEFINE q == n \div per
  <2>1. q \in Nat /\ n = per * q
    BY DivMod
  <2> HIDE DEF q
  <2> DEFINE b == q + 1
  <2>2. n + i = per * b + 0
    <3>1. per * (q + 1) = per * q + per
      BY <2>1, SMTT(30)
    <3>2. per * q \in Nat
      BY <2>1, SMTT(30)
    <3> QED BY <2>1, <1>2, <3>1, <3>2
  <2>3. b \in Nat /\ 0 \in 0..(per - 1)
    BY <2>1
  <2> HIDE DEF b
  <2>4. (per * b + 0) \div per = b /\ (per * b + 0) % per = 0
    BY <2>3, DivUnique
  <2>5. (n + i) \div per = q + 1 /\ (n + i) % per = 0
    BY <2>2, <2>4 DEF b
  <2> QED BY <1>2, <2>5 DEF q
<1> QED BY <1>1, <1>2

\* Inside L pieces.
LEMMA InPieces ==
  ASSUME NEW per \in Nat \ {0}, NEW L \in Nat, NEW n \in Nat,
         n \div per + 1 <= L
  PROVE  n < per * L
<1> DEFINE q == n \div per
           m == n % per
<1>1. q \in Nat /\ m \in 0..(per - 1) /\ n = per * q + m
  BY DivMod
<1> HIDE DEF q, m
<1>2. q + 1 <= L
  BY DEF q
<1>3. PICK k \in Nat : L = (q + 1) + k
  <2>1. L - (q + 1) \in Nat /\ L = (q + 1) + (L - (q + 1))
    BY <1>1, <1>2
  <2> QED BY <2>1
<1>4. per * ((q + 1) + k) = (per * q + per) + per * k
  BY <1>1, SMTT(30)
<1>5. per * q \in Nat /\ per * k \in Nat
  BY <1>1, SMTT(30)
<1> QED BY <1>1, <1>3, <1>4, <1>5

-----------------------------------------------------------------------------
(* Cards that are formatted                                                *)

LEMMA VolumeFacts ==
  ASSUME NEW c \in Cards, NEW b \in Volumes(c)
  PROVE  LET f == VolumeOf(c, b)
         IN /\ f.volbase = b /\ f.fs_type \in {"FAT32", "exFAT"}
            /\ f.csize \in Nat \ {0} /\ PerCluster(f) \in Nat \ {0}
            /\ f.database \in Nat /\ f.n_fatent \in Nat
            /\ IsDirectory(c, b, Origin)
            /\ \A ch \in c.dirs[b] :
                 /\ ch \in Seq(Nat) \ {<<>>}
                 /\ \A n \in Entries(f, ch) : SoundEntry(c, b, ch, n)
<1> DEFINE f == VolumeOf(c, b)
<1>1. Formatted(c)
  BY CardsAssumption
<1>2. /\ f.csize \in Nat \ {0} /\ f.database \in Nat /\ f.n_fatent \in Nat
      /\ c.dirs[b] \subseteq Seq(Nat) \ {<<>>} /\ IsDirectory(c, b, Origin)
      /\ \A ch \in c.dirs[b] : \A n \in Entries(f, ch) : SoundEntry(c, b, ch, n)
  BY <1>1, Zenon DEF Formatted
<1>3. f.volbase = b /\ f.fs_type \in {"FAT32", "exFAT"}
  BY DEF VolumeOf, FromBoot
<1> HIDE DEF f
<1>4. PerCluster(f) \in Nat \ {0}
  BY <1>2, TimesIn, PerAssumption DEF PerCluster
<1> QED BY <1>2, <1>3, <1>4 DEF f

LEMMA MountedFacts ==
  ASSUME DiskInv, VolumeInv, fs # NoFs
  PROVE  /\ medium \in Cards /\ Mounted /\ fs.volbase \in Volumes(medium)
         /\ fs = VolumeOf(medium, fs.volbase)
         /\ fs.fs_type \in {"FAT32", "exFAT"}
         /\ fs.csize \in Nat \ {0} /\ PerCluster(fs) \in Nat \ {0}
         /\ fs.database \in Nat /\ fs.n_fatent \in Nat
<1>1. medium \in Cards /\ Mounted
  BY DEF DiskInv, VolumeInv
<1> QED BY <1>1, VolumeFacts DEF Mounted

\* The chain of a directory is one of the card's.
LEMMA ChainFacts ==
  ASSUME NEW c \in Cards, NEW b \in Volumes(c), NEW obj, IsDirectory(c, b, obj)
  PROVE  /\ ChainOf(c, b, obj) \in c.dirs[b]
         /\ ChainOf(c, b, obj) \in Seq(Nat) /\ Len(ChainOf(c, b, obj)) \in Nat \ {0}
         /\ \A i \in 1..Len(ChainOf(c, b, obj)) : ChainOf(c, b, obj)[i] \in Nat
         /\ IsChain(c, VolumeOf(c, b), ChainOf(c, b, obj), obj)
<1> DEFINE ch == ChainOf(c, b, obj)
<1>1. ch \in c.dirs[b] /\ IsChain(c, VolumeOf(c, b), ch, obj)
  BY DEF IsDirectory, ChainOf
<1>2. ch \in Seq(Nat) \ {<<>>}
  BY <1>1, VolumeFacts
<1> HIDE DEF ch
<1>3. Len(ch) \in Nat \ {0} /\ \A i \in 1..Len(ch) : ch[i] \in Nat
  BY <1>2, EmptySeq, ElementOfSeq
<1> QED BY <1>1, <1>2, <1>3 DEF ch

\* Where an entry is, there is no other.
LEMMA PlaceFacts ==
  ASSUME NEW c \in Cards, NEW b \in Volumes(c), NEW ch \in c.dirs[b],
         NEW n \in Entries(VolumeOf(c, b), ch)
  PROVE  /\ <<b, ch, n>> \in Places(c)
         /\ PlaceOf(c, <<b, ch, n>>) = <<SectorOf(VolumeOf(c, b), ch, n), n % PerSect>>
         /\ \A p \in Places(c) : PlaceOf(c, p) = PlaceOf(c, <<b, ch, n>>) =>
              p = <<b, ch, n>>
         /\ SoundEntry(c, b, ch, n)
<1>1. <<b, ch, n>> \in Places(c)
  BY DEF Places
<1>2. \A p, q \in Places(c) : PlaceOf(c, p) = PlaceOf(c, q) => p = q
  BY CardsAssumption, Zenon DEF Formatted
<1>3. SoundEntry(c, b, ch, n)
  BY VolumeFacts
<1>4. PlaceOf(c, <<b, ch, n>>) = <<SectorOf(VolumeOf(c, b), ch, n), n % PerSect>>
  BY DEF PlaceOf
<1> QED BY <1>1, <1>2, <1>3, <1>4

\* The entry that a directory object stands at.
LEMMA HereFacts ==
  ASSUME NEW c \in Cards, NEW b \in Volumes(c), NEW d, DirAt(c, b, d)
  PROVE  LET ch == ChainOf(c, b, Object(d))
             i  == d.dptr % PerSect
         IN /\ ch \in c.dirs[b] /\ d.dptr \in Entries(VolumeOf(c, b), ch)
            /\ i \in 0..(PerSect - 1) /\ d.sect \in DOMAIN c.sectors
            /\ PlaceOf(c, <<b, ch, d.dptr>>) = <<d.sect, i>>
            /\ Old(c, b, Object(d), d.dptr) = c.sectors[d.sect].dirent[i]
            /\ c.sectors[d.sect].kind = "dir"
            /\ DOMAIN c.sectors[d.sect] = {"kind", "dirent"}
            /\ DOMAIN c.sectors[d.sect].dirent = 0..(PerSect - 1)
            /\ \A j \in 0..(PerSect - 1) :
                 DOMAIN c.sectors[d.sect].dirent[j] = EntryFields
<1> DEFINE obj == Object(d)
           f  == VolumeOf(c, b)
           ch == ChainOf(c, b, obj)
           i  == d.dptr % PerSect
<1>1. IsDirectory(c, b, obj) /\ d.dptr \in Nat /\ d.sect = SectorOf(f, ch, d.dptr)
      /\ d.dptr \div PerCluster(f) + 1 \in 1..Len(ch)
  BY DEF DirAt, IsObject
<1>2. ch \in c.dirs[b] /\ Len(ch) \in Nat
  BY <1>1, ChainFacts
<1>3. PerCluster(f) \in Nat \ {0} /\ PerSect \in Nat \ {0}
  BY VolumeFacts, PerAssumption
<1> DEFINE per == PerCluster(f)
           len == Len(ch)
<1>4. d.dptr < per * len /\ per * len \in Nat
  <2> HIDE DEF per, len
  <2>1. per * len \in Nat
    BY <1>2, <1>3, SMTT(30) DEF per, len
  <2>2. d.dptr \div per + 1 <= len
    BY <1>1, <1>2 DEF per, len
  <2>3. per \in Nat \ {0} /\ len \in Nat
    BY <1>2, <1>3 DEF per, len
  <2> QED BY <1>1, <2>1, <2>2, <2>3, InPieces
<1>5. d.dptr \in Entries(f, ch)
  <2> DEFINE n == per * len
             x == d.dptr
  <2> HIDE DEF n, x
  <2>1. x \in 0..(n - 1)
    BY <1>1, <1>4 DEF n, x
  <2> QED BY <2>1 DEF n, x, Entries
<1>6. i \in 0..(PerSect - 1)
  <2> DEFINE x == d.dptr
  <2>1. x \in Nat
    BY <1>1
  <2> HIDE DEF x
  <2>2. x % PerSect \in 0..(PerSect - 1)
    BY <1>3, <2>1
  <2> QED BY <2>2 DEF x
<1>7. SoundEntry(c, b, ch, d.dptr)
      /\ PlaceOf(c, <<b, ch, d.dptr>>) = <<SectorOf(f, ch, d.dptr), i>>
  BY <1>2, <1>5, PlaceFacts, Zenon
<1>8. /\ d.sect \in DOMAIN c.sectors /\ c.sectors[d.sect].kind = "dir"
      /\ DOMAIN c.sectors[d.sect] = {"kind", "dirent"}
      /\ DOMAIN c.sectors[d.sect].dirent = 0..(PerSect - 1)
      /\ \A j \in 0..(PerSect - 1) :
           DOMAIN c.sectors[d.sect].dirent[j] = EntryFields
  BY <1>1, <1>7, Zenon DEF SoundEntry
<1>9. Old(c, b, obj, d.dptr) = c.sectors[d.sect].dirent[i]
  BY <1>1, Zenon DEF Old, EntryOf
<1> QED BY <1>1, <1>2, <1>5, <1>6, <1>7, <1>8, <1>9, Zenon

-----------------------------------------------------------------------------
(* The window                                                              *)

\* What move_window can come to.
LEMMA MoveWindow ==
  ASSUME DiskInv, NEW s, NEW m \in move_window(s)
  PROVE  /\ DiskOK(medium, touched, m.card, m.win) /\ m.ok \in BOOLEAN
         /\ DOMAIN m = {"ok", "win", "card"}
         /\ m.ok => m.win.sect = s
<1>1. DiskOK(medium, touched, card, win)
  BY DEF DiskInv
<1>2. DOMAIN Flushed = DOMAIN medium.sectors
      /\ \A t \in DOMAIN Flushed : Kept(medium, touched, t, Flushed[t])
  <2>1. CASE win.dirty
    <3>1. Flushed = [card EXCEPT ![win.sect] = win.data]
      BY <2>1 DEF Flushed
    <3>2. win.sect \in DOMAIN card /\ Kept(medium, touched, win.sect, win.data)
      BY <1>1, <2>1 DEF DiskOK
    <3> QED BY <1>1, <3>1, <3>2 DEF DiskOK
  <2>2. CASE ~win.dirty
    BY <1>1, <2>2 DEF Flushed, DiskOK
  <2> QED BY <2>1, <2>2
<1>3. CASE s = win.sect
  <2>1. m = [ok |-> TRUE, win |-> win, card |-> card]
    BY <1>3, Zenon DEF move_window
  <2> QED BY <1>1, <1>3, <2>1
<1>4. CASE s # win.sect
  <2>1. CASE m = [ok |-> TRUE, card |-> Flushed,
                  win |-> [sect |-> s, data |-> Flushed[s], dirty |-> FALSE]]
    BY <1>2, <2>1 DEF DiskOK, WinFields
  <2>2. CASE m = [ok |-> FALSE, card |-> Flushed, win |-> Lost(s)]
    <3>1. NoSector \notin DOMAIN Flushed
      BY <1>2, CardsAssumption DEF NoSector, Formatted, DiskInv
    <3> QED BY <1>2, <2>2, <3>1 DEF DiskOK, WinFields, Lost
  <2>3. CASE m = [ok |-> FALSE, card |-> card, win |-> win]
    BY <1>1, <2>3
  <2> QED BY <1>4, <2>1, <2>2, <2>3 DEF move_window
<1> QED BY <1>3, <1>4

LEMMA SyncWindow ==
  ASSUME DiskInv, NEW m \in sync_window
  PROVE  DiskOK(medium, touched, m.card, m.win)
<1>1. DiskOK(medium, touched, card, win)
  BY DEF DiskInv
<1>2. CASE win.dirty
  <2>1. Flushed = [card EXCEPT ![win.sect] = win.data]
    BY <1>2 DEF Flushed
  <2>2. win.sect \in DOMAIN card /\ Kept(medium, touched, win.sect, win.data)
    BY <1>1, <1>2 DEF DiskOK
  <2>3. CASE m = [ok |-> TRUE, card |-> Flushed, win |-> [win EXCEPT !.dirty = FALSE]]
    <3>1. m.card = Flushed /\ m.win = [win EXCEPT !.dirty = FALSE]
      BY <2>3
    <3>2. /\ DOMAIN m.win = WinFields /\ m.win.dirty = FALSE
          /\ m.win.sect = win.sect /\ m.win.data = win.data
      BY <1>1, <3>1 DEF DiskOK, WinFields
    <3> QED BY <1>1, <2>1, <2>2, <3>1, <3>2 DEF DiskOK
  <2>4. CASE m = [ok |-> FALSE, card |-> card, win |-> win]
    BY <1>1, <2>4
  <2> QED BY <2>3, <2>4 DEF sync_window
<1>3. CASE ~win.dirty
  <2>1. m.card = card /\ m.win = [win EXCEPT !.dirty = FALSE]
    BY <1>3 DEF sync_window, Flushed
  <2>2. /\ DOMAIN m.win = WinFields /\ m.win.dirty = FALSE
        /\ m.win.sect = win.sect /\ m.win.data = win.data
    BY <1>1, <2>1 DEF DiskOK, WinFields
  <2> QED BY <1>1, <2>1, <2>2 DEF DiskOK
<1> QED BY <1>2, <1>3

LEMMA ReadSector ==
  ASSUME DiskInv, NEW s \in DOMAIN medium.sectors, NEW m \in move_window(s), m.ok
  PROVE  Kept(medium, touched, s, m.win.data)
<1>1. DiskOK(medium, touched, m.card, m.win) /\ m.win.sect = s
  BY MoveWindow
<1> QED BY <1>1 DEF DiskOK

-----------------------------------------------------------------------------
(* Entries                                                                 *)

\* What a change of the size or the checksum leaves alone.
LEMMA SimilarFields ==
  ASSUME NEW old, DOMAIN old = EntryFields, NEW new, Similar(new, old)
  PROVE  /\ DOMAIN new = EntryFields
         /\ new.type = old.type /\ new.name = old.name /\ new.ord = old.ord
         /\ new.last = old.last /\ new.dir = old.dir /\ new.rdo = old.rdo
         /\ new.sclust = old.sclust /\ new.stat = old.stat
         /\ new.type \notin {"short", "stream", "filedir"} => new = old
<1>1. CASE new = old
  BY <1>1
<1>2. CASE old.type \in {"short", "stream"} /\ new = [old EXCEPT !.size = new.size]
  BY <1>2 DEF EntryFields
<1>3. CASE old.type = "filedir" /\ new = [old EXCEPT !.sum = new.sum]
  BY <1>3 DEF EntryFields
<1> QED BY <1>1, <1>2, <1>3 DEF Similar, SameFile

\* A change of such an entry is a change of the original.
LEMMA SimilarAgain ==
  ASSUME NEW old, DOMAIN old = EntryFields, NEW mid, Similar(mid, old), NEW x
  PROVE  /\ old.type \in {"short", "stream"} =>
              SameFile([mid EXCEPT !.size = x], old)
         /\ old.type = "filedir" => SameFile([mid EXCEPT !.sum = x], old)
<1>1. ASSUME old.type \in {"short", "stream"}
      PROVE  SameFile([mid EXCEPT !.size = x], old)
  <2>1. mid = old \/ mid = [old EXCEPT !.size = mid.size]
    BY <1>1 DEF Similar, SameFile
  <2>2. [mid EXCEPT !.size = x] = [old EXCEPT !.size = x]
    BY <2>1 DEF EntryFields
  <2>3. [old EXCEPT !.size = x].size = x
    BY DEF EntryFields
  <2> QED BY <1>1, <2>2, <2>3 DEF SameFile
<1>2. ASSUME old.type = "filedir"
      PROVE  SameFile([mid EXCEPT !.sum = x], old)
  <2>1. mid = old \/ mid = [old EXCEPT !.sum = mid.sum]
    BY <1>2 DEF Similar, SameFile
  <2>2. [mid EXCEPT !.sum = x] = [old EXCEPT !.sum = x]
    BY <2>1 DEF EntryFields
  <2>3. [old EXCEPT !.sum = x].sum = x
    BY DEF EntryFields
  <2> QED BY <1>2, <2>2, <2>3 DEF SameFile
<1> QED BY <1>1, <1>2

\* What is read of the entry that dj stands at.
LEMMA ReadEntry ==
  ASSUME DiskInv, Mounted, DirAt(medium, fs.volbase, dj),
         NEW m \in move_window(dj.sect), m.ok
  PROVE  LET e   == m.win.data.dirent[dj.dptr % PerSect]
             old == Old(medium, fs.volbase, Object(dj), dj.dptr)
             before == Old(medium, fs.volbase, Object(dj), dj.dptr - 1)
         IN /\ DOMAIN old = EntryFields /\ Similar(e, old)
            /\ m.win.sect = dj.sect
            /\ old.dir => e = old
            /\ e.type = "stream" /\ e # old =>
                 before.type = "filedir" /\ ~before.dir
<1> DEFINE b == fs.volbase
           obj == Object(dj)
           ch == ChainOf(medium, b, obj)
           i == dj.dptr % PerSect
           e == m.win.data.dirent[i]
           old == Old(medium, b, obj, dj.dptr)
           p == <<b, ch, dj.dptr>>
<1>1. medium \in Cards /\ b \in Volumes(medium)
  BY DEF DiskInv, Mounted
<1>2. /\ ch \in medium.dirs[b] /\ dj.dptr \in Entries(VolumeOf(medium, b), ch)
      /\ i \in 0..(PerSect - 1) /\ dj.sect \in DOMAIN medium.sectors
      /\ PlaceOf(medium, p) = <<dj.sect, i>>
      /\ old = medium.sectors[dj.sect].dirent[i]
      /\ medium.sectors[dj.sect].kind = "dir"
      /\ \A j \in 0..(PerSect - 1) :
           DOMAIN medium.sectors[dj.sect].dirent[j] = EntryFields
  BY <1>1, HereFacts, Zenon
<1>3. \/ e = old
      \/ SameFile(e, old) /\ MayChange(medium, touched, dj.sect, i)
  <2>1. Kept(medium, touched, dj.sect, m.win.data)
    BY <1>2, ReadSector
  <2>2. \A j \in 0..(PerSect - 1) :
          \/ m.win.data.dirent[j] = medium.sectors[dj.sect].dirent[j]
          \/ /\ SameFile(m.win.data.dirent[j], medium.sectors[dj.sect].dirent[j])
             /\ MayChange(medium, touched, dj.sect, j)
    BY <1>2, <2>1, Zenon DEF Kept
  <2> HIDE DEF i, old
  <2> QED BY <1>2, <2>2, Zenon
<1>4. DOMAIN old = EntryFields /\ Similar(e, old)
  BY <1>2, <1>3, Zenon DEF Similar
<1>5. ASSUME e # old
      PROVE  \E k \in touched : BelongsTo(medium, p, k)
  <2>1. PICK q \in Places(medium) :
          /\ PlaceOf(medium, q) = <<dj.sect, i>>
          /\ \E k \in touched : BelongsTo(medium, q, k)
    BY <1>3, <1>5, Zenon DEF MayChange
  <2>2. q = p
    <3>1. \A x \in Places(medium) :
            PlaceOf(medium, x) = PlaceOf(medium, p) => x = p
      BY <1>1, <1>2, PlaceFacts
    <3> QED BY <1>2, <2>1, <3>1
  <2> QED BY <2>1, <2>2
<1>6. p[1] = b /\ p[2] = ch /\ p[3] = dj.dptr
  OBVIOUS
<1>7. dj.dptr + 0 = dj.dptr /\ dj.dptr + (-1) = dj.dptr - 1
  BY DEF DirAt
<1>8. EntryOf(medium, VolumeOf(medium, p[1]), p[2], p[3] + 0) = old
      /\ EntryOf(medium, VolumeOf(medium, p[1]), p[2], p[3] + (-1))
           = Old(medium, b, obj, dj.dptr - 1)
  BY <1>6, <1>7, Zenon DEF Old
<1> HIDE DEF p, e
<1>9. e # old => ~old.dir
  BY <1>5, <1>8, Zenon DEF BelongsTo, HasName
<1>10. ASSUME e.type = "stream", e # old
       PROVE  /\ Old(medium, b, obj, dj.dptr - 1).type = "filedir"
              /\ ~Old(medium, b, obj, dj.dptr - 1).dir
  <2>1. old.type = "stream"
    BY <1>4, <1>10, SimilarFields
  <2>2. PICK k \in touched : BelongsTo(medium, p, k)
    BY <1>5, <1>10
  <2> HIDE DEF old, obj
  <2> QED BY <1>8, <2>1, <2>2 DEF BelongsTo, HasName
<1>11. m.win.sect = dj.sect
  BY MoveWindow
<1> QED BY <1>4, <1>9, <1>10, <1>11 DEF e

\* An entry of the files ks that is edited in the window.
LEMMA EditEntry ==
  ASSUME DiskInv, NEW s \in DOMAIN medium.sectors,
         medium.sectors[s].kind = "dir",
         DOMAIN medium.sectors[s] = {"kind", "dirent"},
         DOMAIN medium.sectors[s].dirent = 0..(PerSect - 1),
         NEW m \in move_window(s), m.ok, NEW i \in 0..(PerSect - 1), NEW e,
         \/ e = medium.sectors[s].dirent[i]
         \/ /\ SameFile(e, medium.sectors[s].dirent[i])
            /\ MayChange(medium, touched, s, i)
  PROVE  DiskOK(medium, touched, Edited(m, i, e).card, Edited(m, i, e).win)
<1> DEFINE old == medium.sectors[s]
           new == Edited(m, i, e)
<1>1. /\ DiskOK(medium, touched, m.card, m.win) /\ m.win.sect = s
      /\ DOMAIN m = {"ok", "win", "card"}
  BY MoveWindow
<1>2. Kept(medium, touched, s, m.win.data)
  BY ReadSector
<1> DEFINE w == m.win
           d == w.data
           x == d.dirent
           y == [x EXCEPT ![i] = e]
           v == [d EXCEPT !.dirent = y]
           u == [[w EXCEPT !.data = v] EXCEPT !.dirty = TRUE]
<1>3. DOMAIN w = WinFields /\ DOMAIN d = {"kind", "dirent"}
      /\ d.kind = "dir" /\ DOMAIN x = 0..(PerSect - 1)
  BY <1>1, <1>2 DEF DiskOK, Kept
<1>4. new.card = m.card /\ new.win = u
  BY <1>1, <1>3 DEF Edited, WinFields
<1>5. /\ DOMAIN u = WinFields /\ u.sect = s /\ u.dirty = TRUE /\ u.data = v
  BY <1>1, <1>3 DEF WinFields
<1>6. DOMAIN v = {"kind", "dirent"} /\ v.kind = "dir" /\ v.dirent = y
  BY <1>3
<1>7. DOMAIN y = 0..(PerSect - 1) /\ y[i] = e
      /\ \A j \in 0..(PerSect - 1) : j # i => y[j] = x[j]
  BY <1>3
<1> HIDE DEF y, x
<1>8. \A j \in 0..(PerSect - 1) :
         \/ y[j] = old.dirent[j]
         \/ SameFile(y[j], old.dirent[j]) /\ MayChange(medium, touched, s, j)
  <2>1. \A j \in 0..(PerSect - 1) :
         \/ x[j] = old.dirent[j]
         \/ SameFile(x[j], old.dirent[j]) /\ MayChange(medium, touched, s, j)
    BY <1>2, Zenon DEF Kept, x
  <2> QED BY <1>7, <2>1
<1> HIDE DEF v
<1>9. Kept(medium, touched, s, v)
  BY <1>6, <1>7, <1>8 DEF Kept
<1> HIDE DEF u, new
<1> QED BY <1>1, <1>4, <1>5, <1>9 DEF DiskOK, new

-----------------------------------------------------------------------------
(* Chains                                                                  *)

LEMMA GetFatDisk ==
  ASSUME DiskInv, NEW obj, NEW clst, NEW g \in get_fat(obj, clst)
  PROVE  DiskOK(medium, touched, g.card, g.win)
<1>1. CASE clst \notin Clusters(fs) \/ Contiguous(obj)
  <2>1. g.card = card /\ g.win = win
    BY <1>1 DEF get_fat
  <2> QED BY <2>1 DEF DiskInv
<1>2. CASE clst \in Clusters(fs) /\ ~Contiguous(obj)
  <2>1. PICK m \in move_window(FatSector(clst)) : g.card = m.card /\ g.win = m.win
    BY <1>2 DEF get_fat
  <2> QED BY <2>1, MoveWindow
<1> QED BY <1>1, <1>2

\* get_fat of a cluster in the chain of a directory comes to the next one, if it
\* comes to any.
LEMMA GetFat ==
  ASSUME DiskInv, VolumeInv, fs # NoFs, NEW obj, obj.sclust = 0 => obj.stat = 0,
         NEW ch \in Seq(Nat), IsChain(medium, fs, ch, obj), NEW i \in 1..Len(ch),
         NEW g \in get_fat(obj, ch[i]), IsCluster(g)
  PROVE  i + 1 \in 1..Len(ch) /\ g.val = ch[i + 1]
<1>1. fs.n_fatent \in Nat /\ Len(ch) \in Nat
      /\ \A j \in 1..Len(ch) : ch[j] \in Nat
  BY MountedFacts, ElementOfSeq, LenProperties
<1>2. g.ok /\ g.val # Eoc /\ g.val # 1
  BY <1>1 DEF IsCluster, Clusters, Eoc
<1>3. ASSUME i # Len(ch) PROVE i + 1 \in 1..Len(ch)
  BY <1>1, <1>3
<1>6. ch[i] \in Clusters(fs)
  BY <1>2 DEF get_fat
<1>4. CASE Contiguous(obj)
  <2>1. g.val = Computed(obj, ch[i])
    <3>1. g \in {[ok |-> TRUE, win |-> win, card |-> card,
                  val |-> Computed(obj, ch[i])]}
      BY <1>4, <1>6, Zenon DEF get_fat
    <3> QED BY <3>1
  <2>2. /\ (obj.size - 1) \div fs.csize = Len(ch) - 1
        /\ \A j \in 1..Len(ch) : ch[j] = obj.sclust + j - 1
        /\ ch[1] = obj.sclust
    <3>1. fs.fs_type = "exFAT" /\ obj.sclust # 0 /\ obj.stat = 2
      BY <1>4 DEF Contiguous
    <3> QED BY <3>1, Zenon DEF IsChain
  <2>3. obj.sclust \in Nat
    BY <1>1, <2>2
  <2>4. ch[i] - obj.sclust = i - 1
    BY <2>2, <2>3
  <2>5. i # Len(ch)
    BY <1>1, <1>2, <2>1, <2>2, <2>4 DEF Computed
  <2>6. g.val = ch[i] + 1
    BY <1>1, <1>2, <2>1, <2>2, <2>4, <2>5 DEF Computed
  <2>7. ch[i + 1] = ch[i] + 1
    BY <1>3, <2>2, <2>3, <2>5
  <2> QED BY <1>3, <2>5, <2>6, <2>7
<1>5. CASE ~Contiguous(obj)
  <2> DEFINE s == fs.fatbase + ch[i] \div PerFat
  <2>1. PICK m \in move_window(s) :
          g = [ok |-> m.ok, win |-> m.win, card |-> m.card,
               val |-> IF m.ok THEN m.win.data.fatent[ch[i] % PerFat] ELSE 0]
    BY <1>5, <1>6, Zenon DEF get_fat, FatSector
  <2>2. /\ s \in DOMAIN medium.sectors /\ medium.sectors[s].kind = "fat"
        /\ medium.sectors[s].fatent[ch[i] % PerFat]
             = IF i = Len(ch) THEN Eoc ELSE ch[i + 1]
    BY <1>5, Zenon DEF IsChain, Contiguous
  <2>3. m.ok /\ g.val = m.win.data.fatent[ch[i] % PerFat]
    BY <1>2, <2>1
  <2>4. Kept(medium, touched, s, m.win.data)
    BY <2>2, <2>3, ReadSector
  <2>5. m.win.data = medium.sectors[s]
    BY <2>2, <2>4, "fat" # "dir" DEF Kept
  <2>6. g.val = IF i = Len(ch) THEN Eoc ELSE ch[i + 1]
    BY <2>2, <2>3, <2>5, Zenon
  <2> QED BY <1>2, <1>3, <2>6
<1> QED BY <1>4, <1>5

-----------------------------------------------------------------------------
(* Ways through a directory                                                *)

LEMMA DirMove ==
  ASSUME NEW c \in Cards, NEW b \in Volumes(c), NEW d, DirAt(c, b, d),
         NEW e, DOMAIN e = DjFields, Object(e) = Object(d), e.dptr \in Nat,
         NEW i \in 1..Len(ChainOf(c, b, Object(d))),
         i = e.dptr \div PerCluster(VolumeOf(c, b)) + 1,
         e.clust = ChainOf(c, b, Object(d))[i],
         e.sect = SectorOf(VolumeOf(c, b), ChainOf(c, b, Object(d)), e.dptr)
  PROVE  DirAt(c, b, e)
BY DEF DirAt

LEMMA SectInt ==
  ASSUME NEW c \in Cards, NEW b \in Volumes(c), NEW clst \in Nat
  PROVE  clst2sect(VolumeOf(c, b), clst) \in Int
<1> DEFINE f == VolumeOf(c, b)
<1>1. f.csize \in Nat \ {0} /\ f.database \in Nat
  BY VolumeFacts
<1> HIDE DEF f
<1>2. clst - 2 \in Int
  OBVIOUS
<1>3. f.csize * (clst - 2) \in Int
  BY <1>1, <1>2, SMTT(30)
<1> QED BY <1>1, <1>3 DEF clst2sect, f

\* dir_next within a cluster.
LEMMA DirStep ==
  ASSUME NEW c \in Cards, NEW b \in Volumes(c), NEW d, DirAt(c, b, d),
         (d.dptr + 1) % PerCluster(VolumeOf(c, b)) # 0
  PROVE  /\ DirAt(c, b, Stepped(d)) /\ Object(Stepped(d)) = Object(d)
         /\ Stepped(d).dptr = d.dptr + 1
         /\ Stepped(d).ord = d.ord /\ Stepped(d).sum = d.sum
<1> DEFINE f   == VolumeOf(c, b)
           per == PerCluster(f)
           ch  == ChainOf(c, b, Object(d))
           n   == d.dptr
           i   == n \div per + 1
           j   == (n % per) \div PerSect
           k   == IF (n + 1) % PerSect = 0 THEN 1 ELSE 0
           e   == Stepped(d)
<1>1. /\ DOMAIN d = DjFields /\ n \in Nat /\ i \in 1..Len(ch)
      /\ d.clust = ch[i] /\ d.sect = SectorOf(f, ch, n)
  BY DEF DirAt
<1>2. /\ PerSect \in Nat \ {0} /\ f.csize \in Nat \ {0} /\ per = PerSect * f.csize
      /\ per \in Nat \ {0}
  BY VolumeFacts, PerAssumption DEF PerCluster
<1>3. (n + 1) \div per = n \div per /\ ((n + 1) % per) \div PerSect = j + k
  <2> DEFINE cs == f.csize
             x == n
  <2> HIDE DEF cs, x
  <2>1. cs \in Nat \ {0} /\ x \in Nat /\ per = PerSect * cs
    BY <1>1, <1>2 DEF cs, x
  <2>2. (x + 1) % (PerSect * cs) # 0
    BY <2>1 DEF x
  <2>3. /\ (x + 1) \div (PerSect * cs) = x \div (PerSect * cs)
        /\ ((x + 1) % (PerSect * cs)) \div PerSect
             = (x % (PerSect * cs)) \div PerSect + (IF (x + 1) % PerSect = 0 THEN 1 ELSE 0)
    BY <1>2, <2>1, <2>2, NextEntry, Zenon
  <2> QED BY <2>1, <2>3 DEF x
<1>4. /\ DOMAIN e = DjFields /\ Object(e) = Object(d) /\ e.dptr = n + 1
      /\ e.clust = d.clust /\ e.ord = d.ord /\ e.sum = d.sum
      /\ e.sect = IF (n + 1) % PerSect = 0 THEN d.sect + 1 ELSE d.sect
  BY <1>1 DEF Stepped, DjFields, Object
<1>5. clst2sect(f, ch[i]) \in Int /\ j \in Int
  <2>1. ch[i] \in Nat
    BY <1>1, ChainFacts DEF DirAt, IsObject
  <2>2. n % per \in Nat
    <3> DEFINE x == n
               p == per
    <3>1. x \in Nat /\ p \in Nat \ {0}
      BY <1>1, <1>2
    <3> HIDE DEF x, p
    <3>2. x % p \in Nat
      BY <3>1
    <3> QED BY <3>2 DEF x, p
  <2>3. j \in Int
    <3> DEFINE x == n % per
    <3> HIDE DEF x
    <3>1. x \in Nat
      BY <2>2 DEF x
    <3>2. x \div PerSect \in Int
      BY <1>2, <3>1
    <3> QED BY <3>2 DEF x
  <2> QED BY <2>1, <2>3, SectInt
<1>6. d.sect = clst2sect(f, ch[i]) + j
  BY <1>1, Zenon DEF SectorOf
<1>7. SectorOf(f, ch, n + 1) = clst2sect(f, ch[i]) + (j + k)
  BY <1>3, Zenon DEF SectorOf
<1>8. e.sect = SectorOf(f, ch, e.dptr)
  <2> DEFINE x == clst2sect(f, ch[i])
             y == j
  <2> HIDE DEF x, y
  <2>1. x \in Int /\ y \in Int /\ d.sect = x + y
    BY <1>5, <1>6 DEF x, y
  <2>2. SectorOf(f, ch, n + 1) = x + (y + k)
    BY <1>7 DEF x, y
  <2> HIDE DEF e, ch, f
  <2>3. CASE (n + 1) % PerSect = 0
    BY <1>4, <2>1, <2>2, <2>3
  <2>4. CASE (n + 1) % PerSect # 0
    BY <1>4, <2>1, <2>2, <2>4
  <2> QED BY <2>3, <2>4
<1>9. e.dptr \in Nat /\ i = e.dptr \div per + 1 /\ e.clust = ch[i]
  BY <1>1, <1>3, <1>4
<1> HIDE DEF e, i, ch
<1>10. DirAt(c, b, e)
  BY <1>1, <1>4, <1>8, <1>9, DirMove DEF ch
<1> QED BY <1>4, <1>10 DEF e

\* To the first entry of a cluster.
LEMMA DirCluster ==
  ASSUME NEW c \in Cards, NEW b \in Volumes(c), NEW d, DirAt(c, b, d),
         NEW f, f = VolumeOf(c, b), NEW n \in Nat, n % PerCluster(f) = 0,
         NEW i \in 1..Len(ChainOf(c, b, Object(d))),
         i = n \div PerCluster(f) + 1,
         NEW clst, clst = ChainOf(c, b, Object(d))[i],
         NEW e, DOMAIN e = DjFields, Object(e) = Object(d), e.dptr = n,
         e.clust = clst, e.sect = clst2sect(f, clst)
  PROVE  DirAt(c, b, e)
<1> DEFINE per == PerCluster(f)
           ch  == ChainOf(c, b, Object(d))
<1>1. IsDirectory(c, b, Object(d))
  BY DEF DirAt, IsObject
<1>3. clst \in Nat
  BY <1>1, ChainFacts
<1>4. clst2sect(f, clst) + 0 = clst2sect(f, clst)
  <2>1. clst2sect(f, clst) \in Int
    BY <1>3, SectInt
  <2> DEFINE x == clst2sect(f, clst)
  <2> HIDE DEF x
  <2>2. x \in Int
    BY <2>1 DEF x
  <2>3. x + 0 = x
    BY <2>2
  <2> QED BY <2>3 DEF x
<1>5. 0 \div PerSect = 0
  BY PerAssumption
<1>6. SectorOf(f, ch, n) = clst2sect(f, ch[i]) + 0
  BY <1>5, Zenon DEF SectorOf
<1>7. e.sect = SectorOf(f, ch, e.dptr)
  BY <1>4, <1>6, Zenon
<1> QED BY <1>7, DirMove

\* To an entry of the cluster whose first entry d stands at.
LEMMA DirWithin ==
  ASSUME NEW c \in Cards, NEW b \in Volumes(c), NEW d, DirAt(c, b, d),
         d.dptr % PerCluster(VolumeOf(c, b)) = 0,
         NEW r \in Nat, r < PerCluster(VolumeOf(c, b)),
         NEW to, to = d.dptr + r,
         NEW e, DOMAIN e = DjFields, Object(e) = Object(d), e.dptr = to,
         e.clust = d.clust, e.sect = d.sect + r \div PerSect
  PROVE  DirAt(c, b, e)
<1> DEFINE f   == VolumeOf(c, b)
           per == PerCluster(f)
           ch  == ChainOf(c, b, Object(d))
           n   == d.dptr
           i   == n \div per + 1
<1>1. /\ DOMAIN d = DjFields /\ IsDirectory(c, b, Object(d))
      /\ n \in Nat /\ i \in 1..Len(ch) /\ d.clust = ch[i]
      /\ d.sect = SectorOf(f, ch, n)
  BY DEF DirAt, IsObject
<1>2. /\ DOMAIN e = DjFields /\ Object(e) = Object(d) /\ e.dptr = n + r
      /\ e.clust = d.clust /\ e.sect = d.sect + r \div PerSect
  OBVIOUS
<1>3. per \in Nat \ {0}
  BY VolumeFacts
<1>4. (n + r) \div per = n \div per /\ (n + r) % per = r
  <2> HIDE DEF per, n
  <2>1. n \in Nat /\ n % per = 0 /\ r < per
    BY <1>1 DEF n, per
  <2> QED BY <1>3, <2>1, SeekEntry, Zenon
<1>5. 0 \div PerSect = 0 /\ r \div PerSect \in Int
  BY PerAssumption
<1>6. d.sect = clst2sect(f, ch[i]) + 0
  BY <1>1, <1>5, Zenon DEF SectorOf
<1>7. SectorOf(f, ch, n + r) = clst2sect(f, ch[i]) + r \div PerSect
  BY <1>4, Zenon DEF SectorOf
<1>8. clst2sect(f, ch[i]) \in Int
  BY <1>1, ChainFacts, SectInt
<1>9. e.sect = SectorOf(f, ch, e.dptr)
  <2> DEFINE x == clst2sect(f, ch[i])
             y == r \div PerSect
  <2> HIDE DEF x, y, ch, f, n
  <2>1. x \in Int /\ y \in Int /\ d.sect = x + 0
    BY <1>5, <1>6, <1>8 DEF x, y
  <2>2. SectorOf(f, ch, n + r) = x + y /\ e.sect = d.sect + y
    BY <1>2, <1>7 DEF x, y
  <2>3. d.sect + y = x + y
    BY <2>1
  <2> QED BY <1>2, <2>2, <2>3
<1>10. e.dptr \in Nat /\ i = e.dptr \div per + 1 /\ e.clust = ch[i]
  BY <1>1, <1>2, <1>4
<1> HIDE DEF i, ch
<1>11. DirAt(c, b, e)
  BY <1>1, <1>2, <1>9, <1>10, DirMove DEF ch
<1> QED BY <1>2, <1>11

\* dir_sdi comes to the first entry of a directory.
LEMMA DirStart ==
  ASSUME DiskInv, VolumeInv, fs # NoFs, NEW obj,
         IsDirectory(medium, fs.volbase, obj)
  PROVE  /\ DirAt(medium, fs.volbase, dir_sdi(obj))
         /\ dir_sdi(obj).dptr = 0 /\ dir_sdi(obj).ord = NoSector
         /\ IsObject(medium, fs.volbase, obj) => Object(dir_sdi(obj)) = obj
<1> DEFINE c   == medium
           b   == fs.volbase
           d   == dir_sdi(obj)
           ch  == ChainOf(c, b, Object(d))
           per == PerCluster(fs)
<1>1. c \in Cards /\ b \in Volumes(c) /\ fs = VolumeOf(c, b) /\ per \in Nat \ {0}
  BY MountedFacts
<1>2. /\ DOMAIN d = DjFields /\ d.dptr = 0 /\ d.ord = NoSector
      /\ d.sclust = obj.sclust /\ d.size = obj.size
      /\ d.stat = (IF obj.sclust = 0 THEN 0 ELSE obj.stat)
      /\ d.clust = (IF obj.sclust = 0 THEN fs.dirbase ELSE obj.sclust)
      /\ d.sect = clst2sect(fs, d.clust)
  BY DEF dir_sdi, DjFields
<1> HIDE DEF d
<1>3. /\ Object(d).sclust = obj.sclust /\ Object(Object(d)) = Object(d)
      /\ Object(d).size = obj.size
      /\ Object(d).stat = (IF obj.sclust = 0 THEN 0 ELSE obj.stat)
  BY <1>2 DEF Object
<1>4. IsDirectory(c, b, Object(d))
  <2>1. PICK x \in c.dirs[b] : IsChain(c, fs, x, obj)
    BY <1>1, Zenon DEF IsDirectory
  <2>2. CASE obj.sclust = 0
    <3>1. IsChain(c, fs, x, Object(d))
      BY <1>3, <2>1, <2>2, Zenon DEF IsChain
    <3> QED BY <1>1, <3>1, Zenon DEF IsDirectory
  <2>3. CASE obj.sclust # 0
    <3>1. IsChain(c, fs, x, Object(d))
      BY <1>3, <2>1, <2>3, Zenon DEF IsChain
    <3> QED BY <1>1, <3>1, Zenon DEF IsDirectory
  <2> QED BY <2>2, <2>3
<1>5. IsObject(c, b, Object(d))
  BY <1>3, <1>4 DEF IsObject
<1>6. Len(ch) \in Nat \ {0} /\ ch[1] = d.clust /\ ch[1] \in Nat
  <2>1. Len(ch) \in Nat \ {0} /\ ch[1] \in Nat /\ IsChain(c, fs, ch, Object(d))
    BY <1>1, <1>4, ChainFacts
  <2>2. ch[1] = d.clust
    BY <1>2, <1>3, <2>1, Zenon DEF IsChain
  <2> QED BY <2>1, <2>2
<1>7. 0 \div per = 0 /\ 0 % per = 0 /\ 0 \div PerSect = 0
  <2> HIDE DEF per
  <2> QED BY <1>1, PerAssumption
<1>8. SectorOf(fs, ch, 0) = clst2sect(fs, ch[0 + 1]) + 0
  BY <1>7, Zenon DEF SectorOf
<1>9. clst2sect(fs, ch[1]) \in Int
  BY <1>1, <1>6, SectInt
<1>10. d.sect = SectorOf(fs, ch, 0)
  <2> DEFINE x == clst2sect(fs, ch[1])
  <2> HIDE DEF x
  <2>1. x \in Int /\ d.sect = x
    BY <1>2, <1>6, <1>9 DEF x
  <2>2. SectorOf(fs, ch, 0) = x + 0
    <3>1. 0 + 1 = 1
      OBVIOUS
    <3> QED BY <1>8, <3>1 DEF x
  <2> QED BY <2>1, <2>2
<1>11. DirAt(c, b, d)
  <2>1. 0 \div per + 1 = 1 /\ 1 \in 1..Len(ch)
    BY <1>6, <1>7
  <2> QED BY <1>1, <1>2, <1>5, <1>6, <1>10, <2>1 DEF DirAt
<1>12. ASSUME IsObject(c, b, obj) PROVE Object(d) = obj
  <2>1. obj = Object(obj) /\ obj.stat = d.stat
    BY <1>2, <1>12 DEF IsObject
  <2> QED BY <1>2, <1>3, <2>1 DEF Object
<1> QED BY <1>2, <1>11, <1>12 DEF d

-----------------------------------------------------------------------------
(* Frames                                                                  *)

LEMMA DiskStep ==
  ASSUME DiskInv, UNCHANGED <<medium, touched>>,
         DiskOK(medium, touched, card', win')
  PROVE  DiskInv'
BY DEF DiskInv

LEMMA DiskStays ==
  ASSUME DiskInv, UNCHANGED <<medium, touched, card, win>>
  PROVE  DiskInv'
BY DEF DiskInv

\* A FIL with the same entry.
LEMMA SameEntry ==
  ASSUME NEW c, NEW b, NEW k, NEW f, FilOK(c, b, f, k), NEW g,
         DOMAIN g = FilFields, g.open \in BOOLEAN, g.modified \in BOOLEAN,
         g.open => f.open, g.sclust = f.sclust, g.dir_sect = f.dir_sect,
         g.dir_ptr = f.dir_ptr, g.container = f.container, g.c_ofs = f.c_ofs,
         g.stat = f.stat
  PROVE  FilOK(c, b, g, k)
<1>1. ASSUME f.open PROVE FileOK(c, b, g, k)
  <2>1. FileOK(c, b, f, k)
    BY <1>1 DEF FilOK
  <2>2. CASE VolumeOf(c, b).fs_type = "exFAT"
    BY <2>1, <2>2 DEF FileOK, StreamIs
  <2>3. CASE VolumeOf(c, b).fs_type # "exFAT"
    BY <2>1, <2>3, Zenon DEF FileOK
  <2> QED BY <2>2, <2>3
<1> QED BY <1>1 DEF FilOK

LEMMA ClosedOK == ASSUME NEW c, NEW b, NEW k PROVE FilOK(c, b, Closed, k) /\ ~Closed.open /\ ~Closed.modified
BY DEF FilOK, Closed, FilFields

LEMMA FilesStay ==
  ASSUME FilesInv, UNCHANGED <<medium, fs, touched, fil>>
  PROVE  FilesInv'
BY DEF FilesInv

LEMMA FilesClose ==
  ASSUME fil' = [k \in DOMAIN Names |-> Closed]
  PROVE  FilesInv'
BY ClosedOK DEF FilesInv

LEMMA FileChanges ==
  ASSUME FilesInv, UNCHANGED <<medium, fs>>, touched \subseteq touched',
         NEW k \in DOMAIN Names, NEW f, fil' = [fil EXCEPT ![k] = f],
         FilOK(medium, fs.volbase, f, k), f.open => fs # NoFs,
         f.modified => f.open /\ k \in touched'
  PROVE  FilesInv'
<1>1. DOMAIN fil' = DOMAIN Names /\ fil'[k] = f
      /\ \A j \in DOMAIN Names : j # k => fil'[j] = fil[j]
  BY DEF FilesInv
<1>2. ASSUME NEW j \in DOMAIN Names
      PROVE  /\ FilOK(medium, fs.volbase, fil'[j], j)
             /\ fil'[j].open => fs # NoFs
             /\ fil'[j].modified => fil'[j].open /\ j \in touched'
  <2>1. CASE j = k
    BY <1>1, <2>1
  <2>2. CASE j # k
    BY <1>1, <2>2 DEF FilesInv
  <2> QED BY <2>1, <2>2
<1> QED BY <1>1, <1>2 DEF FilesInv

\* At no entry of a directory, the rest follows from little.
LEMMA Elsewhere ==
  ASSUME VolumeInv, UNCHANGED <<medium, fs>>, DiskInv', FilesInv',
         at' \notin Reading \cup {"sync", "syncFs", "boot"},
         fs # NoFs \/ at' \in Before,
         file' \in DOMAIN Names \/ (at' = "close" /\ file' \in 1..(Len(Names) + 1)),
         parts' \in Int, 2 + parts' <= Len(Names),
         level' \in Nat, task' \in {"find", "load", "store"}
  PROVE  VolInv'
<1>1. at' \notin Reading /\ at' \notin {"sync", "syncFs"} /\ at' # "boot" /\ at' # "seek"
  BY DEF Reading
<1>2. WalkInv' /\ LongInv' /\ BlockInv' /\ SyncInv'
  BY <1>1 DEF WalkInv, LongInv, BlockInv, SyncInv
<1>3. file' \in 1..(Len(Names) + 1)
      /\ (at' \notin {"close", "fatal"} => file' \in DOMAIN Names)
  BY NamesAssumption
<1>4. (fs' = NoFs /\ at' \in Before) \/ (Mounted' /\ at' # "boot")
  BY <1>1 DEF VolumeInv, Mounted
<1>5. VolumeInv'
  BY <1>1, <1>3, <1>4 DEF VolumeInv
<1> QED BY <1>2, <1>5 DEF VolInv

-----------------------------------------------------------------------------
(* Ends and beginnings of a call                                           *)

LEMMA FirstName == 1 \in DOMAIN Names /\ Len(Names) \in Nat /\ Len(Names) > 2
                   /\ DOMAIN Names = 1..Len(Names)
BY NamesAssumption

LEMMA OpenFailed ==
  ASSUME VolInv, fs # NoFs, UNCHANGED <<medium, fs, touched>>, DiskInv',
         at \notin {"close", "fatal"}, OpenFails
  PROVE  VolInv'
<1>1. file \in DOMAIN Names /\ VolumeInv /\ FilesInv
  BY DEF VolInv, VolumeInv
<1>2. FilesInv'
  BY <1>1, ClosedOK, FileChanges DEF OpenFails
<1>3. parts' \in Int /\ 2 + parts' <= Len(Names) /\ at' \in {"fatal", "idle"}
  <2>1. CASE file <= 3
    BY <1>1, <2>1 DEF OpenFails, Fatal, VolumeInv
  <2>2. CASE ~(file <= 3)
    BY <1>1, <2>2, FirstName DEF OpenFails, PartsAt
  <2> QED BY <2>1, <2>2
<1>4. file' = 1 /\ level' = 1 /\ task' = "find"
  BY DEF OpenFails, Returned
<1> QED BY <1>1, <1>2, <1>3, <1>4, FirstName, Elsewhere DEF Reading

LEMMA SyncReturned ==
  ASSUME VolInv, fs # NoFs, UNCHANGED <<medium, fs, touched>>, DiskInv', FilesInv',
         at \notin {"close", "fatal"}, SyncReturns
  PROVE  VolInv'
<1>1. file \in DOMAIN Names /\ VolumeInv /\ parts' = parts
  BY DEF VolInv, VolumeInv, SyncReturns
<1>2. \/ at' = "close" /\ file' \in 1..(Len(Names) + 1)
      \/ at' = "idle" /\ file' = 1
  BY <1>1, FirstName DEF SyncReturns
<1>3. level' = 1 /\ task' = "find"
  BY DEF SyncReturns, Returned
<1>4. parts' \in Int /\ 2 + parts' <= Len(Names)
  BY <1>1 DEF VolumeInv
<1> QED BY <1>1, <1>2, <1>3, <1>4, FirstName, Elsewhere DEF Reading

LEMMA DirFailed ==
  ASSUME VolInv, fs # NoFs, UNCHANGED <<medium, fs, touched>>, DiskInv',
         at \notin {"close", "fatal"}, DirFails
  PROVE  VolInv'
<1>1. CASE task = "find"
  BY <1>1, OpenFailed DEF DirFails
<1>2. CASE task # "find"
  <2>1. SyncReturns /\ UNCHANGED fil
    BY <1>2 DEF DirFails
  <2>2. FilesInv'
    BY <2>1, FilesStay DEF VolInv
  <2> QED BY <2>1, <2>2, SyncReturned
<1> QED BY <1>1, <1>2

LEMMA NoBlock == ASSUME NEW c, NEW b, NEW obj, NEW n PROVE BlockOK(c, b, obj, n, <<>>)
BY EmptySeq DEF BlockOK

\* At an entry of a directory, with nothing seen yet.
LEMMA Begins ==
  ASSUME VolumeInv, fs # NoFs, UNCHANGED <<medium, fs>>, DiskInv, DiskInv', FilesInv',
         NEW obj, IsDirectory(medium, fs.volbase, obj),
         at' = "entry", dj' = dir_sdi(obj), dirbuf' = <<>>, task' = "find",
         file' \in DOMAIN Names, level' \in Nat, parts' \in Int,
         2 + parts' <= Len(Names)
  PROVE  VolInv'
<1>1. DirAt(medium, fs.volbase, dj') /\ dj'.dptr = 0 /\ dj'.ord = NoSector
  BY DirStart
<1>2. WalkInv' /\ SyncInv'
  BY <1>1 DEF WalkInv, SyncInv
<1>3. dj'.ord # 0
  BY <1>1 DEF NoSector
<1>4. LongInv'
  BY <1>3 DEF LongInv, LongSeen
<1>5. BlockInv'
  BY NoBlock DEF BlockInv
<1>6. VolumeInv'
  <2>1. Mounted'
    BY DEF VolumeInv, Mounted
  <2>2. file' \in 1..(Len(Names) + 1)
    BY FirstName
  <2> QED BY <2>1, <2>2 DEF VolumeInv
<1> QED BY <1>2, <1>4, <1>5, <1>6 DEF VolInv

\* f_open begins at the root.
LEMMA Opens ==
  ASSUME VolumeInv, fs # NoFs, UNCHANGED <<medium, fs>>, DiskInv, DiskInv', FilesInv',
         NEW k \in DOMAIN Names, Open(k), parts' \in Int, 2 + parts' <= Len(Names)
  PROVE  VolInv'
<1>1. IsDirectory(medium, fs.volbase, Origin)
  BY MountedFacts, VolumeFacts
<1>2. /\ at' = "entry" /\ dj' = dir_sdi(Origin) /\ dirbuf' = <<>> /\ task' = "find"
      /\ file' = k /\ level' = 1
  BY DEF Open
<1> QED BY <1>1, <1>2, Begins

-----------------------------------------------------------------------------
(* f_mount                                                                 *)

\* At the next place to look for a volume.
LEMMA Boots ==
  ASSUME VolInv, DiskInv', UNCHANGED <<medium, fs, file, parts, fil, level, task, touched>>,
         fs = NoFs, at' = "boot", left' \in 0..4,
         left' > 0 => medium.sectors[0].kind = "mbr",
         file \in DOMAIN Names
  PROVE  VolInv'
<1>1. VolumeInv'
  BY DEF VolInv, VolumeInv, Before, Reading
<1>2. FilesInv'
  BY FilesStay DEF VolInv
<1>3. WalkInv' /\ LongInv' /\ BlockInv' /\ SyncInv'
  BY DEF WalkInv, LongInv, BlockInv, SyncInv, Reading
<1> QED BY <1>1, <1>2, <1>3 DEF VolInv

LEMMA MountStep ==
  ASSUME VolInv, Mount PROVE VolInv'
<1>1. at = "idle" /\ fs.fs_type = "none" /\ at' = "boot" /\ left' = 0
  BY DEF Mount
<1>2. fs = NoFs
  <2>1. fs.fs_type \notin {"FAT32", "exFAT"}
    BY <1>1
  <2> QED BY <2>1, MountedFacts DEF VolInv
<1>3. UNCHANGED <<medium, win, card, fs, file, parts, fil, level, task, touched>>
  BY DEF Mount, dirVars
<1>4. DiskInv'
  BY <1>3, DiskStays DEF VolInv
<1>5. file \in DOMAIN Names
  BY <1>1 DEF VolInv, VolumeInv
<1> QED BY <1>1, <1>2, <1>3, <1>4, <1>5, Boots

LEMMA CheckFsStep ==
  ASSUME VolInv, CheckFs PROVE VolInv'
<1> DEFINE bsect == Start(left)
           b == card[bsect]
<1>1. at = "boot" /\ UNCHANGED <<medium, file, task, level, fil, parts, touched>>
  BY DEF CheckFs, dirVars
<1>2. /\ VolumeInv /\ FilesInv /\ DiskInv /\ fs = NoFs /\ file \in DOMAIN Names
      /\ left \in 0..4 /\ (left > 0 => medium.sectors[0].kind = "mbr")
      /\ parts \in Int /\ 2 + parts <= Len(Names)
      /\ level \in Nat /\ task \in {"find", "load", "store"}
  BY <1>1 DEF VolInv, VolumeInv
<1>3. bsect \in DOMAIN medium.sectors /\ DiskOK(medium, touched, card, win)
      /\ NoSector \notin DOMAIN medium.sectors
  <2>1. Formatted(medium)
    BY <1>2, CardsAssumption DEF DiskInv
  <2>2. left = 0 \/ (left \in 1..4 /\ medium.sectors[0].kind = "mbr")
    BY <1>2
  <2>3. bsect \in DOMAIN medium.sectors
    BY <2>1, <2>2 DEF Formatted, Start
  <2>4. NoSector \notin DOMAIN medium.sectors
    BY <2>1 DEF Formatted, NoSector
  <2> QED BY <1>2, <2>3, <2>4 DEF DiskInv
<1>4. Kept(medium, touched, bsect, b)
  BY <1>3, Zenon DEF DiskOK
<1>5. FilesInv' \/ fs' # fs
  BY <1>1, <1>2, FilesStay
<1>6. ASSUME DiskInv', NextPartition, left > 0 \/ b.kind = "mbr"
      PROVE  VolInv'
  <2>1. CASE left < 4
    <3>1. medium.sectors[0].kind = "mbr"
      <4>1. CASE left > 0
        BY <1>2, <4>1
      <4>2. CASE left = 0 /\ b.kind = "mbr"
        <5>1. bsect = 0
          BY <4>2 DEF Start
        <5> QED BY <1>4, <4>2, <5>1 DEF Kept
      <4> QED BY <1>2, <1>6, <4>1, <4>2
    <3>2. at' = "boot" /\ left' = left + 1 /\ fs' = fs
      BY <1>6, <2>1 DEF NextPartition
    <3>3. left' \in 0..4
      BY <1>2, <2>1, <3>2
    <3> QED BY <1>1, <1>2, <1>6, <3>1, <3>2, <3>3, Boots
  <2>2. CASE ~(left < 4)
    <3>1. at' = "fatal" /\ fs' = fs
      BY <1>6, <2>2 DEF NextPartition, Fatal
    <3> QED BY <1>1, <1>2, <1>5, <1>6, <3>1, Elsewhere DEF Reading, Before
  <2> QED BY <2>1, <2>2
<1>7. ASSUME DiskInv', NoFat
      PROVE  VolInv'
  <2>1. at' = "fatal" /\ fs' = fs
    BY <1>7 DEF NoFat, Fatal
  <2> QED BY <1>1, <1>2, <1>5, <1>7, <2>1, Elsewhere DEF Reading, Before
<1>8. ASSUME DiskInv', Analysed(b, bsect)
      PROVE  VolInv'
  <2>1. CASE b.kind \in {"FAT32", "exFAT"} /\ Sound(b)
    <3>1. b = medium.sectors[bsect]
      BY <1>4, <2>1 DEF Kept
    <3>2. bsect \in Volumes(medium)
      BY <1>3, <2>1, <3>1, Zenon DEF Volumes
    <3>3. fs' = VolumeOf(medium, bsect) /\ at' \in {"bitmap", "fsinfo"}
      BY <1>8, <2>1, <3>1 DEF Analysed, VolumeOf
    <3>4. Mounted'
      BY <1>1, <1>2, <3>2, <3>3, VolumeFacts DEF Mounted, DiskInv
    <3>5. FilesInv'
      <4>1. \A k \in DOMAIN Names : ~fil[k].open /\ ~fil[k].modified
        BY <1>2 DEF FilesInv, FilOK
      <4>2. \A k \in DOMAIN Names : DOMAIN fil[k] = FilFields
              /\ fil[k].open \in BOOLEAN /\ fil[k].modified \in BOOLEAN
        BY <1>2 DEF FilesInv, FilOK
      <4>3. DOMAIN fil = DOMAIN Names
        BY <1>2 DEF FilesInv
      <4> QED BY <1>1, <4>1, <4>2, <4>3 DEF FilesInv, FilOK
    <3>6. WalkInv' /\ LongInv' /\ BlockInv' /\ SyncInv'
      BY <3>3 DEF WalkInv, LongInv, BlockInv, SyncInv, Reading
    <3>7. VolumeInv'
      BY <1>1, <1>2, <3>3, <3>4, FirstName DEF VolumeInv, Reading
    <3> QED BY <1>8, <3>5, <3>6, <3>7 DEF VolInv
  <2>2. CASE NoFat
    BY <1>7, <1>8, <2>2
  <2>3. CASE NextPartition /\ ~(left = 0 /\ b.kind # "mbr")
    BY <1>2, <1>6, <1>8, <2>3
  <2> QED BY <1>8, <2>1, <2>2, <2>3 DEF Analysed
<1>9. CASE left > 0 /\ bsect = 0
  <2>1. NextPartition /\ UNCHANGED <<win, card>>
    BY <1>9 DEF CheckFs, ioVars
  <2>2. DiskInv'
    BY <1>1, <1>2, <2>1, DiskStays
  <2> QED BY <1>6, <1>9, <2>1, <2>2
<1>10. CASE ~(left > 0 /\ bsect = 0)
  <2> DEFINE read == [sect |-> bsect, data |-> b, dirty |-> FALSE]
  <2>1. CASE Comes([ok |-> TRUE, win |-> read, card |-> card]) /\ Analysed(b, bsect)
    <3>1. win' = read /\ card' = card
      BY <2>1 DEF Comes
    <3>2. DiskOK(medium, touched, card, read)
      BY <1>3, <1>4 DEF DiskOK, WinFields
    <3>3. DiskInv'
      BY <1>1, <1>2, <3>1, <3>2, DiskStep
    <3> QED BY <1>8, <2>1, <3>3
  <2>2. CASE /\ Comes([ok |-> FALSE, win |-> Lost(bsect), card |-> card])
             /\ IF left = 0 THEN NoFat ELSE NextPartition
    <3>1. win' = Lost(bsect) /\ card' = card
      BY <2>2 DEF Comes
    <3>2. DiskOK(medium, touched, card, Lost(bsect))
      BY <1>3 DEF DiskOK, WinFields, Lost
    <3>3. DiskInv'
      BY <1>1, <1>2, <3>1, <3>2, DiskStep
    <3>4. left = 0 \/ left > 0
      BY <1>2
    <3> QED BY <1>6, <1>7, <2>2, <3>3, <3>4
  <2> QED BY <1>10, <2>1, <2>2 DEF CheckFs
<1> QED BY <1>9, <1>10

\* Past the mount.
LEMMA Past ==
  ASSUME VolInv, at \notin Before \/ fs.fs_type # "none"
  PROVE  /\ fs # NoFs /\ VolumeInv /\ FilesInv /\ DiskInv
         /\ parts \in Int /\ 2 + parts <= Len(Names)
         /\ level \in Nat /\ task \in {"find", "load", "store"}
         /\ at \notin {"close", "fatal"} => file \in DOMAIN Names
<1>1. fs # NoFs
  <2>1. CASE Mounted
    <3>1. fs.fs_type \in {"FAT32", "exFAT"}
      BY <2>1, VolumeFacts DEF VolInv, DiskInv, Mounted
    <3> QED BY <3>1 DEF NoFs
  <2>2. CASE fs = NoFs /\ at \in Before
    BY <2>2 DEF NoFs
  <2> QED BY <2>1, <2>2 DEF VolInv, VolumeInv
<1> QED BY <1>1 DEF VolInv, VolumeInv

LEMMA BitmapStep ==
  ASSUME VolInv, Bitmap PROVE VolInv'
<1>1. at = "bitmap"
      /\ UNCHANGED <<medium, fs, file, task, level, fil, parts, touched>>
  BY DEF Bitmap, dirVars
<1>2. /\ fs # NoFs /\ VolumeInv /\ FilesInv /\ DiskInv
      /\ parts \in Int /\ 2 + parts <= Len(Names)
      /\ level \in Nat /\ task \in {"find", "load", "store"} /\ file \in DOMAIN Names
  BY <1>1, Past DEF Before
<1>3. FilesInv'
  BY <1>1, <1>2, FilesStay
<1>4. DiskInv' /\ at' \in {"fatal", "bitmap", "bitmapChain"}
  <2>1. CASE left >= fs.csize
    <3>1. UNCHANGED <<win, card>> /\ at' = "fatal"
      BY <2>1 DEF Bitmap, Fatal, ioVars
    <3> QED BY <1>1, <1>2, <3>1, DiskStays
  <2>2. CASE ~(left >= fs.csize)
    <3>1. PICK m \in move_window(clst2sect(fs, fs.dirbase) + left) :
            Comes(m) /\ at' \in {"fatal", "bitmap", "bitmapChain"}
      BY <1>1, <2>2 DEF Bitmap, Fatal
    <3>2. DiskOK(medium, touched, card', win')
      BY <1>2, <3>1, MoveWindow DEF Comes
    <3> QED BY <1>1, <1>2, <3>1, <3>2, DiskStep
  <2> QED BY <2>1, <2>2
<1> QED BY <1>1, <1>2, <1>3, <1>4, Elsewhere DEF Reading, Before

LEMMA BitmapChainStep ==
  ASSUME VolInv, BitmapChain PROVE VolInv'
<1>1. at = "bitmapChain" /\ UNCHANGED <<medium, fs, fil, parts, touched>>
  BY DEF BitmapChain
<1>2. /\ fs # NoFs /\ VolumeInv /\ FilesInv /\ DiskInv
      /\ parts \in Int /\ 2 + parts <= Len(Names)
      /\ level \in Nat /\ task \in {"find", "load", "store"} /\ file \in DOMAIN Names
  BY <1>1, Past DEF Before
<1>3. FilesInv'
  BY <1>1, <1>2, FilesStay
<1>4. PICK m \in move_window(FatSector(left)) :
        /\ Comes(m)
        /\ \/ Open(1)
           \/ at' \in {"fatal", "bitmapChain"} /\ UNCHANGED <<file, task, level>>
  BY <1>1 DEF BitmapChain, Fatal, dirVars
<1>5. DiskInv'
  <2>1. DiskOK(medium, touched, card', win')
    BY <1>2, <1>4, MoveWindow DEF Comes
  <2> QED BY <1>1, <1>2, <2>1, DiskStep
<1>6. CASE Open(1)
  BY <1>1, <1>2, <1>3, <1>5, <1>6, FirstName, Opens
<1>7. CASE at' \in {"fatal", "bitmapChain"} /\ UNCHANGED <<file, task, level>>
  BY <1>1, <1>2, <1>3, <1>5, <1>7, Elsewhere DEF Reading, Before
<1> QED BY <1>4, <1>6, <1>7

LEMMA FsInfoStep ==
  ASSUME VolInv, FsInfo PROVE VolInv'
<1>1. at = "fsinfo" /\ UNCHANGED <<medium, fs, fil, parts, touched>> /\ Open(1)
  BY DEF FsInfo
<1>2. /\ fs # NoFs /\ VolumeInv /\ FilesInv /\ DiskInv
      /\ parts \in Int /\ 2 + parts <= Len(Names)
  BY <1>1, Past DEF Before
<1>3. FilesInv'
  BY <1>1, <1>2, FilesStay
<1>4. DiskInv'
  <2>1. PICK m \in move_window(fs.volbase + 1) : Comes(m)
    BY DEF FsInfo
  <2>2. DiskOK(medium, touched, card', win')
    BY <1>2, <2>1, MoveWindow DEF Comes
  <2> QED BY <1>1, <1>2, <2>2, DiskStep
<1> QED BY <1>1, <1>2, <1>3, <1>4, FirstName, Opens

-----------------------------------------------------------------------------
(* Requests and the end                                                    *)

LEMMA WriteStep ==
  ASSUME VolInv, Write PROVE VolInv'
<1>1. /\ at = "idle" /\ fs.fs_type # "none" /\ at' = "sync"
      /\ UNCHANGED <<medium, win, card, fs, task, level, parts>>
  BY DEF Write, ioVars, dirVars
<1>2. /\ fs # NoFs /\ VolumeInv /\ FilesInv /\ DiskInv
      /\ parts \in Int /\ 2 + parts <= Len(Names)
      /\ level \in Nat /\ task \in {"find", "load", "store"}
  BY <1>1, Past
<1>3. PICK k, size :
        /\ k \in DOMAIN Names
        /\ fil[k].open /\ touched' = touched \cup {k} /\ file' = k
        /\ fil' = [fil EXCEPT ![k].modified = TRUE, ![k].size = size]
  BY DEF Write
<1> DEFINE f == [[fil[k] EXCEPT !.modified = TRUE] EXCEPT !.size = size]
<1>4. DOMAIN fil[k] = FilFields /\ DOMAIN fil = DOMAIN Names
  BY <1>2, <1>3 DEF FilesInv, FilOK
<1>5. fil' = [fil EXCEPT ![k] = f]
  BY <1>3, <1>4
<1>6. /\ DOMAIN f = FilFields /\ f.open = fil[k].open /\ f.modified = TRUE
      /\ f.sclust = fil[k].sclust /\ f.dir_sect = fil[k].dir_sect
      /\ f.dir_ptr = fil[k].dir_ptr /\ f.container = fil[k].container
      /\ f.c_ofs = fil[k].c_ofs /\ f.stat = fil[k].stat
  BY <1>4 DEF FilFields
<1> HIDE DEF f
<1>7. FilOK(medium, fs.volbase, fil[k], k) /\ fil[k].open \in BOOLEAN
  BY <1>2, <1>3 DEF FilesInv, FilOK
<1>8. FilOK(medium, fs.volbase, f, k)
  <2>1. f.open \in BOOLEAN /\ f.modified \in BOOLEAN /\ (f.open => fil[k].open)
    BY <1>6, <1>7
  <2> QED BY <1>6, <1>7, <2>1, SameEntry
<1>9. FilesInv'
  <2>1. f.open /\ k \in touched' /\ touched \subseteq touched'
    BY <1>3, <1>6
  <2> QED BY <1>1, <1>2, <1>3, <1>5, <1>8, <2>1, FileChanges
<1>10. SyncInv' /\ WalkInv' /\ LongInv' /\ BlockInv'
  <2>1. fil'[k].open /\ k \in touched'
    BY <1>3, <1>4, <1>5, <1>6
  <2> QED BY <1>1, <1>3, <2>1 DEF SyncInv, WalkInv, LongInv, BlockInv, Reading
<1>11. VolumeInv'
  BY <1>1, <1>2, <1>3, FirstName DEF VolumeInv, Mounted, Before, Reading
<1>12. DiskInv'
  <2>1. \A s, i : MayChange(medium, touched, s, i) => MayChange(medium, touched', s, i)
    BY <1>3, Zenon DEF MayChange
  <2>2. \A s, x : Kept(medium, touched, s, x) => Kept(medium, touched', s, x)
    BY <2>1, Zenon DEF Kept
  <2>3. DiskOK(medium, touched, card, win)
    BY <1>2 DEF DiskInv
  <2>4. DiskOK(medium, touched', card, win)
    BY <2>2, <2>3 DEF DiskOK
  <2> QED BY <1>1, <1>2, <2>4 DEF DiskInv
<1> QED BY <1>9, <1>10, <1>11, <1>12 DEF VolInv

LEMMA SyncFsStep ==
  ASSUME VolInv, SyncFs PROVE VolInv'
<1>1. /\ at = "syncFs" /\ UNCHANGED <<medium, fs, touched>> /\ SyncReturns
      /\ fil' = [fil EXCEPT ![file].modified = FALSE]
  BY DEF SyncFs
<1>2. fs # NoFs /\ FilesInv /\ DiskInv /\ file \in DOMAIN Names
  BY <1>1, Past DEF Before
<1> DEFINE f == [fil[file] EXCEPT !.modified = FALSE]
<1>3. DOMAIN fil[file] = FilFields /\ DOMAIN fil = DOMAIN Names
  BY <1>2 DEF FilesInv, FilOK
<1>4. fil' = [fil EXCEPT ![file] = f]
  BY <1>1, <1>3
<1>5. /\ DOMAIN f = FilFields /\ f.open = fil[file].open /\ f.modified = FALSE
      /\ f.sclust = fil[file].sclust /\ f.dir_sect = fil[file].dir_sect
      /\ f.dir_ptr = fil[file].dir_ptr /\ f.container = fil[file].container
      /\ f.c_ofs = fil[file].c_ofs /\ f.stat = fil[file].stat
  BY <1>3 DEF FilFields
<1> HIDE DEF f
<1>6. FilOK(medium, fs.volbase, fil[file], file) /\ fil[file].open \in BOOLEAN
  BY <1>2 DEF FilesInv, FilOK
<1>7. FilOK(medium, fs.volbase, f, file)
  <2>1. f.open \in BOOLEAN /\ f.modified \in BOOLEAN /\ (f.open => fil[file].open)
    BY <1>5, <1>6
  <2> QED BY <1>5, <1>6, <2>1, SameEntry
<1>8. FilesInv'
  BY <1>1, <1>2, <1>4, <1>5, <1>7, FileChanges
<1>9. DiskInv'
  <2>1. PICK m \in sync_window : Comes(m)
    BY DEF SyncFs
  <2>2. DiskOK(medium, touched, card', win')
    BY <1>2, <2>1, SyncWindow DEF Comes
  <2> QED BY <1>1, <1>2, <2>2, DiskStep
<1> QED BY <1>1, <1>2, <1>8, <1>9, SyncReturned

LEMMA FinalizeStep ==
  ASSUME VolInv, Finalize PROVE VolInv'
<1>1. /\ fs.fs_type # "none" /\ at' = "close" /\ file' = 1
      /\ UNCHANGED <<medium, win, card, fs, task, level, fil, parts, touched>>
  BY DEF Finalize, ioVars, dirVars
<1>2. /\ fs # NoFs /\ VolumeInv /\ FilesInv /\ DiskInv
      /\ parts \in Int /\ 2 + parts <= Len(Names)
      /\ level \in Nat /\ task \in {"find", "load", "store"}
  BY <1>1, Past
<1>3. FilesInv' /\ DiskInv'
  BY <1>1, <1>2, FilesStay, DiskStays
<1> QED BY <1>1, <1>2, <1>3, FirstName, Elsewhere DEF Reading

LEMMA CloseStep ==
  ASSUME VolInv, Close PROVE VolInv'
<1>1. at = "close" /\ UNCHANGED <<medium, win, card, task, level, parts, touched>>
  BY DEF Close, ioVars, dirVars
<1>2. /\ fs # NoFs /\ VolumeInv /\ FilesInv /\ DiskInv
      /\ parts \in Int /\ 2 + parts <= Len(Names)
      /\ level \in Nat /\ task \in {"find", "load", "store"}
      /\ file \in 1..(Len(Names) + 1)
  BY <1>1, Past DEF Before, VolumeInv
<1>3. DiskInv'
  BY <1>1, <1>2, DiskStays
<1>4. CASE file <= 2 + parts
  <2>1. UNCHANGED <<fs, fil>> /\ file \in DOMAIN Names
    BY <1>2, <1>4, FirstName DEF Close
  <2>2. FilesInv'
    BY <1>1, <1>2, <2>1, FilesStay
  <2>3. CASE fil[file].modified
    <3>1. at' = "sync" /\ file' = file
      BY <1>4, <2>3 DEF Close
    <3>2. fil[file].open /\ file \in touched
      BY <1>2, <2>1, <2>3 DEF FilesInv
    <3>3. SyncInv' /\ WalkInv' /\ LongInv' /\ BlockInv'
      BY <1>1, <2>1, <3>1, <3>2 DEF SyncInv, WalkInv, LongInv, BlockInv, Reading
    <3>4. VolumeInv'
      BY <1>1, <1>2, <2>1, <3>1 DEF VolumeInv, Mounted, Before, Reading
    <3> QED BY <1>3, <2>2, <3>3, <3>4 DEF VolInv
  <2>4. CASE ~fil[file].modified
    <3>1. at' = "close" /\ file' = file + 1
      BY <1>1, <1>4, <2>4 DEF Close
    <3>2. file' \in 1..(Len(Names) + 1)
      BY <2>1, <3>1, FirstName
    <3> QED BY <1>1, <1>2, <1>3, <2>1, <2>2, <3>1, <3>2, Elsewhere DEF Reading
  <2> QED BY <2>3, <2>4
<1>5. CASE ~(file <= 2 + parts)
  <2>1. /\ fs' = NoFs /\ fil' = [k \in DOMAIN Names |-> Closed]
        /\ at' = "idle" /\ file' = 1
    BY <1>5 DEF Close
  <2>2. FilesInv'
    BY <2>1, FilesClose
  <2>3. SyncInv' /\ WalkInv' /\ LongInv' /\ BlockInv'
    BY <2>1 DEF SyncInv, WalkInv, LongInv, BlockInv, Reading
  <2>4. VolumeInv'
    BY <1>1, <1>2, <2>1, FirstName DEF VolumeInv, Before, Reading
  <2> QED BY <1>3, <2>2, <2>3, <2>4 DEF VolInv
<1> QED BY <1>4, <1>5

LEMMA PowerLossStep ==
  ASSUME VolInv, PowerLoss PROVE VolInv'
<1>1. /\ win' = Lost(NoSector) /\ fs' = NoFs /\ at' = "idle" /\ task' = "find"
      /\ file' = 1 /\ level' = 1 /\ fil' = [k \in DOMAIN Names |-> Closed]
      /\ parts' = 0 /\ UNCHANGED <<medium, card, touched>>
  BY DEF PowerLoss
<1>2. DiskInv /\ medium \in Cards
  BY DEF VolInv, DiskInv
<1>3. NoSector \notin DOMAIN medium.sectors
  BY <1>2, CardsAssumption DEF Formatted, NoSector
<1>4. DiskOK(medium, touched, card, Lost(NoSector))
  BY <1>2, <1>3 DEF DiskInv, DiskOK, Lost, WinFields
<1>5. DiskInv'
  BY <1>1, <1>2, <1>4, DiskStep
<1>6. FilesInv'
  BY <1>1, FilesClose
<1>7. SyncInv' /\ WalkInv' /\ LongInv' /\ BlockInv'
  BY <1>1 DEF SyncInv, WalkInv, LongInv, BlockInv, Reading
<1>8. VolumeInv'
  BY <1>1, FirstName DEF VolumeInv, Before, Reading
<1> QED BY <1>5, <1>6, <1>7, <1>8 DEF VolInv

-----------------------------------------------------------------------------
(* f_expand_cltbl                                                          *)

\* Where a FIL stands in its chain and its table are its own business.
LEMMA FileMoves ==
  ASSUME FilesInv, UNCHANGED <<medium, fs, touched>>, NEW k \in DOMAIN Names,
         NEW clst, NEW tbl,
         \/ fil' = [fil EXCEPT ![k].clust = clst]
         \/ fil' = [fil EXCEPT ![k].cltbl = tbl]
         \/ fil' = [fil EXCEPT ![k].cltbl = tbl, ![k].clust = clst]
  PROVE  FilesInv'
<1>1. /\ DOMAIN fil[k] = FilFields /\ DOMAIN fil = DOMAIN Names
      /\ FilOK(medium, fs.volbase, fil[k], k)
      /\ fil[k].open \in BOOLEAN /\ fil[k].modified \in BOOLEAN
      /\ (fil[k].open => fs # NoFs)
      /\ (fil[k].modified => fil[k].open /\ k \in touched)
  BY DEF FilesInv, FilOK
<1>2. \E g : /\ fil' = [fil EXCEPT ![k] = g]
             /\ \/ g = [fil[k] EXCEPT !.clust = clst]
                \/ g = [fil[k] EXCEPT !.cltbl = tbl]
                \/ g = [[fil[k] EXCEPT !.cltbl = tbl] EXCEPT !.clust = clst]
  <2>1. CASE fil' = [fil EXCEPT ![k].clust = clst]
    BY <2>1
  <2>2. CASE fil' = [fil EXCEPT ![k].cltbl = tbl]
    BY <2>2
  <2>3. CASE fil' = [fil EXCEPT ![k].cltbl = tbl, ![k].clust = clst]
    <3> DEFINE g == [[fil[k] EXCEPT !.cltbl = tbl] EXCEPT !.clust = clst]
    <3>1. fil' = [fil EXCEPT ![k] = g]
      BY <1>1, <2>3
    <3> QED BY <3>1
  <2> QED BY <2>1, <2>2, <2>3
<1>3. PICK g : /\ fil' = [fil EXCEPT ![k] = g]
               /\ \/ g = [fil[k] EXCEPT !.clust = clst]
                  \/ g = [fil[k] EXCEPT !.cltbl = tbl]
                  \/ g = [[fil[k] EXCEPT !.cltbl = tbl] EXCEPT !.clust = clst]
  BY <1>2
<1>4. /\ DOMAIN g = FilFields /\ g.open = fil[k].open
      /\ g.modified = fil[k].modified
      /\ g.sclust = fil[k].sclust /\ g.dir_sect = fil[k].dir_sect
      /\ g.dir_ptr = fil[k].dir_ptr /\ g.container = fil[k].container
      /\ g.c_ofs = fil[k].c_ofs /\ g.stat = fil[k].stat
  BY <1>1, <1>3 DEF FilFields
<1>5. /\ g.open \in BOOLEAN /\ g.modified \in BOOLEAN /\ (g.open => fil[k].open)
      /\ (g.open => fs # NoFs) /\ (g.modified => g.open /\ k \in touched)
  BY <1>1, <1>4
<1>6. FilOK(medium, fs.volbase, g, k)
  BY <1>1, <1>4, <1>5, SameEntry
<1>7. touched \subseteq touched'
  OBVIOUS
<1> QED BY <1>3, <1>5, <1>6, <1>7, FileChanges

LEMMA ExpandStep ==
  ASSUME VolInv, Expand PROVE VolInv'
<1>1. at = "expand" /\ UNCHANGED <<medium, fs, file, task, level, parts, touched>>
  BY DEF Expand, dirVars
<1>2. /\ fs # NoFs /\ VolumeInv /\ FilesInv /\ DiskInv
      /\ parts \in Int /\ 2 + parts <= Len(Names)
      /\ level \in Nat /\ task \in {"find", "load", "store"} /\ file \in DOMAIN Names
  BY <1>1, Past DEF Before
<1>3. DiskInv' /\ FilesInv' /\ at' \in {"fatal", "expand", "linkmap"}
  <2>1. CASE left <= fs.csize
    <3>1. /\ UNCHANGED <<win, card>> /\ at' = "linkmap"
          /\ fil' = [fil EXCEPT ![file].clust = fil[file].sclust]
      BY <2>1 DEF Expand, ioVars
    <3> QED BY <1>1, <1>2, <3>1, DiskStays, FileMoves
  <2>2. CASE ~(left <= fs.csize)
    <3>1. PICK g \in get_fat(fil[file], fil[file].clust) :
            /\ Comes(g)
            /\ \/ fil' = [fil EXCEPT ![file].clust = g.val] /\ at' = "expand"
               \/ fil' = fil /\ at' = "fatal"
      BY <1>1, <2>2 DEF Expand, Fatal
    <3>2. DiskOK(medium, touched, card', win')
      BY <1>2, <3>1, GetFatDisk DEF Comes
    <3>3. DiskInv'
      BY <1>1, <1>2, <3>2, DiskStep
    <3>4. FilesInv'
      <4>1. CASE fil' = [fil EXCEPT ![file].clust = g.val]
        BY <1>1, <1>2, <4>1, FileMoves
      <4>2. CASE fil' = fil
        BY <1>1, <1>2, <4>2, FilesStay
      <4> QED BY <3>1, <4>1, <4>2
    <3> QED BY <3>1, <3>3, <3>4
  <2> QED BY <2>1, <2>2
<1> QED BY <1>1, <1>2, <1>3, Elsewhere DEF Reading, Before

LEMMA CreateLinkmapStep ==
  ASSUME VolInv, CreateLinkmap PROVE VolInv'
<1>1. at = "linkmap" /\ UNCHANGED <<medium, fs, touched>>
  BY DEF CreateLinkmap
<1>2. /\ fs # NoFs /\ VolumeInv /\ FilesInv /\ DiskInv
      /\ parts \in Int /\ 2 + parts <= Len(Names)
      /\ level \in Nat /\ task \in {"find", "load", "store"} /\ file \in DOMAIN Names
  BY <1>1, Past DEF Before
<1> DEFINE tbl == Extend(fil[file].cltbl, fil[file].clust)
<1> HIDE DEF tbl
<1>3. /\ \/ UNCHANGED ioVars
         \/ \E g \in get_fat(fil[file], fil[file].clust) : Comes(g)
      /\ \/ /\ \E clst : fil' = [fil EXCEPT ![file].cltbl = tbl,
                                           ![file].clust = clst]
            /\ UNCHANGED <<at, file, task, level, parts>>
         \/ (\E t : fil' = [fil EXCEPT ![file].cltbl = t]) /\ NextFile
         \/ at' = "fatal" /\ UNCHANGED <<file, task, level, fil, parts>>
  BY DEF CreateLinkmap, Mapped, Unmapped, Fatal, dirVars, tbl
<1>4. DiskInv'
  <2>1. CASE UNCHANGED ioVars
    BY <1>1, <1>2, <2>1, DiskStays DEF ioVars
  <2>2. CASE \E g \in get_fat(fil[file], fil[file].clust) : Comes(g)
    <3>1. DiskOK(medium, touched, card', win')
      BY <1>2, <2>2, GetFatDisk DEF Comes
    <3> QED BY <1>1, <1>2, <3>1, DiskStep
  <2> QED BY <1>3, <2>1, <2>2
<1>5. CASE /\ \E clst : fil' = [fil EXCEPT ![file].cltbl = tbl,
                                          ![file].clust = clst]
           /\ UNCHANGED <<at, file, task, level, parts>>
  <2>1. FilesInv'
    BY <1>1, <1>2, <1>5, FileMoves
  <2> QED BY <1>1, <1>2, <1>4, <1>5, <2>1, Elsewhere DEF Reading, Before
<1>6. CASE (\E t : fil' = [fil EXCEPT ![file].cltbl = t]) /\ NextFile
  <2>1. FilesInv'
    BY <1>1, <1>2, <1>6, FileMoves
  <2>2. CASE file = Len(Names)
    <3>1. /\ at' = "idle" /\ parts' = file - 2 /\ file' = 1
          /\ level' = 1 /\ task' = "find"
      BY <1>6, <2>2 DEF NextFile, Returned
    <3>2. parts' \in Int /\ 2 + parts' <= Len(Names)
      BY <2>2, <3>1, FirstName
    <3> QED BY <1>1, <1>2, <1>4, <2>1, <3>1, <3>2, FirstName, Elsewhere DEF Reading, Before
  <2>3. CASE file # Len(Names)
    <3>1. Open(file + 1) /\ parts' = parts
      BY <1>6, <2>3 DEF NextFile
    <3>2. file + 1 \in DOMAIN Names
      BY <1>2, <2>3, FirstName
    <3> QED BY <1>1, <1>2, <1>4, <2>1, <3>1, <3>2, Opens
  <2> QED BY <2>2, <2>3
<1>7. CASE at' = "fatal" /\ UNCHANGED <<file, task, level, fil, parts>>
  <2>1. FilesInv'
    BY <1>1, <1>2, <1>7, FilesStay
  <2> QED BY <1>1, <1>2, <1>4, <1>7, <2>1, Elsewhere DEF Reading, Before
<1> QED BY <1>3, <1>5, <1>6, <1>7

-----------------------------------------------------------------------------
(* Directories                                                             *)

\* Within a call that reads a directory.
LEMMA Inside ==
  ASSUME VolInv, at \in Reading, at' \in Reading,
         UNCHANGED <<medium, fs, file, task, fil, parts, touched>>, DiskInv',
         level' \in Nat, at' = "seek" => task # "find",
         WalkInv', LongInv', BlockInv'
  PROVE  VolInv'
<1>1. at \notin Before
  BY DEF Before, Reading
<1>2. fs # NoFs /\ file \in DOMAIN Names /\ VolumeInv /\ FilesInv /\ Mounted
  BY <1>1, Past DEF VolumeInv, Reading, VolInv
<1>3. FilesInv'
  BY <1>2, FilesStay
<1>4. SyncInv'
  BY DEF VolInv, SyncInv, Reading
<1>5. VolumeInv'
  <2>1. Mounted'
    BY <1>2 DEF Mounted
  <2>2. at' \notin {"boot", "close", "fatal"}
    BY DEF Reading
  <2> QED BY <1>2, <2>1, <2>2, FirstName DEF VolumeInv
<1> QED BY <1>3, <1>4, <1>5 DEF VolInv

LEMMA SyncExfatStep ==
  ASSUME VolInv, SyncExfat PROVE VolInv'
<1>1. /\ at = "sync" /\ fs.fs_type = "exFAT" /\ at' = "seek" /\ task' = "load"
      /\ dj' = dir_sdi(fil[file].container) /\ blk_ofs' = fil[file].c_ofs
      /\ dirbuf' = <<>>
      /\ UNCHANGED <<medium, card, win, fs, file, level, fil, parts, touched>>
  BY DEF SyncExfat, ioVars
<1>2. /\ fs # NoFs /\ VolumeInv /\ FilesInv /\ DiskInv /\ file \in DOMAIN Names
      /\ medium \in Cards /\ fs = VolumeOf(medium, fs.volbase) /\ Mounted
  BY <1>1, Past, MountedFacts DEF Before
<1>3. fil[file].open /\ file \in touched
  BY <1>1 DEF VolInv, SyncInv
<1> DEFINE obj == fil[file].container
<1>4. /\ IsObject(medium, fs.volbase, obj)
      /\ NamedBlock(medium, fs.volbase, obj, fil[file].c_ofs, file)
  <2>1. FileOK(medium, fs.volbase, fil[file], file)
    BY <1>2, <1>3 DEF FilesInv, FilOK
  <2> QED BY <1>1, <1>2, <2>1 DEF FileOK
<1>5. /\ DirAt(medium, fs.volbase, dir_sdi(obj)) /\ dir_sdi(obj).dptr = 0
      /\ Object(dir_sdi(obj)) = obj
  BY <1>2, <1>4, DirStart DEF IsObject
<1>6. WalkInv'
  <2>1. 0 % PerCluster(fs) = 0
    BY <1>2, MountedFacts
  <2>2. blk_ofs' \in Nat /\ 0 <= blk_ofs'
    BY <1>1, <1>4 DEF NamedBlock
  <2> QED BY <1>1, <1>5, <2>1, <2>2 DEF WalkInv
<1>7. LongInv'
  BY <1>1 DEF LongInv
<1>8. BlockInv'
  BY <1>1, <1>5, NoBlock DEF BlockInv
<1>9. FilesInv' /\ DiskInv'
  BY <1>1, <1>2, FilesStay, DiskStays
<1>10. SyncInv'
  BY <1>1, <1>3 DEF SyncInv
<1>11. VolumeInv'
  <2>1. Mounted'
    BY <1>1, <1>2 DEF Mounted
  <2> QED BY <1>1, <1>2, <2>1 DEF VolumeInv
<1> QED BY <1>6, <1>7, <1>8, <1>9, <1>10, <1>11 DEF VolInv

\* What is known while a directory is read.
LEMMA WalkFacts ==
  ASSUME VolInv, at \in Reading
  PROVE  LET ch == ChainOf(medium, fs.volbase, Object(dj))
         IN /\ fs # NoFs /\ VolumeInv /\ FilesInv /\ DiskInv
            /\ file \in DOMAIN Names /\ level \in Nat
            /\ task \in {"find", "load", "store"}
            /\ parts \in Int /\ 2 + parts <= Len(Names)
            /\ medium \in Cards /\ fs.volbase \in Volumes(medium)
            /\ fs = VolumeOf(medium, fs.volbase) /\ Mounted
            /\ fs.fs_type \in {"FAT32", "exFAT"}
            /\ PerCluster(fs) \in Nat \ {0}
            /\ DirAt(medium, fs.volbase, dj) /\ dj.dptr \in Nat
            /\ IsObject(medium, fs.volbase, Object(dj))
            /\ ch \in Seq(Nat) /\ IsChain(medium, fs, ch, dj)
            /\ (dj.sclust = 0 => dj.stat = 0)
            /\ dj.dptr \div PerCluster(fs) + 1 \in 1..Len(ch)
            /\ dj.clust = ch[dj.dptr \div PerCluster(fs) + 1]
<1> DEFINE b  == fs.volbase
           ch == ChainOf(medium, b, Object(dj))
<1>1. at \notin Before /\ at \notin {"close", "fatal"}
  BY DEF Before, Reading
<1>2. /\ fs # NoFs /\ VolumeInv /\ FilesInv /\ DiskInv
      /\ file \in DOMAIN Names /\ level \in Nat
      /\ task \in {"find", "load", "store"}
      /\ parts \in Int /\ 2 + parts <= Len(Names)
  BY <1>1, Past
<1>3. /\ medium \in Cards /\ b \in Volumes(medium) /\ fs = VolumeOf(medium, b)
      /\ Mounted /\ fs.fs_type \in {"FAT32", "exFAT"}
      /\ PerCluster(fs) \in Nat \ {0}
  BY <1>2, MountedFacts
<1>4. DirAt(medium, b, dj)
  BY DEF VolInv, WalkInv
<1>5. /\ IsObject(medium, b, Object(dj)) /\ dj.dptr \in Nat
      /\ dj.dptr \div PerCluster(fs) + 1 \in 1..Len(ch)
      /\ dj.clust = ch[dj.dptr \div PerCluster(fs) + 1]
  BY <1>3, <1>4 DEF DirAt
<1>6. /\ Object(dj).sclust = dj.sclust /\ Object(dj).size = dj.size
      /\ Object(dj).stat = dj.stat
  BY DEF Object
<1>7. ch \in Seq(Nat) /\ IsChain(medium, fs, ch, Object(dj))
  BY <1>3, <1>5, ChainFacts DEF IsObject
<1>8. IsChain(medium, fs, ch, dj)
  <2> HIDE DEF ch
  <2>1. CASE fs.fs_type = "exFAT" /\ dj.sclust # 0 /\ dj.stat = 2
    BY <1>6, <1>7, <2>1 DEF IsChain
  <2>2. CASE ~(fs.fs_type = "exFAT" /\ dj.sclust # 0 /\ dj.stat = 2)
    BY <1>6, <1>7, <2>2, Zenon DEF IsChain
  <2> QED BY <2>1, <2>2
<1>9. dj.sclust = 0 => dj.stat = 0
  BY <1>5, <1>6 DEF IsObject
<1> QED BY <1>2, <1>3, <1>4, <1>5, <1>7, <1>8, <1>9

LEMMA NextClusterStep ==
  ASSUME VolInv, NextCluster PROVE VolInv'
<1> DEFINE b  == fs.volbase
           ch == ChainOf(medium, b, Object(dj))
           i  == dj.dptr \div PerCluster(fs) + 1
<1>1. at = "next" /\ at \in Reading /\ UNCHANGED <<medium, fs, touched>>
  BY DEF NextCluster, Reading
<1>2. PICK g \in get_fat(dj, dj.clust) :
        /\ Comes(g)
        /\ IF IsCluster(g)
           THEN /\ at' = "entry"
                /\ dj' = [dj EXCEPT !.dptr = @ + 1, !.clust = g.val,
                                    !.sect = clst2sect(fs, g.val)]
                /\ UNCHANGED <<file, task, level, dirbuf, blk_ofs, left, fil, parts>>
           ELSE DirFails
  BY Zenon DEF NextCluster
<1>3. /\ fs # NoFs /\ VolumeInv /\ FilesInv /\ DiskInv
      /\ level \in Nat /\ medium \in Cards /\ b \in Volumes(medium)
      /\ fs = VolumeOf(medium, b) /\ PerCluster(fs) \in Nat \ {0}
      /\ DirAt(medium, b, dj) /\ dj.dptr \in Nat
      /\ ch \in Seq(Nat) /\ IsChain(medium, fs, ch, dj)
      /\ (dj.sclust = 0 => dj.stat = 0) /\ i \in 1..Len(ch) /\ dj.clust = ch[i]
      /\ (dj.dptr + 1) % PerCluster(fs) = 0
  BY <1>1, WalkFacts DEF VolInv, WalkInv
<1>4. DiskInv'
  <2>1. DiskOK(medium, touched, card', win')
    BY <1>2, <1>3, GetFatDisk DEF Comes
  <2> QED BY <1>1, <1>3, <2>1, DiskStep
<1>5. CASE IsCluster(g)
  <2>1. i + 1 \in 1..Len(ch) /\ g.val = ch[i + 1]
    <3> HIDE DEF ch, i
    <3> QED BY <1>2, <1>3, <1>5, GetFat
  <2> DEFINE n == dj.dptr + 1
             e == [dj EXCEPT !.dptr = n, !.clust = g.val,
                             !.sect = clst2sect(fs, g.val)]
  <2>2. n \in Nat /\ n % PerCluster(fs) = 0 /\ n \div PerCluster(fs) + 1 = i + 1
    <3> DEFINE per == PerCluster(fs)
    <3>1. per \in Nat \ {0}
      BY <1>3
    <3> HIDE DEF per
    <3>2. (dj.dptr + 1) % per = 0
      BY <1>3 DEF per
    <3>3. (dj.dptr + 1) \div per = dj.dptr \div per + 1
      BY <1>3, <3>1, <3>2, NextPiece
    <3> QED BY <1>3, <3>2, <3>3 DEF per
  <2>3. /\ DirAt(medium, b, e) /\ Object(e) = Object(dj) /\ e.dptr = n
        /\ e.ord = dj.ord /\ e.sum = dj.sum
    <3> DEFINE clst == g.val
    <3>1. /\ DOMAIN e = DjFields /\ Object(e) = Object(dj) /\ e.dptr = n
          /\ e.clust = clst /\ e.sect = clst2sect(fs, clst)
          /\ e.ord = dj.ord /\ e.sum = dj.sum
      BY <1>3 DEF DirAt, DjFields, Object
    <3> DEFINE j == i + 1
    <3>3. j \in 1..Len(ch) /\ clst = ch[j] /\ j = n \div PerCluster(fs) + 1
      BY <2>1, <2>2
    <3> HIDE DEF i, n, e, clst, j
    <3> QED BY <1>3, <2>2, <3>1, <3>3, DirCluster
  <2>4. /\ at' = "entry" /\ dj' = e
        /\ UNCHANGED <<file, task, level, dirbuf, blk_ofs, left, fil, parts>>
    BY <1>2, <1>5
  <2> HIDE DEF e
  <2>5. WalkInv'
    BY <1>1, <2>3, <2>4 DEF WalkInv
  <2>6. Here = n /\ Here' = n
    BY <1>1, <2>3, <2>4 DEF Here
  <2>7. LongInv'
    BY <1>1, <2>3, <2>4, <2>6 DEF VolInv, LongInv, LongSeen, Segment, SegmentOf
  <2>8. BlockInv'
    BY <1>1, <2>3, <2>4, <2>6 DEF VolInv, BlockInv
  <2> QED BY <1>1, <1>3, <1>4, <2>4, <2>5, <2>7, <2>8, Inside DEF Reading
<1>6. CASE ~IsCluster(g)
  BY <1>1, <1>2, <1>3, <1>4, <1>6, DirFailed
<1> QED BY <1>5, <1>6

LEMMA SeekBlockStep ==
  ASSUME VolInv, SeekBlock PROVE VolInv'
<1> DEFINE b  == fs.volbase
           ch == ChainOf(medium, b, Object(dj))
           i  == dj.dptr \div PerCluster(fs) + 1
           per == PerCluster(fs)
           rest == blk_ofs - dj.dptr
<1>1. at = "seek" /\ at \in Reading /\ UNCHANGED <<medium, fs, touched>>
  BY Zenon DEF SeekBlock, Reading
<1>2. /\ fs # NoFs /\ VolumeInv /\ FilesInv /\ DiskInv
      /\ level \in Nat /\ medium \in Cards /\ b \in Volumes(medium)
      /\ fs = VolumeOf(medium, b) /\ per \in Nat \ {0}
      /\ DirAt(medium, b, dj) /\ dj.dptr \in Nat
      /\ ch \in Seq(Nat) /\ IsChain(medium, fs, ch, dj)
      /\ (dj.sclust = 0 => dj.stat = 0) /\ i \in 1..Len(ch) /\ dj.clust = ch[i]
      /\ dj.dptr % per = 0 /\ blk_ofs \in Nat /\ dj.dptr <= blk_ofs
      /\ task # "find" /\ fs.fs_type = "exFAT"
  BY <1>1, WalkFacts DEF VolInv, WalkInv, VolumeInv
<1>3. /\ BlockOK(medium, b, Object(dj), blk_ofs, dirbuf)
      /\ Object(dj) = fil[file].container /\ blk_ofs = fil[file].c_ofs
      /\ task = "load" => dirbuf = <<>>
      /\ task = "store" => left \in 1..Len(dirbuf) /\ left = 1
  BY <1>1, <1>2 DEF VolInv, BlockInv
<1>4. per = PerSect * fs.csize
  BY DEF PerCluster
<1> HIDE DEF per
<1>5. CASE rest >= per
  <2>1. PICK g \in get_fat(dj, dj.clust) :
          /\ Comes(g)
          /\ IF IsCluster(g)
             THEN /\ dj' = [dj EXCEPT !.dptr = @ + per, !.clust = g.val,
                                      !.sect = clst2sect(fs, g.val)]
                  /\ UNCHANGED <<at, file, task, level, dirbuf, blk_ofs, left,
                                 fil, parts>>
             ELSE DirFails
    BY <1>4, <1>5, Zenon DEF SeekBlock
  <2>2. DiskInv'
    <3>1. DiskOK(medium, touched, card', win')
      BY <1>2, <2>1, GetFatDisk DEF Comes
    <3> QED BY <1>1, <1>2, <3>1, DiskStep
  <2>3. CASE IsCluster(g)
    <3>1. i + 1 \in 1..Len(ch) /\ g.val = ch[i + 1]
      <4> HIDE DEF ch, i
      <4> QED BY <1>2, <2>1, <2>3, GetFat
    <3> DEFINE n == dj.dptr + per
               e == [dj EXCEPT !.dptr = n, !.clust = g.val,
                               !.sect = clst2sect(fs, g.val)]
    <3>2. n \in Nat /\ n % per = 0 /\ n \div per + 1 = i + 1
      <4>1. per \in Nat /\ n \in Nat
        BY <1>2
      <4>2. n \div per = dj.dptr \div per + 1 /\ n % per = 0
        <5> DEFINE x == dj.dptr
        <5>1. x \in Nat /\ per \in Nat \ {0} /\ x % per = 0
          BY <1>2
        <5> HIDE DEF x
        <5>2. (x + per) \div per = x \div per + 1 /\ (x + per) % per = 0
          BY <5>1, SeekEntry
        <5> QED BY <5>2 DEF x
      <4>3. dj.dptr \div per \in Int
        BY <1>2
      <4> QED BY <4>1, <4>2, <4>3 DEF per
    <3>3. DirAt(medium, b, e) /\ Object(e) = Object(dj) /\ e.dptr = n
      <4> DEFINE clst == g.val
      <4>1. /\ DOMAIN e = DjFields /\ Object(e) = Object(dj) /\ e.dptr = n
            /\ e.clust = clst /\ e.sect = clst2sect(fs, clst)
        BY <1>2 DEF DirAt, DjFields, Object
      <4>2. clst = ch[i + 1] /\ per = PerCluster(fs)
        BY <3>1 DEF per
      <4> HIDE DEF i, n, e, clst
      <4> QED BY <1>2, <3>1, <3>2, <4>1, <4>2, DirCluster
    <3>4. /\ at' = "seek" /\ dj' = e
          /\ UNCHANGED <<file, task, level, dirbuf, blk_ofs, left, fil, parts>>
      BY <1>1, <2>1, <2>3
    <3>5. n <= blk_ofs
      BY <1>2, <1>5
    <3> HIDE DEF e
    <3>6. WalkInv'
      BY <1>1, <1>2, <3>2, <3>3, <3>4, <3>5 DEF WalkInv, per
    <3>7. LongInv'
      BY <1>1, <1>2 DEF LongInv
    <3>8. BlockInv'
      BY <1>1, <1>2, <1>3, <3>3, <3>4 DEF BlockInv
    <3> QED BY <1>1, <1>2, <2>2, <3>4, <3>6, <3>7, <3>8, Inside DEF Reading
  <2>4. CASE ~IsCluster(g)
    BY <1>1, <1>2, <2>1, <2>2, <2>4, DirFailed
  <2> QED BY <2>3, <2>4
<1>6. CASE ~(rest >= per)
  <2> DEFINE e == [dj EXCEPT !.dptr = blk_ofs, !.sect = @ + rest \div PerSect]
  <2>1. /\ dj' = e /\ at' = "entry"
        /\ UNCHANGED <<win, card, file, task, level, dirbuf, blk_ofs, left, fil, parts>>
    BY <1>4, <1>6 DEF SeekBlock, ioVars
  <2>2. rest \in Nat /\ rest < per /\ dj.dptr + rest = blk_ofs
    BY <1>2, <1>6
  <2>3. DirAt(medium, b, e) /\ Object(e) = Object(dj) /\ e.dptr = blk_ofs
    <3>1. /\ DOMAIN e = DjFields /\ Object(e) = Object(dj) /\ e.dptr = blk_ofs
          /\ e.clust = dj.clust /\ e.sect = dj.sect + rest \div PerSect
      BY <1>2 DEF DirAt, DjFields, Object
    <3>2. per = PerCluster(VolumeOf(medium, b))
      BY <1>2 DEF per
    <3> HIDE DEF rest, ch, e
    <3> QED BY <1>2, <2>2, <3>1, <3>2, DirWithin
  <2> HIDE DEF e
  <2>4. WalkInv'
    BY <1>1, <2>1, <2>3 DEF WalkInv
  <2>5. LongInv'
    BY <1>1, <1>2 DEF LongInv
  <2>6. BlockInv'
    <3>1. Here' = blk_ofs
      BY <2>1, <2>3 DEF Here
    <3>2. task = "load" => blk_ofs = blk_ofs + Len(dirbuf)
      BY <1>2, <1>3, EmptySeq
    <3>3. task = "store" => blk_ofs = blk_ofs + left - 1
      BY <1>2, <1>3
    <3>4. task' = task /\ at' = "entry" /\ left' = left /\ dirbuf' = dirbuf
      BY <2>1
    <3> QED BY <1>1, <1>2, <1>3, <2>1, <2>3, <3>1, <3>2, <3>3 DEF BlockInv
  <2>7. DiskInv'
    BY <1>1, <1>2, <2>1, DiskStays
  <2> QED BY <1>1, <1>2, <2>1, <2>4, <2>5, <2>6, <2>7, Inside DEF Reading
<1> QED BY <1>5, <1>6

\* The sector of a place.
LEMMA PlaceSector ==
  ASSUME NEW c \in Cards, NEW p \in Places(c), NEW s, NEW i,
         PlaceOf(c, p) = <<s, i>>
  PROVE  /\ s \in DOMAIN c.sectors /\ c.sectors[s].kind = "dir"
         /\ DOMAIN c.sectors[s] = {"kind", "dirent"}
         /\ DOMAIN c.sectors[s].dirent = 0..(PerSect - 1)
         /\ i \in 0..(PerSect - 1)
         /\ EntryOf(c, VolumeOf(c, p[1]), p[2], p[3]) = c.sectors[s].dirent[i]
         /\ DOMAIN c.sectors[s].dirent[i] = EntryFields
<1>0. PICK b \in Volumes(c) :
        \E ch \in c.dirs[b] : \E n \in Entries(VolumeOf(c, b), ch) : p = <<b, ch, n>>
  BY DEF Places
<1>1. PICK ch \in c.dirs[b] :
        \E n \in Entries(VolumeOf(c, b), ch) : p = <<b, ch, n>>
  BY <1>0
<1>2. PICK n \in Entries(VolumeOf(c, b), ch) : p = <<b, ch, n>>
  BY <1>1
<1>3. /\ PlaceOf(c, p) = <<SectorOf(VolumeOf(c, b), ch, n), n % PerSect>>
      /\ SoundEntry(c, b, ch, n)
  BY <1>2, PlaceFacts, Zenon
<1>4. s = SectorOf(VolumeOf(c, b), ch, n) /\ i = n % PerSect
  BY <1>3
<1>5. n \in Nat
  BY DEF Entries
<1>6. i \in 0..(PerSect - 1)
  BY <1>4, <1>5, PerAssumption
<1>7. /\ s \in DOMAIN c.sectors /\ c.sectors[s].kind = "dir"
      /\ DOMAIN c.sectors[s] = {"kind", "dirent"}
      /\ DOMAIN c.sectors[s].dirent = 0..(PerSect - 1)
      /\ \A j \in 0..(PerSect - 1) : DOMAIN c.sectors[s].dirent[j] = EntryFields
  BY <1>3, <1>4, Zenon DEF SoundEntry
<1>8. p[1] = b /\ p[2] = ch /\ p[3] = n
  BY <1>2
<1>9. EntryOf(c, VolumeOf(c, p[1]), p[2], p[3]) = c.sectors[s].dirent[i]
  BY <1>4, <1>8, Zenon DEF EntryOf
<1> QED BY <1>6, <1>7, <1>9

LEMMA SyncFatStep ==
  ASSUME VolInv, SyncFat PROVE VolInv'
<1> DEFINE f == fil[file]
           s == f.dir_sect
           i == f.dir_ptr
<1>1. /\ at = "sync" /\ fs.fs_type = "FAT32" /\ UNCHANGED <<medium, fs, fil, touched>>
  BY DEF SyncFat
<1>2. /\ fs # NoFs /\ VolumeInv /\ FilesInv /\ DiskInv /\ file \in DOMAIN Names
      /\ medium \in Cards /\ fs = VolumeOf(medium, fs.volbase)
      /\ parts \in Int /\ 2 + parts <= Len(Names)
      /\ level \in Nat /\ task \in {"find", "load", "store"}
  BY <1>1, Past, MountedFacts DEF Before
<1>3. f.open /\ file \in touched
  BY <1>1 DEF VolInv, SyncInv
<1>4. FilesInv'
  BY <1>1, <1>2, FilesStay
<1>5. PICK p \in Places(medium) :
        LET old == EntryOf(medium, VolumeOf(medium, p[1]), p[2], p[3])
        IN /\ PlaceOf(medium, p) = <<s, i>>
           /\ BelongsTo(medium, p, file) /\ old.type = "short"
           /\ old.sclust = f.sclust
  <2>1. FileOK(medium, fs.volbase, f, file)
    BY <1>2, <1>3 DEF FilesInv, FilOK
  <2>2. VolumeOf(medium, fs.volbase).fs_type # "exFAT"
    BY <1>1, <1>2
  <2> QED BY <2>1, <2>2, Zenon DEF FileOK
<1> DEFINE old == medium.sectors[s].dirent[i]
<1>6. /\ s \in DOMAIN medium.sectors /\ medium.sectors[s].kind = "dir"
      /\ DOMAIN medium.sectors[s] = {"kind", "dirent"}
      /\ DOMAIN medium.sectors[s].dirent = 0..(PerSect - 1)
      /\ i \in 0..(PerSect - 1) /\ DOMAIN old = EntryFields
      /\ old.type = "short" /\ old.sclust = f.sclust
  <2> HIDE DEF s, i
  <2> QED BY <1>2, <1>5, PlaceSector
<1>7. MayChange(medium, touched, s, i)
  BY <1>3, <1>5, Zenon DEF MayChange
<1>8. PICK m \in move_window(s) :
        IF m.ok
        THEN /\ Comes(Edited(m, i, [m.win.data.dirent[i] EXCEPT
                                     !.sclust = f.sclust, !.size = f.size]))
             /\ at' = "syncFs" /\ UNCHANGED <<file, dirVars, left, parts>>
        ELSE Comes(m) /\ SyncReturns
  BY Zenon DEF SyncFat
<1>9. CASE m.ok
  <2> DEFINE e == m.win.data.dirent[i]
             new == [e EXCEPT !.sclust = f.sclust, !.size = f.size]
  <2>1. Similar(e, old)
    <3>1. Kept(medium, touched, s, m.win.data)
      BY <1>2, <1>6, <1>9, ReadSector
    <3> HIDE DEF s, i
    <3>2. \/ e = old
          \/ SameFile(e, old) /\ MayChange(medium, touched, s, i)
      BY <1>6, <3>1, Zenon DEF Kept
    <3> QED BY <3>2 DEF Similar
  <2>2. DOMAIN e = EntryFields /\ e.sclust = f.sclust
    <3> HIDE DEF e, old, f
    <3> QED BY <1>6, <2>1, SimilarFields
  <2> HIDE DEF e
  <2>3. new = [e EXCEPT !.size = f.size]
    BY <2>2, Zenon DEF EntryFields
  <2>4. SameFile(new, old)
    BY <1>6, <2>1, <2>3, SimilarAgain, Zenon
  <2> HIDE DEF new
  <2>5. DiskOK(medium, touched, Edited(m, i, new).card, Edited(m, i, new).win)
    <3> HIDE DEF s, i
    <3> QED BY <1>2, <1>6, <1>7, <1>9, <2>4, EditEntry
  <2>6. Comes(Edited(m, i, new)) /\ at' = "syncFs"
        /\ UNCHANGED <<file, task, level, parts>>
    BY <1>8, <1>9 DEF new, e, dirVars
  <2>7. DiskInv'
    BY <1>1, <1>2, <2>5, <2>6, DiskStep DEF Comes
  <2>8. SyncInv' /\ WalkInv' /\ LongInv' /\ BlockInv'
    BY <1>1, <1>3, <2>6 DEF SyncInv, WalkInv, LongInv, BlockInv, Reading
  <2>9. VolumeInv'
    BY <1>1, <1>2, <2>6 DEF VolumeInv, Mounted, Before, Reading
  <2> QED BY <1>4, <2>7, <2>8, <2>9 DEF VolInv
<1>10. CASE ~m.ok
  <2>1. Comes(m) /\ SyncReturns
    BY <1>8, <1>10
  <2>2. DiskOK(medium, touched, card', win')
    BY <1>2, <2>1, MoveWindow DEF Comes
  <2>3. DiskInv'
    BY <1>1, <1>2, <2>2, DiskStep
  <2> QED BY <1>1, <1>2, <1>4, <2>1, <2>3, SyncReturned
<1> QED BY <1>9, <1>10

\* On to the next entry of a directory.
LEMMA DirNext ==
  ASSUME VolInv, at \in Reading, UNCHANGED <<medium, fs>>,
         NEW d, DirAt(medium, fs.volbase, d), dir_next(d)
  PROVE  /\ WalkInv' /\ at' \in {"next", "entry"} /\ Here' = d.dptr + 1
         /\ Object(dj') = Object(d) /\ dj'.ord = d.ord /\ dj'.sum = d.sum
<1>1. /\ medium \in Cards /\ fs.volbase \in Volumes(medium)
      /\ fs = VolumeOf(medium, fs.volbase)
  BY WalkFacts
<1>2. PerCluster(fs) = PerSect * fs.csize
  BY DEF PerCluster
<1>3. CASE (d.dptr + 1) % PerCluster(fs) = 0
  <2>1. at' = "next" /\ dj' = d
    BY <1>2, <1>3, Zenon DEF dir_next
  <2> QED BY <1>3, <2>1 DEF WalkInv, Here
<1>4. CASE (d.dptr + 1) % PerCluster(fs) # 0
  <2>1. at' = "entry" /\ dj' = Stepped(d)
    BY <1>2, <1>4, Zenon DEF dir_next
  <2>2. (d.dptr + 1) % PerCluster(VolumeOf(medium, fs.volbase)) # 0
    BY <1>1, <1>4, Zenon
  <2>3. /\ DirAt(medium, fs.volbase, Stepped(d)) /\ Object(Stepped(d)) = Object(d)
        /\ Stepped(d).dptr = d.dptr + 1
        /\ Stepped(d).ord = d.ord /\ Stepped(d).sum = d.sum
    BY <1>1, <2>2, DirStep
  <2> QED BY <2>1, <2>3 DEF WalkInv, Here
<1> QED BY <1>3, <1>4

\* The same place of a directory, whatever has been seen of a long name.
LEMMA DirAgain ==
  ASSUME NEW c, NEW b, NEW d, DirAt(c, b, d), NEW e, DOMAIN e = DjFields,
         Object(e) = Object(d), e.dptr = d.dptr, e.clust = d.clust, e.sect = d.sect
  PROVE  DirAt(c, b, e)
BY Zenon DEF DirAt

\* follow_path goes on in a directory.
LEMMA Enters ==
  ASSUME VolInv, at \in Reading, task = "find", UNCHANGED <<medium, fs, touched>>,
         DiskInv', NEW obj, IsDirectory(medium, fs.volbase, obj),
         EnterDirectory(obj)
  PROVE  VolInv'
<1>1. /\ fs # NoFs /\ VolumeInv /\ FilesInv /\ DiskInv
      /\ file \in DOMAIN Names /\ level \in Nat
      /\ parts \in Int /\ 2 + parts <= Len(Names)
  BY WalkFacts
<1>2. /\ at' = "entry" /\ level' = level + 1 /\ dj' = dir_sdi(obj) /\ dirbuf' = <<>>
      /\ UNCHANGED <<file, task, fil, parts>>
  BY DEF EnterDirectory
<1>3. FilesInv'
  BY <1>1, <1>2, FilesStay
<1> QED BY <1>1, <1>2, <1>3, Begins

\* f_open has found its file.
LEMMA Opening ==
  ASSUME VolInv, at \in Reading, task = "find", UNCHANGED <<medium, fs, touched>>,
         DiskInv', NEW obj, NEW sect, Opened(obj, sect),
         \A f : (/\ f.sclust = obj.sclust /\ f.stat = obj.stat
                 /\ f.dir_sect = sect /\ f.dir_ptr = dj.dptr % PerSect
                 /\ f.container = Object(dj) /\ f.c_ofs = blk_ofs)
                => FileOK(medium, fs.volbase, f, file)
  PROVE  VolInv'
<1>1. /\ fs # NoFs /\ VolumeInv /\ FilesInv /\ DiskInv
      /\ file \in DOMAIN Names /\ level \in Nat
      /\ parts \in Int /\ 2 + parts <= Len(Names)
  BY WalkFacts
<1> DEFINE f == [Closed EXCEPT
                   !.open = TRUE, !.sclust = obj.sclust, !.size = obj.size,
                   !.stat = obj.stat, !.clust = obj.sclust,
                   !.dir_sect = sect, !.dir_ptr = dj.dptr % PerSect,
                   !.container = [sclust |-> dj.sclust, size |-> dj.size,
                                  stat |-> dj.stat],
                   !.c_ofs = blk_ofs]
<1>2. /\ at' = "expand" /\ fil' = [fil EXCEPT ![file] = f]
      /\ UNCHANGED <<file, task, level, parts>>
  BY DEF Opened, dirVars
<1>3. /\ DOMAIN f = FilFields /\ f.open = TRUE /\ f.modified = FALSE
      /\ f.sclust = obj.sclust /\ f.stat = obj.stat /\ f.dir_sect = sect
      /\ f.dir_ptr = dj.dptr % PerSect
      /\ f.container = Object(dj) /\ f.c_ofs = blk_ofs
  BY Zenon DEF Closed, FilFields, Object
<1> HIDE DEF f
<1>4. FilOK(medium, fs.volbase, f, file)
  <2>1. FileOK(medium, fs.volbase, f, file)
    BY <1>3
  <2> QED BY <1>3, <2>1 DEF FilOK
<1>5. FilesInv'
  <2>1. ~f.modified
    BY <1>3
  <2> QED BY <1>1, <1>2, <1>4, <2>1, FileChanges
<1>6. at' \notin Reading \cup {"sync", "syncFs", "boot"}
  BY <1>2 DEF Reading
<1>7. task' \in {"find", "load", "store"}
  BY <1>2
<1> QED BY <1>1, <1>2, <1>5, <1>6, <1>7, Elsewhere

\* The entry of a file on FAT32, by one of its names.
LEMMA FatFile ==
  ASSUME VolInv, at = "entry", fs.fs_type = "FAT32", level > Len(Path),
         NEW e, e.type = "short", ShortNameMatches(e),
         NEW old, old = Old(medium, fs.volbase, Object(dj), dj.dptr),
         old.type = "short", ~old.dir, old.name = e.name, old.sclust = e.sclust,
         NEW f, f.sclust = e.sclust, f.dir_sect = dj.sect,
         f.dir_ptr = dj.dptr % PerSect
  PROVE  FileOK(medium, fs.volbase, f, file)
<1> DEFINE c   == medium
           b   == fs.volbase
           ch  == ChainOf(c, b, Object(dj))
           n   == dj.dptr
           pre == Old(c, b, Object(dj), n - 1)
           p   == <<b, ch, n>>
<1>1. at \in Reading
  BY DEF Reading
<1>2. /\ c \in Cards /\ b \in Volumes(c) /\ fs = VolumeOf(c, b)
      /\ DirAt(c, b, dj) /\ n \in Nat /\ level \in Nat
  BY <1>1, WalkFacts
<1>3. /\ ch \in c.dirs[b] /\ n \in Entries(VolumeOf(c, b), ch)
      /\ PlaceOf(c, p) = <<dj.sect, n % PerSect>>
  BY <1>2, HereFacts, Zenon
<1>4. p \in Places(c)
  BY <1>2, <1>3, PlaceFacts, Zenon
<1>5. p[1] = b /\ p[2] = ch /\ p[3] = n /\ n + 0 = n /\ n + (-1) = n - 1
  BY <1>2
<1>6. /\ EntryOf(c, VolumeOf(c, p[1]), p[2], p[3] + 0) = old
      /\ EntryOf(c, VolumeOf(c, p[1]), p[2], p[3] + (-1)) = pre
      /\ EntryOf(c, VolumeOf(c, p[1]), p[2], p[3]) = old
  BY <1>5, Zenon DEF Old
<1>7. Segment = Names[file]
  <2>1. ~(level <= Len(Path))
    BY <1>2, NamesAssumption
  <2> QED BY <2>1 DEF Segment, SegmentOf
<1>8. BelongsTo(c, p, file)
  <2>1. CASE dj.ord = 0 /\ dj.sum = sum_sfn(e)
    <3>1. Here - 1 = n - 1 /\ LongSeen(c, b, dj, Here - 1, Segment.long)
      BY <1>1 DEF VolInv, LongInv, Here
    <3>2. /\ n - 1 >= 0 /\ pre.type = "long" /\ pre.name = Names[file].long
          /\ pre.sum = dj.sum
      BY <1>7, <2>1, <3>1, Zenon DEF LongSeen
    <3>3. n > 0
      BY <1>2, <3>2
    <3>4. pre.sum = sum_sfn(old)
      BY <2>1, <3>2 DEF sum_sfn
    <3> HIDE DEF pre, p
    <3> QED BY <1>5, <1>6, <3>2, <3>3, <3>4, Zenon DEF BelongsTo, HasName
  <2>2. CASE ~Segment.lossy /\ e.name = Segment.short
    <3>1. ~Names[file].lossy /\ old.name = Names[file].short
      BY <1>7, <2>2
    <3> HIDE DEF p
    <3> QED BY <1>6, <3>1, Zenon DEF BelongsTo, HasName
  <2> QED BY <2>1, <2>2 DEF ShortNameMatches
<1>9. VolumeOf(c, b).fs_type # "exFAT"
  BY <1>2
<1> HIDE DEF p
<1> QED BY <1>3, <1>4, <1>6, <1>8, <1>9, Zenon DEF FileOK

LEMMA FatEntryStep ==
  ASSUME VolInv, FatEntry PROVE VolInv'
<1> DEFINE c   == medium
           b   == fs.volbase
           n   == dj.dptr
           old == Old(c, b, Object(dj), n)
<1>1. /\ at = "entry" /\ at \in Reading /\ fs.fs_type = "FAT32"
      /\ UNCHANGED <<medium, fs, touched>>
  BY DEF FatEntry, Reading
<1>2. /\ fs # NoFs /\ VolumeInv /\ FilesInv /\ DiskInv /\ level \in Nat
      /\ c \in Cards /\ b \in Volumes(c) /\ fs = VolumeOf(c, b) /\ Mounted
      /\ DirAt(c, b, dj) /\ n \in Nat
  BY <1>1, WalkFacts
<1>3. task = "find"
  BY <1>1, <1>2 DEF VolumeInv
<1>4. PICK m \in move_window(dj.sect) :
        /\ Comes(m)
        /\ LET e == m.win.data.dirent[dj.dptr % PerSect]
               match == e.type = "short" /\ ShortNameMatches(e)
           IN IF ~m.ok \/ e.type = "end" THEN DirFails
              ELSE IF match
              THEN Found([sclust |-> e.sclust, size |-> e.size, stat |-> 0],
                         e, m.win.sect)
              ELSE /\ dir_next(IF e.type = "long" THEN LongNameSeen(e)
                               ELSE Unordered(dj))
                   /\ UNCHANGED <<file, task, level, dirbuf, blk_ofs, left, fil,
                                  parts>>
  BY Zenon DEF FatEntry
<1> DEFINE e   == m.win.data.dirent[dj.dptr % PerSect]
           obj == [sclust |-> e.sclust, size |-> e.size, stat |-> 0]
<1>5. DiskInv'
  <2>1. DiskOK(medium, touched, card', win')
    BY <1>2, <1>4, MoveWindow DEF Comes
  <2> QED BY <1>1, <1>2, <2>1, DiskStep
<1>6. CASE DirFails
  BY <1>1, <1>2, <1>5, <1>6, DirFailed
<1>7. CASE m.ok /\ ~DirFails
  <2>1. /\ DOMAIN old = EntryFields /\ Similar(e, old)
        /\ m.win.sect = dj.sect /\ (old.dir => e = old)
    BY <1>2, <1>7, ReadEntry, Zenon
  <2>2. /\ e.type = old.type /\ e.name = old.name /\ e.dir = old.dir
        /\ e.sclust = old.sclust
        /\ (e.type \notin {"short", "stream", "filedir"} => e = old)
    <3> HIDE DEF e, old
    <3> QED BY <2>1, SimilarFields, Zenon
  <2>3. CASE e.type = "short" /\ ShortNameMatches(e)
    <3>1. Found(obj, e, dj.sect)
      <4>1. Found(obj, e, m.win.sect)
        BY <1>4, <1>7, <2>3, Zenon
      <4> QED BY <2>1, <4>1, Zenon
    <3>2. CASE level <= Len(Path) /\ e.dir
      <4>1. EnterDirectory(obj)
        BY <3>1, <3>2 DEF Found
      <4>2. e = old
        BY <2>1, <2>2, <3>2
      <4>3. /\ ChainOf(c, b, Object(dj)) \in c.dirs[b]
            /\ n \in Entries(VolumeOf(c, b), ChainOf(c, b, Object(dj)))
        BY <1>2, HereFacts, Zenon
      <4>4. SoundEntry(c, b, ChainOf(c, b, Object(dj)), n)
        BY <1>2, <4>3, PlaceFacts, Zenon
      <4>5. IsDirectory(c, b, [sclust |-> old.sclust, size |-> old.size, stat |-> 0])
        BY <2>2, <2>3, <3>2, <4>4, Zenon DEF SoundEntry, Old
      <4> HIDE DEF old, e
      <4>6. IsDirectory(c, b, obj)
        BY <4>2, <4>5
      <4> QED BY <1>1, <1>3, <1>5, <4>1, <4>6, Enters
    <3>3. CASE level > Len(Path) /\ ~e.dir /\ ~e.rdo
      <4>1. Opened(obj, dj.sect)
        <5>1. ~(level <= Len(Path))
          BY <1>2, <3>3, NamesAssumption
        <5> QED BY <3>1, <3>3, <5>1, Zenon DEF Found
      <4>2. \A f : (/\ f.sclust = obj.sclust /\ f.stat = obj.stat
                    /\ f.dir_sect = dj.sect /\ f.dir_ptr = dj.dptr % PerSect
                    /\ f.container = Object(dj) /\ f.c_ofs = blk_ofs)
                   => FileOK(medium, fs.volbase, f, file)
        <5>1. obj.sclust = e.sclust
          OBVIOUS
        <5>2. old.type = "short" /\ ~old.dir /\ old.name = e.name
              /\ old.sclust = e.sclust
          BY <2>2, <2>3, <3>3
        <5> HIDE DEF e, obj
        <5>3. ASSUME NEW f, f.sclust = obj.sclust, f.dir_sect = dj.sect,
                     f.dir_ptr = dj.dptr % PerSect
              PROVE  FileOK(medium, fs.volbase, f, file)
          <6>1. f.sclust = e.sclust
            BY <5>1, <5>3
          <6>2. old = Old(medium, fs.volbase, Object(dj), dj.dptr)
            OBVIOUS
          <6> HIDE DEF old
          <6> QED BY <1>1, <2>3, <3>3, <5>2, <5>3, <6>1, <6>2, FatFile
        <5> QED BY <5>3
      <4> HIDE DEF obj
      <4> QED BY <1>1, <1>3, <1>5, <4>1, <4>2, Opening
    <3>4. CASE /\ ~(level <= Len(Path) /\ e.dir)
               /\ ~(level > Len(Path) /\ ~e.dir /\ ~e.rdo)
      BY <1>7, <3>1, <3>4 DEF Found
    <3> QED BY <3>2, <3>3, <3>4
  <2>4. CASE ~(e.type = "short" /\ ShortNameMatches(e))
    <3> DEFINE d == IF e.type = "long" THEN LongNameSeen(e) ELSE Unordered(dj)
    <3>1. /\ dir_next(d)
          /\ UNCHANGED <<file, task, level, dirbuf, blk_ofs, left, fil, parts>>
      BY <1>4, <1>7, <2>4, Zenon
    <3>2. /\ DirAt(c, b, d) /\ Object(d) = Object(dj) /\ d.dptr = n
          /\ d.ord = 0 => /\ e.type = "long" /\ e.name = Segment.long
                          /\ e.sum = d.sum
      <4>1. CASE e.type = "long"
        <5> DEFINE ord == IF e.last THEN e.ord ELSE dj.ord
                   sum == IF e.last THEN e.sum ELSE dj.sum
                   x   == IF e.ord = ord /\ e.sum = sum /\ cmp_lfn(e)
                          THEN ord - 1 ELSE NoSector
        <5>1. d = [dj EXCEPT !.sum = sum, !.ord = x]
          BY <4>1, Zenon DEF LongNameSeen
        <5>2. x = 0 => e.sum = sum /\ cmp_lfn(e)
          BY DEF NoSector
        <5> HIDE DEF d, sum, x, e
        <5>3. /\ DOMAIN d = DjFields /\ Object(d) = Object(dj) /\ d.dptr = dj.dptr
              /\ d.clust = dj.clust /\ d.sect = dj.sect /\ d.ord = x /\ d.sum = sum
          BY <1>2, <5>1 DEF DirAt, DjFields, Object
        <5>4. DirAt(c, b, d)
          BY <1>2, <5>3, DirAgain
        <5> QED BY <4>1, <5>2, <5>3, <5>4 DEF cmp_lfn
      <4>2. CASE e.type # "long"
        <5>1. d = [dj EXCEPT !.ord = NoSector]
          BY <4>2 DEF Unordered
        <5> HIDE DEF d
        <5>2. /\ DOMAIN d = DjFields /\ Object(d) = Object(dj) /\ d.dptr = dj.dptr
              /\ d.clust = dj.clust /\ d.sect = dj.sect /\ d.ord = NoSector
          BY <1>2, <5>1 DEF DirAt, DjFields, Object
        <5>3. DirAt(c, b, d)
          BY <1>2, <5>2, DirAgain
        <5> QED BY <5>2, <5>3 DEF NoSector
      <4> QED BY <4>1, <4>2, Zenon
    <3> HIDE DEF d
    <3>3. /\ WalkInv' /\ at' \in {"next", "entry"} /\ Here' = d.dptr + 1
          /\ Object(dj') = Object(d) /\ dj'.ord = d.ord /\ dj'.sum = d.sum
      BY <1>1, <3>1, <3>2, DirNext
    <3>4. LongInv'
      <4>1. Here' - 1 = n /\ n >= 0 /\ Segment' = Segment
        BY <1>2, <3>1, <3>2, <3>3 DEF Segment, SegmentOf
      <4>2. ASSUME d.ord = 0
            PROVE  /\ old.type = "long" /\ old.name = Segment.long
                   /\ old.sum = d.sum
        <5>1. e.type = "long" /\ e.name = Segment.long /\ e.sum = d.sum
          BY <3>2, <4>2
        <5>2. e = old
          BY <2>2, <5>1
        <5> QED BY <5>1, <5>2
      <4>3. LongSeen(c, b, dj', n, Segment.long)
        <5> HIDE DEF c, b, n
        <5> QED BY <3>2, <3>3, <4>1, <4>2 DEF LongSeen
      <4> QED BY <1>1, <4>1, <4>3 DEF LongInv
    <3>5. BlockInv'
      BY <1>1 DEF BlockInv
    <3>6. at' \in Reading /\ at' # "seek" /\ level' \in Nat
      BY <1>2, <3>1, <3>3 DEF Reading
    <3> QED BY <1>1, <1>5, <3>1, <3>3, <3>4, <3>5, <3>6, Inside
  <2> QED BY <2>3, <2>4
<1>8. CASE ~m.ok
  BY <1>4, <1>6, <1>8
<1> QED BY <1>6, <1>7, <1>8

-----------------------------------------------------------------------------
(* The blocks of an exFAT directory                                        *)

\* A sequence with one more element.
LEMMA Longer ==
  ASSUME NEW s, s \in Seq(Range(s)), NEW e
  PROVE  LET t == Append(s, e)
         IN /\ Len(s) \in Nat /\ Len(t) = Len(s) + 1 /\ t \in Seq(Range(t))
            /\ \A i \in 1..Len(s) : t[i] = s[i]
            /\ t[Len(s) + 1] = e
<1> DEFINE S == Range(s) \cup {e}
<1>1. Len(s) \in Nat /\ DOMAIN s = 1..Len(s) /\ \A i \in 1..Len(s) : s[i] \in S
  BY LenProperties, ElementOfSeq
<1>2. s \in Seq(S)
  BY <1>1
<1> DEFINE t == Append(s, e)
<1>3. /\ t \in Seq(S) /\ Len(t) = Len(s) + 1 /\ t[Len(s) + 1] = e
      /\ \A i \in 1..Len(s) : t[i] = s[i]
  <2> HIDE DEF S
  <2>1. e \in S
    BY DEF S
  <2> QED BY <1>2, <2>1, AppendProperties
<1> HIDE DEF t, S
<1>4. t \in Seq(Range(t))
  BY <1>3, SeqOfRange
<1> QED BY <1>1, <1>3, <1>4 DEF t

\* The fields of what an entry is similar to.
LEMMA SimilarBack ==
  ASSUME NEW new, DOMAIN new = EntryFields, NEW old, Similar(new, old)
  PROVE  DOMAIN old = EntryFields
<1>1. CASE new = old
  BY <1>1
<1>2. CASE new = [old EXCEPT !.size = new.size]
  BY <1>2
<1>3. CASE new = [old EXCEPT !.sum = new.sum]
  BY <1>3
<1> QED BY <1>1, <1>2, <1>3 DEF Similar, SameFile

\* dir_read loads one more entry of a block.
LEMMA BlockGrows ==
  ASSUME NEW c, NEW b, NEW obj, NEW start \in Nat, NEW buf,
         BlockOK(c, b, obj, start, buf),
         NEW n, n = start + Len(buf), NEW e, InOrder(e, Len(buf) + 1),
         NEW old, old = Old(c, b, obj, n), DOMAIN old = EntryFields,
         Similar(e, old), old.dir => e = old,
         e.type = "stream" /\ e # old => ~Old(c, b, obj, n - 1).dir
  PROVE  BlockOK(c, b, obj, start, Append(buf, e))
<1> DEFINE block == Append(buf, e)
           len == Len(buf)
<1>1. /\ len \in Nat /\ Len(block) = len + 1 /\ block \in Seq(Range(block))
      /\ \A i \in 1..len : block[i] = buf[i]
      /\ block[len + 1] = e
  <2>1. buf \in Seq(Range(buf))
    BY DEF BlockOK
  <2> QED BY <2>1, Longer
<1>2. n = start + len
  OBVIOUS
<1>3. InOrder(e, len + 1)
  OBVIOUS
<1>4. \A j \in 1..len :
        /\ DOMAIN buf[j] = EntryFields /\ InOrder(buf[j], j)
        /\ Similar(buf[j], Old(c, b, obj, start + j - 1))
  BY DEF BlockOK
<1>5. len > 1 /\ buf[1].dir => buf[2] = Old(c, b, obj, start + 1)
  BY DEF BlockOK
<1> HIDE DEF block, len
<1>6. ASSUME NEW j \in 1..Len(block)
      PROVE  /\ DOMAIN block[j] = EntryFields /\ InOrder(block[j], j)
             /\ Similar(block[j], Old(c, b, obj, start + j - 1))
  <2>1. CASE j \in 1..len
    BY <1>1, <1>4, <2>1
  <2>2. CASE j = len + 1
    <3>1. start + j - 1 = n
      BY <1>1, <1>2, <2>2
    <3>2. DOMAIN e = EntryFields
      BY SimilarFields
    <3> QED BY <1>1, <1>3, <2>2, <3>1, <3>2
  <2> QED BY <1>1, <2>1, <2>2
<1>7. ASSUME Len(block) > 1, block[1].dir
      PROVE  block[2] = Old(c, b, obj, start + 1)
  <2>1. CASE len > 1
    BY <1>1, <1>5, <1>7, <2>1
  <2>2. CASE len = 1
    <3>1. /\ 1 \in 1..len /\ block[2] = e /\ n = start + 1 /\ block[1] = buf[1]
          /\ start + 1 - 1 = n - 1
      BY <1>1, <1>2, <2>2
    <3>2. DOMAIN buf[1] = EntryFields /\ Similar(buf[1], Old(c, b, obj, n - 1))
      BY <1>4, <3>1
    <3>3. DOMAIN Old(c, b, obj, n - 1) = EntryFields
      BY <3>2, SimilarBack
    <3>4. Old(c, b, obj, n - 1).dir
      BY <1>7, <3>1, <3>2, <3>3, SimilarFields
    <3>5. e.type = "stream"
      <4>1. len + 1 = 2 /\ 2 # 1
        BY <2>2
      <4>2. e.type = (IF 2 = 1 THEN "filedir" ELSE IF 2 = 2 THEN "stream" ELSE "filename")
        BY <1>3, <4>1 DEF InOrder
      <4> QED BY <4>2
    <3> QED BY <3>1, <3>4, <3>5
  <2> QED BY <1>1, <1>7, <2>1, <2>2
<1>8. block # <<>> => start \in Nat
  OBVIOUS
<1>9. BlockOK(c, b, obj, start, block)
  BY <1>1, <1>6, <1>7, <1>8 DEF BlockOK
<1> QED BY <1>9 DEF block

\* The clusters of a block are those of its entry.
LEMMA BlockStream ==
  ASSUME NEW c, NEW b, NEW obj, NEW start \in Nat, NEW block,
         BlockOK(c, b, obj, start, block), Len(block) > 1
  PROVE  /\ block[2].sclust = Old(c, b, obj, start + 1).sclust
         /\ block[2].stat = Old(c, b, obj, start + 1).stat
         /\ DOMAIN block[2] = EntryFields /\ Len(block) \in Nat
<1>1. Len(block) \in Nat
  BY LenProperties DEF BlockOK
<1>2. 2 \in 1..Len(block) /\ start + 2 - 1 = start + 1
  BY <1>1
<1>3. DOMAIN block[2] = EntryFields /\ Similar(block[2], Old(c, b, obj, start + 1))
  BY <1>2 DEF BlockOK
<1>4. DOMAIN Old(c, b, obj, start + 1) = EntryFields
  BY <1>3, SimilarBack
<1> QED BY <1>1, <1>3, <1>4, SimilarFields, Zenon

\* Where the block begins that is read, or would begin.
BlockStart == IF dirbuf = <<>> THEN dj.dptr ELSE blk_ofs

\* What is known while a block is read.
LEMMA BlockFacts ==
  ASSUME VolInv, at = "entry", fs.fs_type = "exFAT", task # "store"
  PROVE  /\ task \in {"find", "load"} /\ BlockStart \in Nat
         /\ BlockOK(medium, fs.volbase, Object(dj), BlockStart, dirbuf)
         /\ dj.dptr = BlockStart + Len(dirbuf) /\ Len(dirbuf) \in Nat
         /\ (dirbuf # <<>> => BlockStart = blk_ofs /\ Len(dirbuf) > 0)
         /\ task = "load" =>
              /\ BlockStart = blk_ofs
              /\ Object(dj) = fil[file].container /\ blk_ofs = fil[file].c_ofs
              /\ fil[file].open /\ file \in touched
              /\ IsObject(medium, fs.volbase, fil[file].container)
              /\ NamedBlock(medium, fs.volbase, fil[file].container, blk_ofs, file)
              /\ StreamIs(medium, fs.volbase, fil[file].container, blk_ofs, fil[file])
<1>1. at \in Reading /\ at # "seek" /\ Here = dj.dptr
  BY DEF Reading, Here
<1>2. /\ task \in {"find", "load"} /\ FilesInv /\ file \in DOMAIN Names
      /\ dj.dptr \in Nat /\ fs = VolumeOf(medium, fs.volbase)
  BY <1>1, WalkFacts
<1>3. /\ BlockOK(medium, fs.volbase, Object(dj), blk_ofs, dirbuf)
      /\ task = "find" /\ dirbuf # <<>> => dj.dptr = blk_ofs + Len(dirbuf)
      /\ task = "load" =>
           /\ Object(dj) = fil[file].container /\ blk_ofs = fil[file].c_ofs
           /\ dj.dptr = blk_ofs + Len(dirbuf)
  BY <1>1 DEF VolInv, BlockInv
<1>4. dirbuf \in Seq(Range(dirbuf)) /\ (dirbuf # <<>> => blk_ofs \in Nat)
  BY <1>3 DEF BlockOK
<1>5. Len(dirbuf) \in Nat /\ (dirbuf # <<>> => Len(dirbuf) > 0) /\ Len(<<>>) = 0
  <2>1. dirbuf # <<>> => Len(dirbuf) \in Nat \ {0}
    BY <1>4, EmptySeq
  <2>2. Len(<<>>) = 0
    BY EmptySeq
  <2> QED BY <1>4, <2>1, <2>2, LenProperties
<1>6. ASSUME task = "load"
      PROVE  /\ fil[file].open /\ file \in touched
             /\ IsObject(medium, fs.volbase, fil[file].container)
             /\ NamedBlock(medium, fs.volbase, fil[file].container, blk_ofs, file)
             /\ StreamIs(medium, fs.volbase, fil[file].container, blk_ofs, fil[file])
             /\ blk_ofs \in Nat
  <2>1. fil[file].open /\ file \in touched
    BY <1>1, <1>6 DEF VolInv, SyncInv
  <2>2. FileOK(medium, fs.volbase, fil[file], file)
    BY <1>2, <2>1 DEF FilesInv, FilOK
  <2>3. IsObject(medium, fs.volbase, fil[file].container)
        /\ NamedBlock(medium, fs.volbase, fil[file].container, fil[file].c_ofs, file)
        /\ StreamIs(medium, fs.volbase, fil[file].container, fil[file].c_ofs, fil[file])
    BY <1>2, <2>2 DEF FileOK
  <2> QED BY <1>3, <1>6, <2>1, <2>3 DEF NamedBlock
<1>7. CASE dirbuf = <<>>
  <2>1. BlockStart = dj.dptr /\ Len(dirbuf) = 0
    BY <1>5, <1>7 DEF BlockStart
  <2>2. task = "load" => BlockStart = blk_ofs
    BY <1>2, <1>3, <1>6, <2>1
  <2>3. BlockOK(medium, fs.volbase, Object(dj), BlockStart, dirbuf)
    BY <1>7, NoBlock
  <2> QED BY <1>2, <1>3, <1>6, <1>7, <2>1, <2>2, <2>3
<1>8. CASE dirbuf # <<>>
  <2>1. BlockStart = blk_ofs
    BY <1>8 DEF BlockStart
  <2> QED BY <1>2, <1>3, <1>4, <1>5, <1>6, <1>8, <2>1
<1> QED BY <1>7, <1>8

\* An entry that carries on the block.
LEMMA BlockRead ==
  ASSUME VolInv, at = "entry", fs.fs_type = "exFAT", task # "store",
         NEW m \in move_window(dj.sect), m.ok,
         NEW e, e = m.win.data.dirent[dj.dptr % PerSect],
         InOrder(e, Len(dirbuf) + 1)
  PROVE  BlockOK(medium, fs.volbase, Object(dj), BlockStart, Append(dirbuf, e))
<1>1. at \in Reading
  BY DEF Reading
<1>2. DiskInv /\ Mounted /\ DirAt(medium, fs.volbase, dj)
  BY <1>1, WalkFacts
<1> DEFINE old    == Old(medium, fs.volbase, Object(dj), dj.dptr)
           before == Old(medium, fs.volbase, Object(dj), dj.dptr - 1)
<1>3. /\ DOMAIN old = EntryFields /\ Similar(e, old) /\ (old.dir => e = old)
      /\ (e.type = "stream" /\ e # old => ~before.dir)
  BY <1>2, ReadEntry, Zenon
<1>4. /\ BlockStart \in Nat /\ dj.dptr = BlockStart + Len(dirbuf)
      /\ BlockOK(medium, fs.volbase, Object(dj), BlockStart, dirbuf)
  BY BlockFacts
<1>5. old = Old(medium, fs.volbase, Object(dj), dj.dptr)
  OBVIOUS
<1> HIDE DEF old
<1> QED BY <1>3, <1>4, <1>5, BlockGrows

\* A block that is whole is a file's or a directory's, and has its name.
LEMMA BlockWhole ==
  ASSUME NEW c \in Cards, NEW b \in Volumes(c), NEW d, DirAt(c, b, d),
         NEW start \in Nat, start <= d.dptr,
         NEW block, BlockOK(c, b, Object(d), start, block),
         Len(block) > 1, Len(block) = block[1].ord
  PROVE  /\ Old(c, b, Object(d), start).type = "filedir"
         /\ Old(c, b, Object(d), start).dir = block[1].dir
         /\ block[3] = Old(c, b, Object(d), start + 2)
         /\ StreamIs(c, b, Object(d), start, ObjectOf(block))
         /\ block[1].dir => IsDirectory(c, b, ObjectOf(block))
<1> DEFINE ch  == ChainOf(c, b, Object(d))
           old == Old(c, b, Object(d), start)
           len == Len(block)
<1>1. ch \in c.dirs[b] /\ d.dptr \in Entries(VolumeOf(c, b), ch) /\ d.dptr \in Nat
  BY HereFacts, Zenon DEF DirAt
<1>2. start \in Entries(VolumeOf(c, b), ch)
  <2> DEFINE z == PerCluster(VolumeOf(c, b)) * Len(ch) - 1
             n == d.dptr
  <2>1. n \in 0..z /\ start <= n
    BY <1>1 DEF Entries
  <2>2. n \in Nat /\ z \in Int
    <3> DEFINE per == PerCluster(VolumeOf(c, b))
               l == Len(ch)
    <3>1. per \in Nat \ {0}
      BY VolumeFacts
    <3>2. l \in Nat
      BY ChainFacts DEF DirAt, IsObject
    <3> HIDE DEF per, l
    <3>3. per * l \in Int
      BY <3>1, <3>2, SMTT(30)
    <3>4. per * l - 1 \in Int
      BY <3>3
    <3> QED BY <1>1, <3>4 DEF per, l
  <2> HIDE DEF z, n
  <2>3. start \in 0..z
    BY <2>1, <2>2
  <2> QED BY <2>3 DEF z, Entries
<1>3. SoundEntry(c, b, ch, start)
  BY <1>1, <1>2, PlaceFacts, Zenon
<1>4. /\ block \in Seq(Range(block))
      /\ \A j \in 1..len :
           /\ DOMAIN block[j] = EntryFields /\ InOrder(block[j], j)
           /\ Similar(block[j], Old(c, b, Object(d), start + j - 1))
      /\ block[1].dir => block[2] = Old(c, b, Object(d), start + 1)
  BY DEF BlockOK
<1>5. len \in Nat
  BY <1>4, LenProperties
<1> HIDE DEF len
<1>6. 1 \in 1..len /\ 2 \in 1..len /\ len = block[1].ord
  BY <1>5 DEF len
<1>7. start + 1 - 1 = start /\ start + 3 - 1 = start + 2
  OBVIOUS
<1>8. /\ DOMAIN block[1] = EntryFields /\ InOrder(block[1], 1)
      /\ Similar(block[1], old)
  BY <1>4, <1>6, <1>7
<1>9. DOMAIN old = EntryFields
  BY <1>8, SimilarBack
<1>10. /\ block[1].type = old.type /\ block[1].dir = old.dir
       /\ block[1].ord = old.ord
  <2> HIDE DEF old
  <2> QED BY <1>8, <1>9, SimilarFields, Zenon
<1>11. old.type = "filedir"
  BY <1>8, <1>10 DEF InOrder
<1>12. len \in Nat \ {0, 1, 2}
  <2>1. old.ord \in Nat \ {0, 1, 2}
    BY <1>3, <1>11, Zenon DEF SoundEntry, Old
  <2> QED BY <1>6, <1>10, <2>1
<1>13. block[3] = Old(c, b, Object(d), start + 2)
  <2>1. 3 \in 1..len
    BY <1>12
  <2>2. /\ DOMAIN block[3] = EntryFields /\ InOrder(block[3], 3)
        /\ Similar(block[3], Old(c, b, Object(d), start + 2))
    BY <1>4, <1>7, <2>1
  <2>3. block[3].type = "filename"
    BY <2>2 DEF InOrder
  <2>4. DOMAIN Old(c, b, Object(d), start + 2) = EntryFields
    BY <2>2, SimilarBack
  <2>5. block[3].type \notin {"short", "stream", "filedir"}
    BY <2>3
  <2> QED BY <2>2, <2>4, <2>5, SimilarFields, Zenon
<1>14. ASSUME block[1].dir PROVE IsDirectory(c, b, ObjectOf(block))
  <2> DEFINE stream == Old(c, b, Object(d), start + 1)
  <2>1. IsDirectory(c, b, [sclust |-> stream.sclust, size |-> stream.size,
                           stat |-> stream.stat])
    BY <1>3, <1>10, <1>11, <1>14, Zenon DEF SoundEntry, Old
  <2>2. block[2] = stream
    BY <1>4, <1>14
  <2> HIDE DEF stream
  <2> QED BY <2>1, <2>2 DEF ObjectOf
<1>15. StreamIs(c, b, Object(d), start, ObjectOf(block))
  BY BlockStream DEF StreamIs, ObjectOf
<1> QED BY <1>10, <1>11, <1>13, <1>14, <1>15

\* What is stored again changes nothing.
LEMMA SameStream ==
  ASSUME NEW block, DOMAIN block[2] = EntryFields,
         block[2].stat = fil[file].stat, block[2].sclust = fil[file].sclust
  PROVE  [block EXCEPT ![2].stat = fil[file].stat, ![2].sclust = fil[file].sclust,
                       ![2].size = fil[file].size]
           = [block EXCEPT ![2].size = fil[file].size]
<1>1. [block[2] EXCEPT !.stat = fil[file].stat, !.sclust = fil[file].sclust,
                       !.size = fil[file].size]
        = [block[2] EXCEPT !.size = fil[file].size]
  BY DEF EntryFields
<1> QED BY <1>1

\* f_sync changes the size and the checksum of a block; its clusters are those of
\* the file.
LEMMA BlockUpdated ==
  ASSUME NEW c, NEW b, NEW obj, NEW start, NEW block,
         BlockOK(c, b, obj, start, block), Len(block) > 1,
         ~Old(c, b, obj, start).dir, start \in Nat,
         StreamIs(c, b, obj, start, fil[file])
  PROVE  /\ BlockOK(c, b, obj, start, Update(block))
         /\ Len(Update(block)) = Len(block) /\ Len(block) \in Nat
<1> DEFINE new == [block EXCEPT ![2].size = fil[file].size]
           x   == xdir_sum(new)
           e1  == [block[1] EXCEPT !.sum = x]
           e2  == [block[2] EXCEPT !.size = fil[file].size]
           out == Update(block)
           len == Len(block)
<1>1. /\ block \in Seq(Range(block))
      /\ \A j \in 1..len :
           /\ DOMAIN block[j] = EntryFields /\ InOrder(block[j], j)
           /\ Similar(block[j], Old(c, b, obj, start + j - 1))
  BY DEF BlockOK
<1>2. len \in Nat /\ DOMAIN block = 1..len
  BY <1>1, LenProperties
<1>3. 1 \in 1..len /\ 2 \in 1..len
  BY <1>2
<1>4. /\ DOMAIN new = 1..len /\ new[1] = block[1] /\ new[2] = e2
      /\ \A j \in 1..len : j # 2 => new[j] = block[j]
  <2> HIDE DEF len
  <2> QED BY <1>2, <1>3
<1>5. out = [new EXCEPT ![1].sum = x]
  <2> DEFINE y == [block EXCEPT ![2].stat = fil[file].stat,
                                ![2].sclust = fil[file].sclust,
                                ![2].size = fil[file].size]
  <2>1. y = new
    <3>1. block[2].sclust = fil[file].sclust /\ block[2].stat = fil[file].stat
          /\ DOMAIN block[2] = EntryFields
      BY BlockStream DEF StreamIs
    <3> QED BY <3>1, SameStream, Zenon
  <2>2. out = [y EXCEPT ![1].sum = xdir_sum(y)]
    BY DEF Update
  <2> HIDE DEF y, new
  <2> QED BY <2>1, <2>2 DEF x
<1>5a. new = [block EXCEPT ![2] = e2] /\ out = [new EXCEPT ![1] = e1]
  <2>1. new = [block EXCEPT ![2] = e2]
    <3> HIDE DEF len
    <3> QED BY <1>2, <1>3
  <2> HIDE DEF new, x, out, len
  <2> QED BY <1>3, <1>4, <1>5, <2>1
<1>6. /\ DOMAIN out = 1..len /\ out[1] = e1 /\ out[2] = e2
      /\ \A j \in 1..len : j \notin {1, 2} => out[j] = block[j]
  <2> HIDE DEF len, new, x, out
  <2> QED BY <1>2, <1>3, <1>4, <1>5 DEF e1
<1>7. DOMAIN e1 = EntryFields /\ e1.type = block[1].type /\ e1.dir = block[1].dir
      /\ DOMAIN e2 = EntryFields /\ e2.type = block[2].type
  <2> HIDE DEF x, len
  <2> QED BY <1>1, <1>3 DEF EntryFields
<1> HIDE DEF x, new, out, len
<1>8. /\ start + 1 - 1 = start /\ start + 2 - 1 = start + 1
  OBVIOUS
<1>9. /\ Similar(block[1], Old(c, b, obj, start)) /\ DOMAIN block[1] = EntryFields
      /\ Similar(block[2], Old(c, b, obj, start + 1)) /\ DOMAIN block[2] = EntryFields
      /\ InOrder(block[1], 1) /\ InOrder(block[2], 2)
  BY <1>1, <1>3, <1>8
<1>10. DOMAIN Old(c, b, obj, start) = EntryFields
       /\ DOMAIN Old(c, b, obj, start + 1) = EntryFields
  BY <1>9, SimilarBack
<1>11. /\ Old(c, b, obj, start).type = "filedir"
       /\ Old(c, b, obj, start + 1).type = "stream"
       /\ Old(c, b, obj, start).dir = block[1].dir
  <2>1. block[1].type = "filedir" /\ block[2].type = "stream"
    BY <1>9 DEF InOrder
  <2> DEFINE o1 == Old(c, b, obj, start)
             o2 == Old(c, b, obj, start + 1)
  <2> HIDE DEF o1, o2
  <2>2. o1.type = block[1].type /\ o1.dir = block[1].dir
    BY <1>9, <1>10, SimilarFields DEF o1
  <2>3. o2.type = block[2].type
    BY <1>9, <1>10, SimilarFields DEF o2
  <2> QED BY <2>1, <2>2, <2>3 DEF o1, o2
<1>12. SameFile(e1, Old(c, b, obj, start))
  BY <1>9, <1>10, <1>11, SimilarAgain
<1>13. SameFile(e2, Old(c, b, obj, start + 1))
  BY <1>9, <1>10, <1>11, SimilarAgain
<1> HIDE DEF e1, e2
<1>14. ASSUME NEW j \in 1..len
       PROVE  /\ DOMAIN out[j] = EntryFields /\ InOrder(out[j], j)
              /\ Similar(out[j], Old(c, b, obj, start + j - 1))
  <2>1. CASE j = 1
    BY <1>6, <1>7, <1>8, <1>9, <1>12, <2>1 DEF InOrder, Similar
  <2>2. CASE j = 2
    BY <1>6, <1>7, <1>8, <1>9, <1>13, <2>2 DEF InOrder, Similar
  <2>3. CASE j \notin {1, 2}
    BY <1>1, <1>6, <2>3
  <2> QED BY <2>1, <2>2, <2>3
<1>15. out \in Seq(Range(out)) /\ Len(out) = len
  <2> DEFINE T == Range(block) \cup {e1, e2}
  <2>1. \A j \in 1..len : block[j] \in T
    BY <1>1, ElementOfSeq DEF len
  <2>2. e1 \in T /\ e2 \in T /\ block \in Seq(T)
    BY <1>1, <1>2, <2>1 DEF len
  <2> HIDE DEF T
  <2>3. new \in Seq(T) /\ Len(new) = len
    BY <1>3, <1>5a, <2>2, ExceptSeq DEF len
  <2>4. out \in Seq(T) /\ Len(out) = len
    BY <1>3, <1>5a, <2>2, <2>3, ExceptSeq
  <2> QED BY <2>4, SeqOfRange
<1>16. ~out[1].dir
  BY <1>6, <1>7, <1>11
<1>17. BlockOK(c, b, obj, start, out)
  BY <1>14, <1>15, <1>16 DEF BlockOK
<1> QED BY <1>2, <1>15, <1>17 DEF out, len

\* dir_read goes on behind an entry of an exFAT directory.
LEMMA ReadsOn ==
  ASSUME VolInv, at = "entry", fs.fs_type = "exFAT", task # "store",
         UNCHANGED <<medium, fs, touched, file, task, level, fil, parts>>, DiskInv',
         dir_next(dj),
         BlockOK(medium, fs.volbase, Object(dj), blk_ofs', dirbuf'),
         dirbuf' # <<>> => dj.dptr + 1 = blk_ofs' + Len(dirbuf'),
         task = "load" => blk_ofs' = blk_ofs /\ dirbuf' # <<>>
  PROVE  VolInv'
<1>1. at \in Reading
  BY DEF Reading
<1>2. DirAt(medium, fs.volbase, dj) /\ level \in Nat
  BY <1>1, WalkFacts
<1>3. /\ WalkInv' /\ at' \in {"next", "entry"} /\ Here' = dj.dptr + 1
      /\ Object(dj') = Object(dj)
  BY <1>1, <1>2, DirNext
<1>4. task = "load" =>
        Object(dj) = fil[file].container /\ blk_ofs = fil[file].c_ofs
  BY BlockFacts
<1>5. BlockInv'
  <2>1. BlockOK(medium, fs.volbase, Object(dj'), blk_ofs', dirbuf')
    BY <1>3
  <2>2. at' # "seek"
    BY <1>3
  <2>3. dirbuf' # <<>> => Here' = blk_ofs' + Len(dirbuf')
    BY <1>3
  <2>4. task' = "load" =>
          /\ Object(dj') = fil'[file'].container /\ blk_ofs' = fil'[file'].c_ofs
          /\ Here' = blk_ofs' + Len(dirbuf')
    BY <1>3, <1>4
  <2>5. task' # "store"
    OBVIOUS
  <2>6. task' \in {"find", "load"}
    BY <2>5, BlockFacts
  <2> QED BY <2>1, <2>2, <2>3, <2>4, <2>5, <2>6 DEF BlockInv
<1>6. LongInv'
  BY DEF LongInv
<1>7. at' \in Reading /\ at' # "seek" /\ level' \in Nat
  BY <1>2, <1>3 DEF Reading
<1> QED BY <1>1, <1>3, <1>5, <1>6, <1>7, Inside

\* f_sync has changed its block, and goes back to the beginning of it.
LEMMA RestoreStep ==
  ASSUME VolInv, at = "entry", fs.fs_type = "exFAT", task = "load",
         UNCHANGED <<medium, fs, touched>>, DiskInv', NEW block, Len(block) > 1,
         BlockOK(medium, fs.volbase, Object(dj), blk_ofs, block), Restore(block)
  PROVE  VolInv'
<1> DEFINE obj == fil[file].container
<1>1. at \in Reading
  BY DEF Reading
<1>2. /\ fs # NoFs /\ VolumeInv /\ FilesInv /\ DiskInv
      /\ file \in DOMAIN Names /\ level \in Nat
      /\ parts \in Int /\ 2 + parts <= Len(Names)
      /\ PerCluster(fs) \in Nat \ {0} /\ Mounted
  BY <1>1, WalkFacts
<1>3. /\ Object(dj) = obj /\ blk_ofs = fil[file].c_ofs /\ blk_ofs \in Nat
      /\ fil[file].open /\ file \in touched
      /\ IsObject(medium, fs.volbase, obj)
      /\ ~Old(medium, fs.volbase, obj, blk_ofs).dir
      /\ StreamIs(medium, fs.volbase, obj, blk_ofs, fil[file])
  BY BlockFacts DEF NamedBlock
<1>4. /\ dirbuf' = Update(block) /\ task' = "store" /\ left' = 1
      /\ dj' = dir_sdi(obj) /\ at' = "seek"
      /\ UNCHANGED <<file, level, blk_ofs, fil, parts>>
  BY DEF Restore
<1>5. DirAt(medium, fs.volbase, dj') /\ dj'.dptr = 0 /\ Object(dj') = obj
  BY <1>2, <1>3, <1>4, DirStart DEF IsObject
<1>6. WalkInv'
  <2>1. 0 % PerCluster(fs) = 0
    BY <1>2
  <2> QED BY <1>3, <1>4, <1>5, <2>1 DEF WalkInv
<1>7. LongInv'
  BY DEF LongInv
<1>8. BlockInv'
  <2>1. BlockOK(medium, fs.volbase, obj, blk_ofs, block)
    BY <1>3
  <2>2. /\ BlockOK(medium, fs.volbase, obj, blk_ofs, Update(block))
        /\ Len(Update(block)) = Len(block) /\ Len(block) \in Nat
    BY <1>3, <2>1, BlockUpdated
  <2>3. 1 \in 1..Len(Update(block))
    BY <2>2
  <2> QED BY <1>3, <1>4, <1>5, <2>2, <2>3 DEF BlockInv
<1>9. FilesInv'
  BY <1>2, <1>4, FilesStay
<1>10. SyncInv'
  BY <1>3, <1>4 DEF SyncInv
<1>11. VolumeInv'
  <2>1. Mounted'
    BY <1>2 DEF Mounted
  <2> QED BY <1>2, <1>4, <2>1, FirstName DEF VolumeInv
<1> QED BY <1>6, <1>7, <1>8, <1>9, <1>10, <1>11 DEF VolInv

LEMMA BlockLoadedStep ==
  ASSUME VolInv, at = "entry", fs.fs_type = "exFAT", task # "store",
         UNCHANGED <<medium, fs, touched>>, DiskInv', NEW sect, NEW block,
         Len(block) > 1, Len(block) = block[1].ord, Len(block) = Len(dirbuf) + 1,
         BlockOK(medium, fs.volbase, Object(dj), BlockStart, block),
         BlockLoaded(block, sect)
  PROVE  VolInv'
<1> DEFINE c   == medium
           b   == fs.volbase
           obj == ObjectOf(block)
<1>1. at \in Reading
  BY DEF Reading
<1>2. /\ fs # NoFs /\ c \in Cards /\ b \in Volumes(c) /\ fs = VolumeOf(c, b)
      /\ DirAt(c, b, dj) /\ dj.dptr \in Nat /\ level \in Nat
      /\ IsObject(c, b, Object(dj))
  BY <1>1, WalkFacts
<1>3. /\ task \in {"find", "load"} /\ BlockStart \in Nat
      /\ dj.dptr = BlockStart + Len(dirbuf) /\ Len(dirbuf) \in Nat
      /\ (dirbuf # <<>> => BlockStart = blk_ofs)
  BY BlockFacts
<1>4. BlockStart = blk_ofs
  <2>1. Len(dirbuf) # 0
    BY <1>3
  <2>2. Len(<<>>) = 0
    BY EmptySeq
  <2> QED BY <1>3, <2>1, <2>2
<1>5. /\ Old(c, b, Object(dj), blk_ofs).type = "filedir"
      /\ Old(c, b, Object(dj), blk_ofs).dir = block[1].dir
      /\ block[3] = Old(c, b, Object(dj), blk_ofs + 2)
      /\ block[1].dir => IsDirectory(c, b, obj)
      /\ StreamIs(c, b, Object(dj), blk_ofs, obj)
  <2>1. BlockStart <= dj.dptr
    BY <1>3
  <2>2. BlockOK(c, b, Object(dj), BlockStart, block)
    OBVIOUS
  <2>3. /\ Old(c, b, Object(dj), BlockStart).type = "filedir"
        /\ Old(c, b, Object(dj), BlockStart).dir = block[1].dir
        /\ block[3] = Old(c, b, Object(dj), BlockStart + 2)
        /\ StreamIs(c, b, Object(dj), BlockStart, obj)
        /\ block[1].dir => IsDirectory(c, b, obj)
    BY <1>2, <1>3, <2>1, <2>2, BlockWhole, Zenon
  <2> HIDE DEF c, b, obj
  <2> QED BY <1>4, <2>3
<1>6. CASE DirFails
  BY <1>1, <1>2, <1>6, DirFailed
<1>7. CASE task = "load" /\ Restore(block)
  BY <1>4, <1>7, RestoreStep
<1>8. CASE task = "find" /\ block[3].name = Segment.long /\ Found(obj, block[1], sect)
  <2>1. CASE level <= Len(Path) /\ block[1].dir
    <3>1. EnterDirectory(obj)
      BY <1>8, <2>1, Zenon DEF Found
    <3> HIDE DEF obj
    <3> QED BY <1>1, <1>5, <1>8, <2>1, <3>1, Enters
  <2>2. CASE level > Len(Path) /\ ~block[1].dir /\ ~block[1].rdo
    <3>1. ~(level <= Len(Path))
      BY <1>2, <2>2, NamesAssumption
    <3>2. Opened(obj, sect)
      BY <1>8, <2>2, <3>1, Zenon DEF Found
    <3>3. Segment = Names[file]
      BY <3>1 DEF Segment, SegmentOf
    <3>4. NamedBlock(c, b, Object(dj), blk_ofs, file)
      BY <1>3, <1>4, <1>5, <1>8, <2>2, <3>3 DEF NamedBlock
    <3>5. ASSUME NEW f, f.container = Object(dj), f.c_ofs = blk_ofs,
                 f.sclust = obj.sclust, f.stat = obj.stat
          PROVE  FileOK(medium, fs.volbase, f, file)
      <4>1. StreamIs(c, b, f.container, f.c_ofs, f)
        BY <1>5, <3>5 DEF StreamIs
      <4> QED BY <1>2, <3>4, <3>5, <4>1 DEF FileOK
    <3>6. \A f : (/\ f.sclust = obj.sclust /\ f.stat = obj.stat
                  /\ f.dir_sect = sect /\ f.dir_ptr = dj.dptr % PerSect
                  /\ f.container = Object(dj) /\ f.c_ofs = blk_ofs)
                 => FileOK(medium, fs.volbase, f, file)
      BY <3>5
    <3> HIDE DEF obj
    <3> QED BY <1>1, <1>8, <3>2, <3>6, Opening
  <2>3. CASE /\ ~(level <= Len(Path) /\ block[1].dir)
             /\ ~(level > Len(Path) /\ ~block[1].dir /\ ~block[1].rdo)
    BY <1>6, <1>8, <2>3, Zenon DEF Found
  <2> QED BY <2>1, <2>2, <2>3
<1>9. CASE /\ task = "find" /\ dirbuf' = <<>> /\ dir_next(dj)
           /\ UNCHANGED <<file, task, level, blk_ofs, left, fil, parts>>
  <2>1. BlockOK(medium, fs.volbase, Object(dj), blk_ofs', dirbuf')
    BY <1>9, NoBlock
  <2> QED BY <1>9, <2>1, ReadsOn
<1> QED BY <1>3, <1>6, <1>7, <1>8, <1>9, Zenon DEF BlockLoaded

LEMMA ExfatEntryStep ==
  ASSUME VolInv, ExfatEntry PROVE VolInv'
<1>1. /\ at = "entry" /\ at \in Reading /\ fs.fs_type = "exFAT" /\ task # "store"
      /\ UNCHANGED <<medium, fs, touched>>
  BY DEF ExfatEntry, Reading
<1>2. fs # NoFs /\ DiskInv
  BY <1>1, WalkFacts
<1>3. PICK m \in move_window(dj.sect) :
        /\ Comes(m)
        /\ LET e == m.win.data.dirent[dj.dptr % PerSect]
               block == Append(dirbuf, e)
               between == dirbuf = <<>> /\ task = "find" /\ e.type # "filedir"
           IN IF ~m.ok \/ (between /\ e.type = "end")
                 \/ (~between /\ ~InOrder(e, Len(block))) THEN DirFails
              ELSE IF Len(block) > 1 /\ Len(block) = block[1].ord
              THEN BlockLoaded(block, m.win.sect)
              ELSE /\ dir_next(dj)
                   /\ dirbuf' = IF between THEN <<>> ELSE block
                   /\ blk_ofs' = IF dirbuf = <<>> /\ ~between THEN dj.dptr
                                 ELSE blk_ofs
                   /\ UNCHANGED <<file, task, level, left, fil, parts>>
  BY DEF ExfatEntry
<1> DEFINE e == m.win.data.dirent[dj.dptr % PerSect]
           block == Append(dirbuf, e)
           between == dirbuf = <<>> /\ task = "find" /\ e.type # "filedir"
<1>4. DiskInv'
  <2>1. DiskOK(medium, touched, card', win')
    BY <1>2, <1>3, MoveWindow DEF Comes
  <2> QED BY <1>1, <1>2, <2>1, DiskStep
<1>5. /\ task \in {"find", "load"} /\ BlockStart \in Nat
      /\ BlockOK(medium, fs.volbase, Object(dj), BlockStart, dirbuf)
      /\ dj.dptr = BlockStart + Len(dirbuf) /\ Len(dirbuf) \in Nat
      /\ (dirbuf # <<>> => BlockStart = blk_ofs)
      /\ (task = "load" => BlockStart = blk_ofs)
  BY <1>1, BlockFacts
<1>6. Len(block) = Len(dirbuf) + 1 /\ block # <<>>
  <2>1. dirbuf \in Seq(Range(dirbuf))
    BY <1>5 DEF BlockOK
  <2>2. Len(block) = Len(dirbuf) + 1
    BY <2>1, Longer
  <2>3. Len(<<>>) = 0
    BY EmptySeq
  <2> QED BY <1>5, <2>2, <2>3
<1>7. CASE DirFails
  BY <1>1, <1>2, <1>4, <1>7, DirFailed
<1>8. CASE m.ok /\ ~DirFails /\ ~between
  <2>1. InOrder(e, Len(block))
    BY <1>3, <1>8, Zenon
  <2>2. BlockOK(medium, fs.volbase, Object(dj), BlockStart, block)
    <3>1. e = m.win.data.dirent[dj.dptr % PerSect]
      OBVIOUS
    <3>2. InOrder(e, Len(dirbuf) + 1)
      BY <1>6, <2>1
    <3> HIDE DEF e
    <3> QED BY <1>1, <1>8, <3>1, <3>2, BlockRead
  <2>3. CASE Len(block) > 1 /\ Len(block) = block[1].ord
    <3>1. BlockLoaded(block, m.win.sect)
      BY <1>3, <1>8, <2>3, Zenon
    <3> HIDE DEF block
    <3> QED BY <1>1, <1>4, <1>6, <2>2, <2>3, <3>1, BlockLoadedStep
  <2>4. CASE ~(Len(block) > 1 /\ Len(block) = block[1].ord)
    <3>1. /\ dir_next(dj)
          /\ dirbuf' = IF between THEN <<>> ELSE block
          /\ blk_ofs' = IF dirbuf = <<>> /\ ~between THEN dj.dptr ELSE blk_ofs
          /\ UNCHANGED <<file, task, level, left, fil, parts>>
      BY <1>3, <1>8, <2>4, Zenon
    <3>2. dirbuf' = block
      BY <1>8, <3>1
    <3>3. blk_ofs' = BlockStart
      <4>1. CASE dirbuf = <<>>
        BY <1>8, <3>1, <4>1 DEF BlockStart
      <4>2. CASE dirbuf # <<>>
        BY <1>5, <3>1, <4>2
      <4> QED BY <4>1, <4>2
    <3> HIDE DEF block, between
    <3>4. dj.dptr + 1 = blk_ofs' + Len(dirbuf')
      BY <1>5, <1>6, <3>2, <3>3
    <3>5. BlockOK(medium, fs.volbase, Object(dj), blk_ofs', dirbuf')
      BY <2>2, <3>2, <3>3
    <3>6. task = "load" => blk_ofs' = blk_ofs /\ dirbuf' # <<>>
      BY <1>5, <1>6, <3>2, <3>3
    <3> QED BY <1>1, <1>4, <3>1, <3>4, <3>5, <3>6, ReadsOn
  <2> QED BY <2>3, <2>4
<1>9. CASE m.ok /\ ~DirFails /\ between
  <2>1. ~(Len(block) > 1)
    <3>1. Len(<<>>) = 0
      BY EmptySeq
    <3>2. Len(dirbuf) = 0
      BY <1>9, <3>1
    <3> HIDE DEF block
    <3> QED BY <1>6, <3>2
  <2>2. /\ dir_next(dj)
        /\ dirbuf' = IF between THEN <<>> ELSE block
        /\ UNCHANGED <<file, task, level, left, fil, parts>>
    BY <1>3, <1>9, <2>1, Zenon
  <2>3. dirbuf' = <<>> /\ task # "load"
    BY <1>9, <2>2
  <2>4. BlockOK(medium, fs.volbase, Object(dj), blk_ofs', dirbuf')
    BY <2>3, NoBlock
  <2> QED BY <1>1, <1>4, <2>2, <2>3, <2>4, ReadsOn, Zenon
<1>10. CASE ~m.ok
  BY <1>3, <1>7, <1>10
<1> QED BY <1>7, <1>8, <1>9, <1>10

\* What f_sync stores is the file's own.
LEMMA OwnEntry ==
  ASSUME VolInv, at = "entry", task = "store"
  PROVE  LET s   == dj.sect
             i   == dj.dptr % PerSect
             old == medium.sectors[s].dirent[i]
         IN /\ left \in 1..Len(dirbuf) /\ Len(dirbuf) \in Nat
            /\ \/ dirbuf[left] = old
               \/ SameFile(dirbuf[left], old) /\ MayChange(medium, touched, s, i)
<1> DEFINE c   == medium
           b   == fs.volbase
           obj == Object(dj)
           ch  == ChainOf(c, b, obj)
           n   == dj.dptr
           s   == dj.sect
           i   == n % PerSect
           p   == <<b, ch, n>>
           e   == dirbuf[left]
           old == Old(c, b, obj, n)
<1>1. at \in Reading /\ at # "seek" /\ Here = n
  BY DEF Reading, Here
<1>2. /\ VolumeInv /\ FilesInv /\ file \in DOMAIN Names
      /\ c \in Cards /\ b \in Volumes(c) /\ fs = VolumeOf(c, b)
      /\ DirAt(c, b, dj) /\ n \in Nat
  BY <1>1, WalkFacts
<1>3. fs.fs_type = "exFAT"
  BY <1>1, <1>2 DEF VolumeInv
<1>4. /\ BlockOK(c, b, obj, blk_ofs, dirbuf)
      /\ obj = fil[file].container /\ blk_ofs = fil[file].c_ofs
      /\ left \in 1..Len(dirbuf) /\ n = blk_ofs + left - 1
  BY <1>1, <1>3 DEF VolInv, BlockInv
<1>5. fil[file].open /\ file \in touched
  BY <1>1 DEF VolInv, SyncInv
<1>6. NamedBlock(c, b, obj, blk_ofs, file)
  <2>1. FileOK(c, b, fil[file], file)
    BY <1>2, <1>5 DEF FilesInv, FilOK
  <2> QED BY <1>2, <1>3, <1>4, <2>1, Zenon DEF FileOK
<1>7. /\ ch \in c.dirs[b] /\ n \in Entries(VolumeOf(c, b), ch)
      /\ PlaceOf(c, p) = <<s, i>> /\ old = c.sectors[s].dirent[i]
  BY <1>2, HereFacts, Zenon
<1>8. p \in Places(c) /\ SoundEntry(c, b, ch, n)
  BY <1>2, <1>7, PlaceFacts, Zenon
<1>9. /\ DOMAIN e = EntryFields /\ InOrder(e, left) /\ Similar(e, old)
      /\ Len(dirbuf) \in Nat
  <2>1. /\ DOMAIN e = EntryFields /\ InOrder(e, left)
        /\ Similar(e, Old(c, b, obj, blk_ofs + left - 1))
        /\ dirbuf \in Seq(Range(dirbuf))
    BY <1>4 DEF BlockOK
  <2> QED BY <1>4, <2>1, LenProperties
<1>10. DOMAIN old = EntryFields
  BY <1>9, SimilarBack
<1>11. e.type = old.type /\ (e.type \notin {"short", "stream", "filedir"} => e = old)
  <2> HIDE DEF e, old
  <2> QED BY <1>9, <1>10, SimilarFields, Zenon
<1>12. left \in Nat \ {0} /\ blk_ofs \in Nat
  BY <1>4, <1>6, <1>9 DEF NamedBlock
<1>13. /\ Old(c, b, obj, blk_ofs).type = "filedir" /\ ~Old(c, b, obj, blk_ofs).dir
       /\ Old(c, b, obj, blk_ofs + 2).name = Names[file].long
  BY <1>6 DEF NamedBlock
<1>14. p[1] = b /\ p[2] = ch /\ p[3] = n
  OBVIOUS
<1>15. ASSUME NEW j PROVE EntryOf(c, VolumeOf(c, p[1]), p[2], p[3] + j) = Old(c, b, obj, n + j)
  BY <1>14, Zenon DEF Old
<1>16. n + 0 = n
  BY <1>2
<1> HIDE DEF p, old, e
<1>17. ASSUME BelongsTo(c, p, file) PROVE MayChange(c, touched, s, i)
  BY <1>5, <1>7, <1>8, <1>17, Zenon DEF MayChange
<1>18. CASE left = 1
  <2>1. n = blk_ofs
    BY <1>4, <1>12, <1>18
  <2>2. BelongsTo(c, p, file)
    BY <1>13, <1>15, <1>16, <2>1, Zenon DEF BelongsTo, HasName
  <2> QED BY <1>4, <1>7, <1>9, <1>17, <2>2, Zenon DEF Similar, e
<1>19. CASE left = 2
  <2>1. n + (-1) = blk_ofs /\ n + 1 = blk_ofs + 2 /\ n > 0
    BY <1>4, <1>12, <1>19
  <2>2. old.type = "stream"
    BY <1>9, <1>11, <1>19 DEF InOrder
  <2>3. ~old.dir
    BY <1>8, <2>2, Zenon DEF SoundEntry, old, Old
  <2>4. /\ EntryOf(c, VolumeOf(c, p[1]), p[2], p[3] + 0) = old
        /\ EntryOf(c, VolumeOf(c, p[1]), p[2], p[3] + (-1)) = Old(c, b, obj, blk_ofs)
        /\ EntryOf(c, VolumeOf(c, p[1]), p[2], p[3] + 1) = Old(c, b, obj, blk_ofs + 2)
    BY <1>15, <1>16, <2>1, Zenon DEF old
  <2>5. BelongsTo(c, p, file)
    BY <1>13, <1>14, <2>1, <2>2, <2>3, <2>4, Zenon DEF BelongsTo, HasName
  <2> QED BY <1>4, <1>7, <1>9, <1>17, <2>5, Zenon DEF Similar, e
<1>20. CASE left \notin {1, 2}
  <2>1. e.type = "filename"
    BY <1>9, <1>20 DEF InOrder
  <2>2. e = old
    BY <1>11, <2>1
  <2> QED BY <1>4, <1>7, <1>9, <2>2, Zenon DEF e
<1> QED BY <1>18, <1>19, <1>20

LEMMA StoreXdirStep ==
  ASSUME VolInv, StoreXdir PROVE VolInv'
<1> DEFINE c == medium
           b == fs.volbase
           s == dj.sect
           i == dj.dptr % PerSect
           e == dirbuf[left]
<1>1. /\ at = "entry" /\ at \in Reading /\ task = "store"
      /\ UNCHANGED <<medium, fs, touched>>
  BY DEF StoreXdir, Reading
<1>2. /\ fs # NoFs /\ VolumeInv /\ FilesInv /\ DiskInv /\ file \in DOMAIN Names
      /\ level \in Nat /\ parts \in Int /\ 2 + parts <= Len(Names)
      /\ c \in Cards /\ b \in Volumes(c) /\ fs = VolumeOf(c, b) /\ Mounted
      /\ DirAt(c, b, dj) /\ dj.dptr \in Nat
  BY <1>1, WalkFacts
<1>3. fs.fs_type = "exFAT" /\ fil[file].open /\ file \in touched
  BY <1>1, <1>2 DEF VolumeInv, VolInv, SyncInv
<1>4. PICK m \in move_window(s) :
        IF ~m.ok THEN Comes(m) /\ DirFails
        ELSE /\ Comes(Edited(m, i, e))
             /\ IF left = Len(dirbuf) THEN at' = "syncFs" /\ UNCHANGED <<dj, left>>
                ELSE dir_next(dj) /\ left' = left + 1
             /\ UNCHANGED <<file, task, level, dirbuf, blk_ofs, fil, parts>>
  BY DEF StoreXdir
<1>5. CASE ~m.ok
  <2>1. Comes(m) /\ DirFails
    BY <1>4, <1>5
  <2>2. DiskOK(medium, touched, card', win')
    BY <1>2, <2>1, MoveWindow DEF Comes
  <2>3. DiskInv'
    BY <1>1, <1>2, <2>2, DiskStep
  <2> QED BY <1>1, <1>2, <2>1, <2>3, DirFailed
<1>6. CASE m.ok
  <2>1. /\ i \in 0..(PerSect - 1) /\ s \in DOMAIN c.sectors
        /\ c.sectors[s].kind = "dir"
        /\ DOMAIN c.sectors[s] = {"kind", "dirent"}
        /\ DOMAIN c.sectors[s].dirent = 0..(PerSect - 1)
    BY <1>2, HereFacts, Zenon
  <2>2. /\ left \in 1..Len(dirbuf) /\ Len(dirbuf) \in Nat
        /\ \/ e = c.sectors[s].dirent[i]
           \/ SameFile(e, c.sectors[s].dirent[i]) /\ MayChange(c, touched, s, i)
    BY <1>1, OwnEntry
  <2>3. /\ Comes(Edited(m, i, e))
        /\ IF left = Len(dirbuf) THEN at' = "syncFs" /\ UNCHANGED <<dj, left>>
           ELSE dir_next(dj) /\ left' = left + 1
        /\ UNCHANGED <<file, task, level, dirbuf, blk_ofs, fil, parts>>
    BY <1>4, <1>6
  <2>4. DiskInv'
    <3>1. DiskOK(medium, touched, Edited(m, i, e).card, Edited(m, i, e).win)
      <4> HIDE DEF i, e
      <4> QED BY <1>2, <1>6, <2>1, <2>2, EditEntry
    <3>2. DiskOK(medium, touched, card', win')
      BY <2>3, <3>1 DEF Comes
    <3> QED BY <1>1, <1>2, <3>2, DiskStep
  <2>5. FilesInv'
    BY <1>1, <1>2, <2>3, FilesStay
  <2>6. CASE left = Len(dirbuf)
    <3>1. at' = "syncFs"
      BY <2>3, <2>6
    <3>2. SyncInv' /\ WalkInv' /\ LongInv' /\ BlockInv'
      BY <1>3, <1>1, <2>3, <3>1 DEF SyncInv, WalkInv, LongInv, BlockInv, Reading
    <3>3. VolumeInv'
      BY <1>1, <1>2, <2>3, <3>1, FirstName DEF VolumeInv, Mounted, Before, Reading
    <3> QED BY <2>4, <2>5, <3>2, <3>3 DEF VolInv
  <2>7. CASE left # Len(dirbuf)
    <3>1. dir_next(dj) /\ left' = left + 1
      BY <2>3, <2>7
    <3>2. /\ WalkInv' /\ at' \in {"next", "entry"} /\ Here' = dj.dptr + 1
          /\ Object(dj') = Object(dj)
      BY <1>1, <1>2, <3>1, DirNext
    <3>3. /\ BlockOK(medium, b, Object(dj), blk_ofs, dirbuf)
          /\ Object(dj) = fil[file].container /\ blk_ofs = fil[file].c_ofs
          /\ dj.dptr = blk_ofs + left - 1 /\ blk_ofs \in Int
      <4>1. Here = dj.dptr /\ at # "seek"
        BY <1>1 DEF Here
      <4>2. /\ BlockOK(medium, b, Object(dj), blk_ofs, dirbuf)
            /\ Object(dj) = fil[file].container /\ blk_ofs = fil[file].c_ofs
            /\ dj.dptr = blk_ofs + left - 1
        BY <1>1, <1>3, <4>1 DEF VolInv, BlockInv
      <4>3. blk_ofs \in Int
        <5>1. FileOK(medium, b, fil[file], file)
          BY <1>2, <1>3 DEF FilesInv, FilOK
        <5> QED BY <1>2, <1>3, <4>2, <5>1 DEF FileOK, NamedBlock
      <4> QED BY <4>2, <4>3
    <3>4. left' \in 1..Len(dirbuf) /\ Here' = blk_ofs + left' - 1
      BY <2>2, <2>7, <3>1, <3>2, <3>3
    <3>5. BlockInv'
      BY <1>1, <2>3, <3>2, <3>3, <3>4 DEF BlockInv
    <3>6. LongInv'
      BY <1>1, <1>3 DEF LongInv
    <3>7. at' \in Reading /\ at' # "seek" /\ level' \in Nat
      BY <1>2, <2>3, <3>2 DEF Reading
    <3> QED BY <1>1, <2>3, <2>4, <3>2, <3>5, <3>6, <3>7, Inside
  <2> QED BY <2>6, <2>7
<1>7. m.ok \in BOOLEAN
  BY <1>2, MoveWindow
<1> QED BY <1>5, <1>6, <1>7

-----------------------------------------------------------------------------
(* The specification                                                       *)

LEMMA InitStep ==
  ASSUME VolInit PROVE VolInv
<1>1. /\ medium \in Cards /\ card = medium.sectors /\ touched = {}
      /\ win = [sect |-> NoSector, data |-> Garbage, dirty |-> FALSE]
      /\ fs = NoFs /\ at = "idle" /\ task = "find" /\ file = 1 /\ level = 1
      /\ fil = [k \in DOMAIN Names |-> Closed] /\ parts = 0
  BY DEF VolInit, PowerOn
<1>2. \A s \in DOMAIN card : Kept(medium, touched, s, card[s])
  BY <1>1, Zenon DEF Kept
<1>3. win.sect \notin DOMAIN card /\ win.dirty = FALSE /\ DOMAIN win = WinFields
  BY <1>1, CardsAssumption DEF Formatted, NoSector, WinFields
<1>4. DiskInv
  BY <1>1, <1>2, <1>3 DEF DiskInv, DiskOK
<1>5. VolumeInv
  BY <1>1, FirstName DEF VolumeInv, Before, Reading
<1>6. FilesInv
  BY <1>1, ClosedOK DEF FilesInv
<1>7. SyncInv /\ WalkInv /\ LongInv /\ BlockInv
  BY <1>1 DEF SyncInv, WalkInv, LongInv, BlockInv, Reading
<1> QED BY <1>4, <1>5, <1>6, <1>7 DEF VolInv

LEMMA VolStutter ==
  ASSUME VolInv, UNCHANGED volVars PROVE VolInv'
<1>1. UNCHANGED <<medium, win, card, fs, at, file, task, level, dj, dirbuf,
                  blk_ofs, left, fil, parts, touched>>
  BY DEF volVars, ioVars, dirVars
<1>2. DiskInv' /\ FilesInv'
  BY <1>1, DiskStays, FilesStay DEF VolInv
<1>3. VolumeInv'
  BY <1>1 DEF VolInv, VolumeInv, Mounted
<1>4. SyncInv' /\ WalkInv'
  BY <1>1 DEF VolInv, SyncInv, WalkInv
<1>5. LongInv'
  BY <1>1 DEF VolInv, LongInv, Here, Segment, SegmentOf
<1>6. BlockInv'
  BY <1>1 DEF VolInv, BlockInv, Here
<1> QED BY <1>2, <1>3, <1>4, <1>5, <1>6 DEF VolInv

\* Wherever a call of FatFs is, and whatever has failed: the window and the card
\* are what the card was at first but for the sizes and the checksums of files
\* that were written to; a directory is read in the order of its chain; and what
\* is loaded of a block, or known of an open file, is of the file it names
\* (ff.c, 1059 to 1103, 1700 to 1805, 2175 to 2310, 2429 to 2500).
THEOREM VolInvariant == VolSpec => []VolInv
<1>1. VolInit => VolInv
  BY InitStep
<1>2. VolInv /\ [VolNext]_volVars => VolInv'
  <2> SUFFICES ASSUME VolInv, [VolNext]_volVars PROVE VolInv'
    OBVIOUS
  <2>1. CASE Mount
    BY <2>1, MountStep
  <2>2. CASE CheckFs
    BY <2>2, CheckFsStep
  <2>3. CASE Bitmap
    BY <2>3, BitmapStep
  <2>4. CASE BitmapChain
    BY <2>4, BitmapChainStep
  <2>5. CASE FsInfo
    BY <2>5, FsInfoStep
  <2>6. CASE FatEntry
    BY <2>6, FatEntryStep
  <2>7. CASE ExfatEntry
    BY <2>7, ExfatEntryStep
  <2>8. CASE NextCluster
    BY <2>8, NextClusterStep
  <2>9. CASE SeekBlock
    BY <2>9, SeekBlockStep
  <2>10. CASE Expand
    BY <2>10, ExpandStep
  <2>11. CASE CreateLinkmap
    BY <2>11, CreateLinkmapStep
  <2>12. CASE Write
    BY <2>12, WriteStep
  <2>13. CASE SyncFat
    BY <2>13, SyncFatStep
  <2>14. CASE SyncExfat
    BY <2>14, SyncExfatStep
  <2>15. CASE StoreXdir
    BY <2>15, StoreXdirStep
  <2>16. CASE SyncFs
    BY <2>16, SyncFsStep
  <2>17. CASE Finalize
    BY <2>17, FinalizeStep
  <2>18. CASE Close
    BY <2>18, CloseStep
  <2>19. CASE PowerLoss
    BY <2>19, PowerLossStep
  <2>20. CASE UNCHANGED volVars
    BY <2>20, VolStutter
  <2> QED BY <2>1, <2>2, <2>3, <2>4, <2>5, <2>6, <2>7, <2>8, <2>9, <2>10, <2>11,
             <2>12, <2>13, <2>14, <2>15, <2>16, <2>17, <2>18, <2>19, <2>20 DEF VolNext
<1> QED BY <1>1, <1>2, PTL DEF VolSpec

\* For every card that is formatted, every file written to, and every failure or
\* loss of power at whatever point: nothing on the card is ever changed but the
\* size, and on exFAT the checksum, in the entries of the files that were written
\* to (ff.c, 1081 to 1103 and 4254 to 4320).
THEOREM VolOthersKept == VolSpec => []OthersKept
<1>1. VolInv => OthersKept
  <2> SUFFICES ASSUME VolInv PROVE OthersKept
    OBVIOUS
  <2>1. \A s \in DOMAIN card : Kept(medium, touched, s, card[s])
    BY DEF VolInv, DiskInv, DiskOK
  <2> QED BY <2>1, Zenon DEF Kept, OthersKept
<1> QED BY <1>1, VolInvariant, PTL

-----------------------------------------------------------------------------
(* The second part: the files of a mounted image.

   A search of a directory that ends without the name has seen every entry, as
   it was at first but for sizes and checksums: on FAT32 the entries of a long
   name count down, on exFAT a block is skipped only as a whole (SoughtInv,
   SeqInv, BufInv).  So what f_open finds is the file of the image, and what it
   does not find is not there, unless a command failed or a block is torn
   (SegInv, FileAtInv, CompleteInv).  The table then grows along the chain of
   that file (LinkInv, DoneInv).  All of it rests on the sizes that f_sync
   writes, which stay within the clusters of the file (DataInv).            *)

-----------------------------------------------------------------------------
(* The cluster link map table                                              *)

\* The fragment e holds the clusters of numbers a to b - 1 of the chain ch.
Fragment(e, ch, a, b) ==
  b = a + e.ncl /\ \A j \in 0..(e.ncl - 1) : ch[a + j + 1] = e.tcl + j

\* The table holds the first m clusters of the chain: fragment i begins at the
\* cluster of number st[i].
Maps(tbl, ch, m) ==
  /\ tbl \in Seq([ncl : Nat \ {0}, tcl : Nat])
  /\ \E st \in [1..(Len(tbl) + 1) -> 0..m] :
       /\ st[1] = 0 /\ st[Len(tbl) + 1] = m
       /\ \A i \in 1..Len(tbl) : Fragment(tbl[i], ch, st[i], st[i + 1])

\* Induction to n, by counting: + 1 maps a set that it keeps to itself.
LEMMA UptoInduction ==
  ASSUME NEW n \in Nat, NEW S \in SUBSET (0..n), 0 \in S,
         \A i \in S : i < n => i + 1 \in S
  PROVE  n \in S
<1> SUFFICES ASSUME n \notin S PROVE FALSE
  OBVIOUS
<1> DEFINE f == [i \in S |-> i + 1]
<1>1. IsFiniteSet(S)
  <2>1. IsFiniteSet(0..n)
    BY FS_Interval
  <2> QED BY <2>1, FS_Subset
<1>2. f \in Injection(S, S)
  <2>1. f \in [S -> S]
    BY DEF f
  <2> QED BY <2>1 DEF Injection, IsInjective
<1>3. f \in Surjection(S, S)
  BY <1>1, <1>2, FS_Injection
<1>4. \E i \in S : f[i] = 0
  BY <1>3 DEF Surjection
<1> QED BY <1>4

LEMMA TableFacts ==
  ASSUME NEW m, NEW ch, NEW tbl, Maps(tbl, ch, m)
  PROVE  /\ Len(tbl) \in Nat
         /\ \A i \in 1..Len(tbl) :
              /\ tbl[i] \in [ncl : Nat \ {0}, tcl : Nat]
              /\ tbl[i].ncl \in Nat \ {0} /\ tbl[i].tcl \in Nat
<1>1. tbl \in Seq([ncl : Nat \ {0}, tcl : Nat])
  BY DEF Maps
<1>2. ASSUME NEW i \in 1..Len(tbl)
      PROVE  /\ tbl[i] \in [ncl : Nat \ {0}, tcl : Nat]
             /\ tbl[i].ncl \in Nat \ {0} /\ tbl[i].tcl \in Nat
  <2>1. tbl[i] \in [ncl : Nat \ {0}, tcl : Nat]
    BY <1>1, ElementOfSeq
  <2> QED BY <2>1
<1> QED BY <1>1, <1>2, LenProperties

\* What is found in the table is the chain.
LEMMA TableIsChain ==
  ASSUME NEW m \in Nat, NEW ch, NEW tbl, Maps(tbl, ch, m), NEW cl \in 0..m
  PROVE  clmt_clust(tbl, cl) = IF cl < m THEN ch[cl + 1] ELSE 0
<1> DEFINE n == Len(tbl)
           At(f, i) == [c \in Nat |-> IF i > n THEN 0
                                      ELSE IF c < tbl[i].ncl THEN c + tbl[i].tcl
                                      ELSE f[i + 1][c - tbl[i].ncl]]
           Finds(f) == [i \in 1..(n + 1) |-> At(f, i)]
           find == CHOOSE f : f = Finds(f)
<1>1. clmt_clust(tbl, cl) = find[1][cl]
  BY DEF clmt_clust
<1>2. PICK st \in [1..(n + 1) -> 0..m] :
        /\ st[1] = 0 /\ st[n + 1] = m
        /\ \A i \in 1..n :
             /\ st[i + 1] = st[i] + tbl[i].ncl
             /\ \A j \in 0..(tbl[i].ncl - 1) : ch[st[i] + j + 1] = tbl[i].tcl + j
  BY DEF Maps, Fragment
<1>3. /\ n \in Nat
      /\ \A i \in 1..n : tbl[i].ncl \in Nat \ {0} /\ tbl[i].tcl \in Nat
  BY TableFacts
<1> DEFINE G(i) == [c \in Nat |-> IF c + st[i] < m THEN ch[c + st[i] + 1] ELSE 0]
           g == [i \in 1..(n + 1) |-> G(i)]
<1>4. g = Finds(g)
  <2>1. ASSUME NEW i \in 1..(n + 1), NEW c \in Nat
        PROVE  G(i)[c] = At(g, i)[c]
    <3>0. /\ G(i)[c] = (IF c + st[i] < m THEN ch[c + st[i] + 1] ELSE 0)
          /\ At(g, i)[c] = (IF i > n THEN 0
                            ELSE IF c < tbl[i].ncl THEN c + tbl[i].tcl
                            ELSE g[i + 1][c - tbl[i].ncl])
      <4> HIDE DEF g
      <4> QED OBVIOUS
    <3> HIDE DEF G, At
    <3>1. CASE i > n
      <4>1. i = n + 1
        BY <1>3, <3>1
      <4>2. st[i] = m
        BY <1>2, <4>1
      <4>3. ~(c + st[i] < m)
        BY <4>2
      <4> QED BY <3>0, <3>1, <4>3
    <3>2. CASE i \in 1..n /\ c < tbl[i].ncl
      <4>0. /\ i \in 1..n /\ i + 1 \in 1..(n + 1) /\ tbl[i].ncl \in Nat \ {0}
            /\ tbl[i].tcl \in Nat /\ c \in 0..(tbl[i].ncl - 1)
        <5> DEFINE x == tbl[i].ncl
        <5>1. x \in Nat \ {0} /\ c < x /\ tbl[i].tcl \in Nat
          BY <1>3, <3>2
        <5> HIDE DEF x
        <5>2. c \in 0..(x - 1)
          BY <5>1
        <5> QED BY <1>3, <3>2, <5>1, <5>2 DEF x
      <4>1. /\ ch[st[i] + c + 1] = tbl[i].tcl + c
            /\ st[i + 1] = st[i] + tbl[i].ncl /\ st[i] \in Nat /\ st[i + 1] \in 0..m
        <5>1. st[i] \in 0..m /\ st[i + 1] \in 0..m
          BY <4>0
        <5> QED BY <1>2, <4>0, <5>1
      <4>2. c + st[i] < m /\ c + st[i] + 1 = st[i] + c + 1 /\ ~(i > n)
        <5> DEFINE x == tbl[i].ncl
                   y == st[i]
                   z == st[i + 1]
        <5>1. x \in Nat /\ y \in Nat /\ z \in 0..m /\ z = y + x /\ c < x
          BY <3>2, <4>0, <4>1
        <5>2. ~(i > n)
          BY <1>3, <4>0
        <5> HIDE DEF x, y, z
        <5>3. c + y < m /\ c + y + 1 = y + c + 1
          BY <5>1
        <5> QED BY <5>2, <5>3 DEF y
      <4>3. tbl[i].tcl + c = c + tbl[i].tcl
        BY <1>3, <3>2
      <4>4. G(i)[c] = ch[st[i] + c + 1]
        BY <3>0, <4>2
      <4>5. At(g, i)[c] = c + tbl[i].tcl
        BY <3>0, <3>2, <4>2
      <4> QED BY <4>1, <4>3, <4>4, <4>5
    <3>3. CASE i \in 1..n /\ ~(c < tbl[i].ncl)
      <4>1. /\ st[i + 1] = st[i] + tbl[i].ncl /\ st[i] \in Nat
            /\ i + 1 \in 1..(n + 1) /\ c - tbl[i].ncl \in Nat /\ ~(i > n)
        BY <1>2, <1>3, <3>3
      <4>2. (c - tbl[i].ncl) + st[i + 1] = c + st[i]
        BY <1>3, <3>3, <4>1
      <4>3. g[i + 1][c - tbl[i].ncl] = G(i)[c]
        BY <4>1, <4>2 DEF G
      <4> QED BY <3>0, <3>3, <4>1, <4>3
    <3> QED BY <1>3, <3>1, <3>2, <3>3
  <2>2. ASSUME NEW i \in 1..(n + 1) PROVE G(i) = At(g, i)
    <3>1. \A c \in Nat : G(i)[c] = At(g, i)[c]
      BY <2>1
    <3>2. G(i) = [c \in Nat |-> G(i)[c]] /\ At(g, i) = [c \in Nat |-> At(g, i)[c]]
      OBVIOUS
    <3> HIDE DEF G, At, g
    <3> QED BY <3>1, <3>2
  <2> HIDE DEF G, At
  <2> QED BY <2>2
<1>5. find = Finds(find)
  <2> HIDE DEF g, Finds
  <2>1. \E f : f = Finds(f)
    BY <1>4
  <2> QED BY <2>1
<1>6. ASSUME NEW f, f = Finds(f)
      PROVE  \A i \in 1..(n + 1), c \in Nat :
               f[i][c] = IF i > n THEN 0
                         ELSE IF c < tbl[i].ncl THEN c + tbl[i].tcl
                         ELSE f[i + 1][c - tbl[i].ncl]
  <2>1. ASSUME NEW i \in 1..(n + 1) PROVE f[i] = At(f, i)
    <3> HIDE DEF At
    <3>1. Finds(f)[i] = At(f, i)
      OBVIOUS
    <3> HIDE DEF Finds
    <3>2. Finds(f)[i] = f[i]
      BY <1>6
    <3> QED BY <3>1, <3>2
  <2>2. ASSUME NEW i \in 1..(n + 1), NEW c \in Nat
        PROVE  f[i][c] = IF i > n THEN 0
                         ELSE IF c < tbl[i].ncl THEN c + tbl[i].tcl
                         ELSE f[i + 1][c - tbl[i].ncl]
    <3>1. f[i][c] = At(f, i)[c]
      <4> HIDE DEF At
      <4> QED BY <2>1
    <3>2. At(f, i)[c] = IF i > n THEN 0
                        ELSE IF c < tbl[i].ncl THEN c + tbl[i].tcl
                        ELSE f[i + 1][c - tbl[i].ncl]
      OBVIOUS
    <3> HIDE DEF At
    <3> QED BY <3>1, <3>2
  <2> HIDE DEF At, Finds
  <2> QED BY <2>2
<1> HIDE DEF find, Finds
<1>7. \A i \in 1..(n + 1), c \in Nat :
        /\ find[i][c] = IF i > n THEN 0
                        ELSE IF c < tbl[i].ncl THEN c + tbl[i].tcl
                        ELSE find[i + 1][c - tbl[i].ncl]
        /\ g[i][c] = IF i > n THEN 0
                     ELSE IF c < tbl[i].ncl THEN c + tbl[i].tcl
                     ELSE g[i + 1][c - tbl[i].ncl]
  <2> HIDE DEF g
  <2> QED BY <1>4, <1>5, <1>6
<1>8. g[1][cl] = IF cl < m THEN ch[cl + 1] ELSE 0
  BY <1>2, <1>3
<1> HIDE DEF g
<1> DEFINE S == {k \in 0..n : \A c \in Nat : find[n + 1 - k][c] = g[n + 1 - k][c]}
<1>9. 0 \in S
  BY <1>3, <1>7
<1>10. ASSUME NEW k \in S, k < n PROVE k + 1 \in S
  <2> DEFINE i == n - k
  <2>1. /\ i \in 1..n /\ n + 1 - k = i + 1 /\ n + 1 - (k + 1) = i
        /\ k + 1 \in 0..n /\ ~(i > n)
    BY <1>3, <1>10
  <2>2. \A c \in Nat : find[i + 1][c] = g[i + 1][c]
    BY <2>1
  <2> HIDE DEF i
  <2>3. ASSUME NEW c \in Nat PROVE find[i][c] = g[i][c]
    <3>1. CASE c < tbl[i].ncl
      BY <1>3, <1>7, <2>1, <3>1
    <3>2. CASE ~(c < tbl[i].ncl)
      <4> DEFINE x == c - tbl[i].ncl
      <4>1. x \in Nat
        <5> DEFINE y == tbl[i].ncl
        <5>1. y \in Nat /\ ~(c < y)
          BY <1>3, <2>1, <3>2
        <5> HIDE DEF y
        <5>2. c - y \in Nat
          BY <5>1
        <5> QED BY <5>2 DEF y
      <4>2. i \in 1..(n + 1)
        BY <1>3, <2>1
      <4>3. /\ find[i][c] = IF i > n THEN 0
                            ELSE IF c < tbl[i].ncl THEN c + tbl[i].tcl
                            ELSE find[i + 1][x]
            /\ g[i][c] = IF i > n THEN 0
                         ELSE IF c < tbl[i].ncl THEN c + tbl[i].tcl
                         ELSE g[i + 1][x]
        BY <1>7, <4>2
      <4> HIDE DEF x
      <4>4. find[i + 1][x] = g[i + 1][x]
        BY <2>2, <4>1
      <4> QED BY <2>1, <3>2, <4>3, <4>4
    <3> QED BY <3>1, <3>2
  <2> QED BY <2>1, <2>3
<1>11. n \in S
  <2>1. S \in SUBSET (0..n)
    OBVIOUS
  <2> HIDE DEF S
  <2> QED BY <1>3, <1>9, <1>10, <2>1, UptoInduction
<1>12. find[1][cl] = g[1][cl]
  BY <1>3, <1>11
<1> QED BY <1>1, <1>8, <1>12

\* The table goes on with the next cluster.
LEMMA ExtendMaps ==
  ASSUME NEW m \in Nat, NEW ch, NEW tbl, Maps(tbl, ch, m), NEW cl \in Nat,
         ch[m + 1] = cl
  PROVE  Maps(Extend(tbl, cl), ch, m + 1)
<1> DEFINE n == Len(tbl)
           R == [ncl : Nat \ {0}, tcl : Nat]
           new == Extend(tbl, cl)
<1>1. PICK st \in [1..(n + 1) -> 0..m] :
        /\ st[1] = 0 /\ st[n + 1] = m
        /\ \A i \in 1..n : Fragment(tbl[i], ch, st[i], st[i + 1])
  BY DEF Maps
<1>2. /\ n \in Nat /\ tbl \in Seq(R)
      /\ \A i \in 1..n : tbl[i] \in R /\ tbl[i].ncl \in Nat \ {0} /\ tbl[i].tcl \in Nat
  <2>1. tbl \in Seq(R)
    BY DEF Maps
  <2> QED BY <2>1, TableFacts
<1> HIDE DEF n
<1>3. CASE Follows(tbl, cl)
  <2> DEFINE last == tbl[n]
             x == last.ncl
             e == [last EXCEPT !.ncl = @ + 1]
  <2>1. n \in 1..n /\ tbl # <<>>
    BY <1>2, <1>3, EmptySeq DEF Follows, n
  <2>2. last \in R /\ x \in Nat \ {0} /\ last.tcl \in Nat /\ cl = last.tcl + x
    BY <1>2, <1>3, <2>1 DEF Follows, Last, n
  <2>3. e \in R /\ e.ncl = x + 1 /\ e.tcl = last.tcl
    BY <2>2
  <2>4. new = Front(tbl) \o <<e>>
    BY <1>3 DEF Extend, Last, n
  <2> HIDE DEF e, new
  <2>5. /\ Front(tbl) \in Seq(R) /\ Len(Front(tbl)) = n - 1
        /\ \A i \in 1..(n - 1) : Front(tbl)[i] = tbl[i]
    <3>1. Front(tbl) = SubSeq(tbl, 1, n - 1)
      BY DEF Front, n
    <3>2. \A i \in 1..(n - 1) : tbl[i] \in R
      BY <1>2
    <3>3. n - 1 \in Nat /\ 1 \in Int /\ n - 1 \in Int
      BY <1>2, <2>1
    <3>4. /\ Front(tbl) \in Seq(R)
          /\ Len(Front(tbl)) = (IF 1 <= n - 1 THEN (n - 1) - 1 + 1 ELSE 0)
          /\ \A i \in 1..((n - 1) - 1 + 1) : Front(tbl)[i] = tbl[1 + i - 1]
      <4> HIDE DEF R
      <4> QED BY <3>1, <3>2, <3>3, SubSeqProperties
    <3>5. Len(Front(tbl)) = n - 1
      BY <3>3, <3>4
    <3>6. ASSUME NEW i \in 1..(n - 1) PROVE Front(tbl)[i] = tbl[i]
      <4>1. i \in 1..((n - 1) - 1 + 1) /\ 1 + i - 1 = i
        BY <3>3
      <4> QED BY <3>4, <4>1
    <3> QED BY <3>4, <3>5, <3>6
  <2>6. /\ new \in Seq(R) /\ Len(new) = n
        /\ \A i \in 1..(n - 1) : new[i] = tbl[i]
        /\ new[n] = e
    <3>1. <<e>> \in Seq(R) /\ Len(<<e>>) = 1 /\ <<e>>[1] = e
      BY <2>3
    <3> HIDE DEF n
    <3>2. Len(new) = n
      BY <1>2, <2>4, <2>5, <3>1, ConcatProperties
    <3>3. new \in Seq(R)
      BY <2>4, <2>5, <3>1, ConcatProperties
    <3>4. \A i \in 1..Len(new) : new[i] = IF i <= n - 1 THEN Front(tbl)[i] ELSE <<e>>[i - (n - 1)]
      BY <2>4, <2>5, <3>1, ConcatProperties
    <3>5. new[n] = e
      <4>1. n \in 1..Len(new) /\ ~(n <= n - 1) /\ n - (n - 1) = 1
        BY <1>2, <2>1, <3>2
      <4> QED BY <3>1, <3>4, <4>1
    <3>6. ASSUME NEW i \in 1..(n - 1) PROVE new[i] = tbl[i]
      <4>1. i \in 1..Len(new) /\ i <= n - 1
        BY <1>2, <3>2
      <4> QED BY <2>5, <3>4, <4>1
    <3> QED BY <3>2, <3>3, <3>5, <3>6
  <2> DEFINE ts == [st EXCEPT ![n + 1] = m + 1]
  <2>7. /\ ts \in [1..(n + 1) -> 0..(m + 1)]
        /\ ts[n + 1] = m + 1
        /\ \A i \in 1..n : ts[i] = st[i] /\ st[i] \in 0..m
    BY <1>1, <1>2
  <2> HIDE DEF ts
  <2>8. ASSUME NEW i \in 1..n
        PROVE  Fragment(new[i], ch, ts[i], ts[i + 1])
    <3>1. CASE i = n
      <4> DEFINE y == st[n]
                 t == last.tcl
      <4>1. y \in Nat /\ ts[n] = y /\ ts[n + 1] = m + 1 /\ new[n] = e
        BY <2>1, <2>6, <2>7
      <4>2. Fragment(last, ch, y, m)
        BY <1>1, <2>1
      <4>3. m = y + x /\ \A j \in 0..(x - 1) : ch[y + j + 1] = t + j
        BY <4>2 DEF Fragment
      <4>4. /\ x \in Nat \ {0} /\ t \in Nat /\ e.ncl = x + 1 /\ e.tcl = t
            /\ ch[m + 1] = t + x
        BY <2>2, <2>3
      <4> HIDE DEF x, y, t
      <4>5. m + 1 = y + e.ncl
        BY <4>1, <4>3, <4>4
      <4>6. ASSUME NEW j \in 0..(e.ncl - 1) PROVE ch[y + j + 1] = e.tcl + j
        <5>1. CASE j = x
          BY <4>1, <4>3, <4>4, <5>1
        <5>2. CASE j # x
          <6>1. j \in 0..(x - 1)
            BY <4>4, <5>2
          <6> QED BY <4>3, <4>4, <6>1
        <5> QED BY <5>1, <5>2
      <4>7. Fragment(e, ch, y, m + 1)
        BY <4>5, <4>6 DEF Fragment
      <4> QED BY <3>1, <4>1, <4>7
    <3>2. CASE i # n
      <4>1. i \in 1..(n - 1) /\ i + 1 \in 1..n
        BY <1>2, <3>2
      <4>2. new[i] = tbl[i] /\ ts[i] = st[i] /\ ts[i + 1] = st[i + 1]
        BY <2>6, <2>7, <4>1
      <4> QED BY <1>1, <4>2
    <3> QED BY <3>1, <3>2
  <2>9. ts[1] = 0
    BY <1>1, <1>2, <2>1, <2>7
  <2> QED BY <2>6, <2>7, <2>8, <2>9 DEF Maps, new
<1>4. CASE ~Follows(tbl, cl)
  <2> DEFINE e == [ncl |-> 1, tcl |-> cl]
  <2>1. new = Append(tbl, e) /\ e \in R
    BY <1>4 DEF Extend
  <2>2. e.ncl = 1 /\ e.tcl = cl
    OBVIOUS
  <2> HIDE DEF e, new
  <2>3. /\ new \in Seq(R) /\ Len(new) = n + 1 /\ new[n + 1] = e
        /\ \A i \in 1..n : new[i] = tbl[i]
    BY <1>2, <2>1, AppendProperties DEF n
  <2> DEFINE ts == [i \in 1..(n + 2) |-> IF i = n + 2 THEN m + 1 ELSE st[i]]
  <2>4. /\ \A i \in 1..(n + 1) : ts[i] = st[i] /\ st[i] \in 0..m
        /\ ts[n + 2] = m + 1
    <3>1. n + 2 \in 1..(n + 2)
      BY <1>2
    <3>2. \A i \in 1..(n + 1) : i \in 1..(n + 2) /\ i # n + 2
      BY <1>2
    <3>3. ts[n + 2] = m + 1
      BY <3>1
    <3>4. \A i \in 1..(n + 1) : ts[i] = st[i]
      BY <3>2
    <3> HIDE DEF ts
    <3> QED BY <3>3, <3>4
  <2>5. ts \in [1..(n + 2) -> 0..(m + 1)]
    BY <1>1, <1>2
  <2> HIDE DEF ts
  <2>6. ASSUME NEW i \in 1..(n + 1)
        PROVE  Fragment(new[i], ch, ts[i], ts[i + 1])
    <3>1. CASE i = n + 1
      <4>1. ts[i + 1] = m + 1 /\ ts[i] = m /\ new[i] = e
        BY <1>1, <1>2, <2>3, <2>4, <3>1
      <4>2. \A j \in 0..(e.ncl - 1) : j = 0
        BY <2>2
      <4>3. m + 0 + 1 = m + 1 /\ cl + 0 = cl
        OBVIOUS
      <4>4. Fragment(e, ch, m, m + 1)
        BY <2>2, <4>2, <4>3 DEF Fragment
      <4> QED BY <4>1, <4>4
    <3>2. CASE i # n + 1
      <4>1. i \in 1..n /\ i \in 1..(n + 1) /\ i + 1 \in 1..(n + 1)
        BY <1>2, <3>2
      <4>2. new[i] = tbl[i] /\ ts[i] = st[i] /\ ts[i + 1] = st[i + 1]
        BY <2>3, <2>4, <4>1
      <4> QED BY <1>1, <4>1, <4>2
    <3> QED BY <3>1, <3>2
  <2>7. ts[1] = 0 /\ n + 1 + 1 = n + 2
    BY <1>1, <1>2, <2>4
  <2>8. Len(new) + 1 = n + 2
    BY <2>3, <2>7
  <2>9. Maps(new, ch, m + 1)
    <3>1. ts \in [1..(Len(new) + 1) -> 0..(m + 1)] /\ ts[Len(new) + 1] = m + 1
      BY <2>4, <2>5, <2>8
    <3>2. \A i \in 1..Len(new) : Fragment(new[i], ch, ts[i], ts[i + 1])
      BY <2>3, <2>6
    <3> QED BY <2>3, <2>7, <3>1, <3>2, Zenon DEF Maps
  <2> QED BY <2>9 DEF new
<1> QED BY <1>3, <1>4

LEMMA NoTable == ASSUME NEW ch PROVE Maps(<<>>, ch, 0)
<1> DEFINE st == [i \in 1..1 |-> 0]
<1>1. Len(<<>>) = 0 /\ <<>> \in Seq([ncl : Nat \ {0}, tcl : Nat])
  OBVIOUS
<1>2. st \in [1..(0 + 1) -> 0..0] /\ st[1] = 0 /\ st[0 + 1] = 0
  OBVIOUS
<1> HIDE DEF st
<1> QED BY <1>1, <1>2 DEF Maps

-----------------------------------------------------------------------------
(* The files of the image                                                  *)

\* What is seen of sector s: the window is before the card.
Seen(sectors, w, s) == IF w.sect = s THEN w.data ELSE sectors[s]

\* Entry n of a directory as it is seen.
SeenAt(f, sectors, w, ch, n) ==
  Seen(sectors, w, SectorOf(f, ch, n)).dirent[n % PerSect]

\* The sizes that a file can have in its clusters.
UpTo(f, size) == f.csize * ((size + f.csize - 1) \div f.csize)

Sizes(c, p) ==
  LET f == VolumeOf(c, p[1])
      size == EntryOf(c, f, p[2], p[3]).size
  IN size..UpTo(f, size)

Sized == {"short", "stream"}

SizesOK(c, s, data) ==
  \A p \in Places(c) :
    /\ PlaceOf(c, p)[1] = s
    /\ EntryOf(c, VolumeOf(c, p[1]), p[2], p[3]).type \in Sized
    => data.dirent[PlaceOf(c, p)[2]].size \in Sizes(c, p)

\* Wherever a file has a size, it is one that it can have.
SizesOn(c, sectors, w) ==
  /\ \A s \in DOMAIN sectors : SizesOK(c, s, sectors[s])
  /\ w.sect \in DOMAIN sectors => SizesOK(c, w.sect, w.data)

\* The window differs from the card only if it is dirty.
CleanOn(sectors, w) ==
  ~w.dirty /\ w.sect \in DOMAIN sectors => w.data = sectors[w.sect]

DataInv == SizesOn(medium, card, win) /\ CleanOn(card, win)

LEMMA UpToFacts ==
  ASSUME NEW f, f.csize \in Nat \ {0}, NEW n \in Nat
  PROVE  /\ UpTo(f, n) \in Nat /\ n <= UpTo(f, n)
         /\ \A s \in n..UpTo(f, n) :
              /\ UpTo(f, s) = UpTo(f, n)
              /\ n # 0 => (s - 1) \div f.csize = (n - 1) \div f.csize
         /\ \A L \in Nat : n <= f.csize * L => UpTo(f, n) <= f.csize * L
         /\ UpTo(f, 0) = 0
<1> DEFINE c == f.csize
           a == n + c - 1
           q == a \div c
           r == a % c
<1>1. c \in Nat \ {0} /\ a \in Nat /\ a = n + (c - 1)
  OBVIOUS
<1>2. UpTo(f, n) = c * q
  BY DEF UpTo
<1>3. \A s : UpTo(f, s) = c * ((s + c - 1) \div c)
  BY DEF UpTo
<1>4. q \in Nat /\ r \in 0..(c - 1) /\ a = c * q + r
  <2> HIDE DEF a, c
  <2> QED BY <1>1, DivMod
<1> HIDE DEF q, r
<1>5. c * q \in Nat
  BY <1>1, <1>4, SMTT(30)
<1> DEFINE u == c * q
<1>6. u \in Nat /\ n + (c - 1) = u + r
  BY <1>1, <1>4, <1>5
<1>7. n <= u
  <2> HIDE DEF u, a, c
  <2> QED BY <1>1, <1>4, <1>6
<1>8. ASSUME NEW s \in n..u
      PROVE  /\ (s + c - 1) \div c = q
             /\ n # 0 => (s - 1) \div c = q - 1
  <2> DEFINE t == s + c - 1 - u
  <2>1. t \in 0..(c - 1) /\ s + c - 1 = u + t
    <3> HIDE DEF u, a, c
    <3> QED BY <1>1, <1>4, <1>6
  <2> HIDE DEF t
  <2>2. (c * q + t) \div c = q
    <3> HIDE DEF c
    <3> QED BY <1>1, <1>4, <2>1, DivUnique
  <2>3. ASSUME n # 0 PROVE (s - 1) \div c = q - 1
    <3>1. q # 0
      <4>1. u # 0
        BY <1>1, <2>3
      <4>2. c * 0 = 0
        BY <1>1
      <4> QED BY <4>1, <4>2
    <3>2. q - 1 \in Nat
      BY <1>4, <3>1
    <3> DEFINE v == q - 1
    <3>3. c * (v + 1) = c * v + c /\ q = v + 1
      <4>1. v \in Nat /\ q = v + 1
        BY <1>4, <3>2
      <4> HIDE DEF v
      <4> QED BY <1>1, <4>1, SMTT(30)
    <3>4. c * v \in Nat
      <4> HIDE DEF v
      <4> QED BY <1>1, <3>2, SMTT(30) DEF v
    <3>5. s - 1 = c * v + t
      <4> DEFINE w == c * v
      <4>1. u = w + c /\ w \in Nat
        BY <3>3, <3>4
      <4> HIDE DEF w, u, c
      <4> QED BY <1>1, <1>6, <2>1, <4>1 DEF w
    <3> HIDE DEF v, c
    <3>6. (c * v + t) \div c = v
      BY <1>1, <2>1, <3>2, DivUnique DEF v
    <3> QED BY <3>5, <3>6 DEF v
  <2> QED BY <2>1, <2>2, <2>3
<1>9. ASSUME NEW L \in Nat, n <= c * L PROVE u <= c * L
  <2> DEFINE x == c * L
  <2>1. x \in Nat /\ x = c * L
    BY <1>1, SMTT(30)
  <2>2. CASE q <= L
    <3>1. PICK k \in Nat : L = q + k
      <4>1. L - q \in Nat /\ L = q + (L - q)
        BY <1>4, <2>2
      <4> QED BY <4>1
    <3>2. c * (q + k) = c * q + c * k /\ c * k \in Nat
      BY <1>1, <1>4, SMTT(30)
    <3> QED BY <1>5, <3>1, <3>2
  <2>3. CASE ~(q <= L)
    <3>1. PICK k \in Nat : q = (L + 1) + k
      <4>1. q - (L + 1) \in Nat /\ q = (L + 1) + (q - (L + 1))
        BY <1>4, <2>3
      <4> QED BY <4>1
    <3>2. c * ((L + 1) + k) = (c * L + c) + c * k /\ c * k \in Nat
      BY <1>1, SMTT(30)
    <3> DEFINE y == c * k
    <3>3. u = (x + c) + y /\ y \in Nat
      BY <3>1, <3>2
    <3>4. n <= x
      BY <1>9
    <3> HIDE DEF x, y, u, c
    <3> QED BY <1>1, <1>4, <1>6, <2>1, <3>3, <3>4
  <2> QED BY <2>2, <2>3
<1>10. UpTo(f, 0) = 0
  <2>1. (0 + c - 1) \div c = 0
    <3>1. (c * 0 + (c - 1)) \div c = 0
      <4>1. c - 1 \in 0..(c - 1)
        BY <1>1
      <4> HIDE DEF c
      <4> QED BY <1>1, <4>1, DivUnique
    <3>2. c * 0 + (c - 1) = 0 + c - 1
      BY <1>1
    <3> QED BY <3>1, <3>2
  <2>2. c * 0 = 0
    BY <1>1
  <2> QED BY <1>3, <2>1, <2>2
<1>11. n \in n..u
  BY <1>5, <1>7
<1>12. \A s \in n..u : /\ UpTo(f, s) = u
                       /\ n # 0 => (s - 1) \div c = (n - 1) \div c
  <2> HIDE DEF u, c
  <2> QED BY <1>3, <1>8, <1>11 DEF u
<1> QED BY <1>2, <1>5, <1>7, <1>9, <1>10, <1>12

\* The image of a card that is mounted.
LEMMA ImageFacts ==
  ASSUME DiskInv, VolumeInv, fs # NoFs
  PROVE  /\ LeadsTo(medium, fs.volbase, Image)
         /\ IsComplete(medium, fs.volbase, Image)
         /\ IsOrderly(medium, fs.volbase)
BY MountedFacts, ImagesAssumption DEF Image

\* Every place is an entry of a chain.
LEMMA PlacesFacts ==
  ASSUME NEW c \in Cards, NEW p \in Places(c)
  PROVE  /\ p = <<p[1], p[2], p[3]>>
         /\ p[1] \in Volumes(c) /\ p[2] \in c.dirs[p[1]]
         /\ p[3] \in Entries(VolumeOf(c, p[1]), p[2])
         /\ p \in PlacesOf(c, p[1])
         /\ SoundEntry(c, p[1], p[2], p[3])
<1>1. PICK b \in Volumes(c) : \E ch \in c.dirs[b] : \E n \in Entries(VolumeOf(c, b), ch) :
        p = <<b, ch, n>>
  BY DEF Places
<1>2. PICK ch \in c.dirs[b] : \E n \in Entries(VolumeOf(c, b), ch) : p = <<b, ch, n>>
  BY <1>1
<1>3. PICK n \in Entries(VolumeOf(c, b), ch) : p = <<b, ch, n>>
  BY <1>2
<1>4. SoundEntry(c, b, ch, n)
  BY PlaceFacts
<1>5. p[1] = b /\ p[2] = ch /\ p[3] = n
  BY <1>3
<1> QED BY <1>3, <1>4, <1>5 DEF PlacesOf

\* The sizes that a file can have.
LEMMA SizesFacts ==
  ASSUME NEW c \in Cards, NEW p \in Places(c),
         EntryOf(c, VolumeOf(c, p[1]), p[2], p[3]).type \in Sized
  PROVE  LET f == VolumeOf(c, p[1])
             n == EntryOf(c, f, p[2], p[3]).size
         IN n \in Nat /\ n \in Sizes(c, p) /\ Sizes(c, p) = n..UpTo(f, n)
<1> DEFINE f == VolumeOf(c, p[1])
           n == EntryOf(c, f, p[2], p[3]).size
<1>1. /\ p[1] \in Volumes(c) /\ p \in PlacesOf(c, p[1])
      /\ p[3] \in Entries(f, p[2])
  BY PlacesFacts
<1>2. p[3] + 0 = p[3]
  BY <1>1 DEF Entries
<1>3. IsOrderly(c, p[1])
  BY <1>1, ImagesAssumption
<1>4. n \in Nat
  BY <1>1, <1>2, <1>3, Zenon DEF IsOrderly, Sized
<1>5. f.csize \in Nat \ {0}
  BY <1>1, VolumeFacts
<1>6. UpTo(f, n) \in Nat /\ n <= UpTo(f, n)
  <2> HIDE DEF f, n
  <2> QED BY <1>4, <1>5, UpToFacts
<1>7. Sizes(c, p) = n..UpTo(f, n)
  BY DEF Sizes
<1> HIDE DEF f, n
<1>8. n \in n..UpTo(f, n)
  BY <1>4, <1>6
<1> QED BY <1>4, <1>7, <1>8 DEF f, n

-----------------------------------------------------------------------------
(* What is seen of the card                                                *)

\* What can be seen stays as it is.
SameSeen(sectors, w) ==
  \A t \in DOMAIN card : Seen(sectors, w, t) = Seen(card, win, t)

LEMMA NoSectorFacts == ASSUME DiskInv PROVE NoSector \notin DOMAIN card /\ DOMAIN card = DOMAIN medium.sectors
BY CardsAssumption DEF NoSector, Formatted, DiskInv, DiskOK

\* What is on the card when the window has been flushed is what was seen.
LEMMA FlushedSeen ==
  ASSUME DiskInv, DataInv
  PROVE  /\ DOMAIN Flushed = DOMAIN card
         /\ \A t \in DOMAIN card : Flushed[t] = Seen(card, win, t)
         /\ \A t \in DOMAIN card : SizesOK(medium, t, Flushed[t])
<1>1. DiskOK(medium, touched, card, win)
  BY DEF DiskInv
<1>2. CASE win.dirty
  <2>1. Flushed = [card EXCEPT ![win.sect] = win.data] /\ win.sect \in DOMAIN card
    BY <1>1, <1>2 DEF Flushed, DiskOK
  <2>2. \A t \in DOMAIN card : Flushed[t] = Seen(card, win, t)
    BY <2>1 DEF Seen
  <2>3. \A t \in DOMAIN card : SizesOK(medium, t, Flushed[t])
    BY <2>1 DEF DataInv, SizesOn
  <2> QED BY <2>1, <2>2, <2>3
<1>3. CASE ~win.dirty
  <2>1. Flushed = card
    BY <1>3 DEF Flushed
  <2>2. \A t \in DOMAIN card : Flushed[t] = Seen(card, win, t)
    BY <1>3, <2>1 DEF Seen, DataInv, CleanOn
  <2> QED BY <2>1, <2>2 DEF DataInv, SizesOn
<1> QED BY <1>2, <1>3

\* move_window never changes what is seen.
LEMMA MoveSeen ==
  ASSUME DiskInv, DataInv, NEW s, NEW m \in move_window(s)
  PROVE  /\ SameSeen(m.card, m.win)
         /\ SizesOn(medium, m.card, m.win) /\ CleanOn(m.card, m.win)
         /\ m.win.dirty => m.win = win /\ m.card = card
         /\ m.ok \in BOOLEAN
         /\ m.ok /\ s \in DOMAIN card => m.win.data = Seen(card, win, s)
<1>1. NoSector \notin DOMAIN card
  BY NoSectorFacts
<1>2. CASE m = [ok |-> TRUE, win |-> win, card |-> card] /\ s = win.sect
  <2>1. m.card = card /\ m.win = win /\ m.ok = TRUE
    BY <1>2
  <2>2. m.win.data = Seen(card, win, s)
    BY <1>2, <2>1 DEF Seen
  <2> QED BY <2>1, <2>2 DEF SameSeen, DataInv
<1>3. CASE m = [ok |-> FALSE, card |-> card, win |-> win]
  <2>1. m.card = card /\ m.win = win /\ m.ok = FALSE
    BY <1>3
  <2> QED BY <2>1 DEF SameSeen, DataInv
<1>4. CASE m = [ok |-> TRUE, card |-> Flushed,
                win |-> [sect |-> s, data |-> Flushed[s], dirty |-> FALSE]]
  <2>1. /\ m.card = Flushed /\ m.ok = TRUE /\ m.win.sect = s
        /\ m.win.data = Flushed[s] /\ m.win.dirty = FALSE
    BY <1>4
  <2>2. SameSeen(m.card, m.win)
    BY <2>1, FlushedSeen DEF SameSeen, Seen
  <2>3. SizesOn(medium, m.card, m.win) /\ CleanOn(m.card, m.win)
    BY <2>1, FlushedSeen DEF SizesOn, CleanOn
  <2> QED BY <2>1, <2>2, <2>3, FlushedSeen
<1>5. CASE m = [ok |-> FALSE, card |-> Flushed, win |-> Lost(s)]
  <2>1. /\ m.card = Flushed /\ m.ok = FALSE /\ m.win.sect = NoSector
        /\ m.win.dirty = FALSE
    BY <1>5 DEF Lost
  <2>2. SameSeen(m.card, m.win)
    BY <1>1, <2>1, FlushedSeen DEF SameSeen, Seen
  <2>3. SizesOn(medium, m.card, m.win) /\ CleanOn(m.card, m.win)
    BY <1>1, <2>1, FlushedSeen DEF SizesOn, CleanOn
  <2> QED BY <2>1, <2>2, <2>3
<1> QED BY <1>2, <1>3, <1>4, <1>5 DEF move_window

LEMMA SyncSeen ==
  ASSUME DiskInv, DataInv, NEW m \in sync_window
  PROVE  /\ SameSeen(m.card, m.win)
         /\ SizesOn(medium, m.card, m.win) /\ CleanOn(m.card, m.win)
         /\ m.ok \in BOOLEAN /\ (m.win.dirty => ~m.ok)
<1>1. CASE m = [ok |-> FALSE, card |-> card, win |-> win]
  <2>1. m.card = card /\ m.win = win /\ m.ok = FALSE
    BY <1>1
  <2> QED BY <2>1 DEF SameSeen, DataInv
<1>2. CASE m = [ok |-> TRUE, card |-> Flushed, win |-> [win EXCEPT !.dirty = FALSE]]
  <2>1. m.card = Flushed /\ m.win = [win EXCEPT !.dirty = FALSE] /\ m.ok = TRUE
    BY <1>2
  <2>2. m.win.sect = win.sect /\ m.win.data = win.data /\ m.win.dirty = FALSE
    BY <2>1 DEF DiskInv, DiskOK, WinFields
  <2>3. SameSeen(m.card, m.win)
    BY <2>1, <2>2, FlushedSeen DEF SameSeen, Seen
  <2>4. SizesOn(medium, m.card, m.win)
    BY <2>1, <2>2, FlushedSeen DEF SizesOn, DataInv
  <2>5. CleanOn(m.card, m.win)
    BY <2>1, <2>2, FlushedSeen DEF CleanOn, Seen
  <2> QED BY <2>1, <2>2, <2>3, <2>4, <2>5
<1> QED BY <1>1, <1>2 DEF sync_window

LEMMA FatSeen ==
  ASSUME DiskInv, DataInv, NEW obj, NEW clst, NEW g \in get_fat(obj, clst)
  PROVE  /\ SameSeen(g.card, g.win)
         /\ SizesOn(medium, g.card, g.win) /\ CleanOn(g.card, g.win)
         /\ g.win.dirty => g.win = win /\ g.card = card
         /\ g.ok \in BOOLEAN
<1>1. CASE clst \notin Clusters(fs) \/ Contiguous(obj)
  <2>1. g.card = card /\ g.win = win /\ g.ok = TRUE
    BY <1>1 DEF get_fat
  <2> QED BY <2>1 DEF DataInv, SameSeen
<1>2. CASE ~(clst \notin Clusters(fs) \/ Contiguous(obj))
  <2>1. PICK m \in move_window(FatSector(clst)) :
          g.card = m.card /\ g.win = m.win /\ g.ok = m.ok
    BY <1>2 DEF get_fat
  <2> QED BY <2>1, MoveSeen
<1> QED BY <1>1, <1>2

\* What is seen when entry i of sector s, in the window, has become e.
EditShows(new, s, i, e) ==
  /\ new.win.sect = s /\ new.win.dirty = TRUE
  /\ new.win.data.dirent[i] = e
  /\ \A j \in 0..(PerSect - 1) : j # i =>
       new.win.data.dirent[j] = Seen(card, win, s).dirent[j]
  /\ \A t \in DOMAIN card : t # s => Seen(new.card, new.win, t) = Seen(card, win, t)

LEMMA EditSeen ==
  ASSUME DiskInv, DataInv, NEW s \in DOMAIN medium.sectors,
         medium.sectors[s].kind = "dir",
         DOMAIN medium.sectors[s] = {"kind", "dirent"},
         DOMAIN medium.sectors[s].dirent = 0..(PerSect - 1),
         NEW m \in move_window(s), m.ok, NEW i \in 0..(PerSect - 1), NEW e
  PROVE  /\ Edited(m, i, e).ok = m.ok /\ Edited(m, i, e).card = m.card
         /\ EditShows(Edited(m, i, e), s, i, e)
<1> DEFINE new == Edited(m, i, e)
           w == m.win
           d == w.data
           x == d.dirent
<1>1. /\ DiskOK(medium, touched, m.card, m.win) /\ m.win.sect = s
      /\ DOMAIN m = {"ok", "win", "card"}
  BY MoveWindow
<1>2. Kept(medium, touched, s, m.win.data)
  BY ReadSector
<1>3. DOMAIN w = WinFields /\ DOMAIN d = {"kind", "dirent"}
      /\ DOMAIN x = 0..(PerSect - 1)
  BY <1>1, <1>2 DEF DiskOK, Kept
<1>4. /\ SameSeen(m.card, m.win) /\ d = Seen(card, win, s)
      /\ DOMAIN card = DOMAIN medium.sectors
  BY MoveSeen, NoSectorFacts
<1>5. /\ new.card = m.card /\ new.ok = m.ok
      /\ new.win = [[w EXCEPT !.data = [d EXCEPT !.dirent = [x EXCEPT ![i] = e]]]
                      EXCEPT !.dirty = TRUE]
  BY <1>1, <1>3 DEF Edited, WinFields
<1>6. /\ new.win.sect = s /\ new.win.dirty = TRUE
      /\ new.win.data.dirent = [x EXCEPT ![i] = e]
  BY <1>1, <1>3, <1>5 DEF WinFields
<1> HIDE DEF new
<1>7. \A t \in DOMAIN card : t # s => Seen(new.card, new.win, t) = Seen(card, win, t)
  BY <1>1, <1>4, <1>5, <1>6 DEF SameSeen, Seen
<1>8. /\ new.win.data.dirent[i] = e
      /\ \A j \in 0..(PerSect - 1) : j # i => new.win.data.dirent[j] = x[j]
  <2> DEFINE y == [x EXCEPT ![i] = e]
  <2>1. y[i] = e /\ \A j \in 0..(PerSect - 1) : j # i => y[j] = x[j]
    BY <1>3
  <2> HIDE DEF y, x
  <2> QED BY <1>6, <2>1 DEF y
<1>9. \A j \in 0..(PerSect - 1) : j # i =>
        new.win.data.dirent[j] = Seen(card, win, s).dirent[j]
  BY <1>4, <1>8, Zenon
<1>10. EditShows(new, s, i, e)
  BY <1>6, <1>7, <1>8, <1>9, Zenon DEF EditShows
<1> QED BY <1>5, <1>10 DEF new

\* The sizes are right when that of the changed entry is.
LEMMA EditSizes ==
  ASSUME DiskInv, DataInv, NEW s \in DOMAIN medium.sectors,
         medium.sectors[s].kind = "dir",
         DOMAIN medium.sectors[s] = {"kind", "dirent"},
         DOMAIN medium.sectors[s].dirent = 0..(PerSect - 1),
         NEW m \in move_window(s), m.ok, NEW i \in 0..(PerSect - 1), NEW e,
         \A p \in Places(medium) :
           /\ PlaceOf(medium, p) = <<s, i>>
           /\ EntryOf(medium, VolumeOf(medium, p[1]), p[2], p[3]).type \in Sized
           => e.size \in Sizes(medium, p)
  PROVE  SizesOn(medium, Edited(m, i, e).card, Edited(m, i, e).win)
         /\ CleanOn(Edited(m, i, e).card, Edited(m, i, e).win)
<1> DEFINE new == Edited(m, i, e)
<1>1. /\ new.card = m.card /\ new.win.sect = s /\ new.win.dirty = TRUE
      /\ new.win.data.dirent[i] = e
      /\ \A j \in 0..(PerSect - 1) : j # i =>
           new.win.data.dirent[j] = Seen(card, win, s).dirent[j]
  <2>1. new.card = m.card /\ EditShows(new, s, i, e)
    BY EditSeen
  <2> QED BY <2>1 DEF EditShows
<1> HIDE DEF new
<1>2. SizesOn(medium, m.card, m.win) /\ m.win.data = Seen(card, win, s)
      /\ m.win.sect = s /\ DOMAIN m.card = DOMAIN medium.sectors
  BY MoveSeen, MoveWindow, NoSectorFacts DEF DiskOK
<1>3. SizesOK(medium, s, m.win.data)
  BY <1>2 DEF SizesOn
<1>4. ASSUME NEW p \in Places(medium), PlaceOf(medium, p)[1] = s,
             EntryOf(medium, VolumeOf(medium, p[1]), p[2], p[3]).type \in Sized
      PROVE  new.win.data.dirent[PlaceOf(medium, p)[2]].size \in Sizes(medium, p)
  <2> DEFINE j == PlaceOf(medium, p)[2]
  <2>1. PlaceOf(medium, p) = <<s, j>> /\ j = p[3] % PerSect
    BY <1>4 DEF PlaceOf
  <2>2. j \in 0..(PerSect - 1)
    <3>1. p[3] \in Nat /\ PerSect \in Nat \ {0}
      BY PlacesFacts, PerAssumption DEF Entries, DiskInv
    <3> QED BY <2>1, <3>1
  <2> HIDE DEF j
  <2>3. CASE j = i
    BY <1>1, <1>4, <2>1, <2>3 DEF j
  <2>4. CASE j # i
    <3>1. m.win.data.dirent[j].size \in Sizes(medium, p)
      BY <1>3, <1>4 DEF SizesOK, j
    <3> QED BY <1>1, <1>2, <2>2, <2>4, <3>1 DEF j
  <2> QED BY <2>3, <2>4
<1>5. SizesOK(medium, s, new.win.data)
  BY <1>4 DEF SizesOK
<1> QED BY <1>1, <1>2, <1>5 DEF SizesOn, CleanOn, new

-----------------------------------------------------------------------------
(* The invariant of the image                                              *)

Base == fs.volbase

\* The chain of the directory that is read.
DirChain == ChainOf(medium, Base, Object(dj))

\* What is in entry n of it.
NowIn(ch, n) == SeenAt(fs, card, win, ch, n)

Finding == at \in {"entry", "next"} /\ task = "find"
InOpen == Finding \/ at \in {"expand", "linkmap"}
Past0   == at \in {"idle", "sync", "syncFs", "close"} \/ (at \in Reading /\ task # "find")

\* A window that has to be written is being written, unless a command failed.
CalmInv ==
  win.dirty /\ ~failed =>
    \/ at \in {"boot", "fatal", "syncFs"}
    \/ at \in {"entry", "next"} /\ task = "store"

\* What is looked for is looked for in the directory that the path leads to.
SegInv ==
  Finding => level \in 1..Len(Image.path) /\ Object(dj) = Image.path[level]

\* The FIL f is that of the entry p, which has the name of file k.
FileAt(f, k, p) ==
  LET obj == ObjectAt(medium, p)
  IN /\ p \in PlacesOf(medium, Base)
     /\ HasName(medium, p, Names[k]) /\ ~IsDirAt(medium, p)
     /\ ~IsReadOnlyAt(medium, p)
     /\ Len(Image.path) = Len(Path) + 1 /\ IsIn(medium, p, Image.path[Len(Path) + 1])
     /\ f.sclust = obj.sclust /\ f.stat = obj.stat
     /\ f.size \in obj.size..UpTo(fs, obj.size)
     /\ IF fs.fs_type = "exFAT"
        THEN /\ p[2] = ChainOf(medium, Base, f.container) /\ p[3] = f.c_ofs
             /\ EntryOf(medium, fs, p[2], p[3]).type = "filedir"
        ELSE /\ PlaceOf(medium, p) = <<f.dir_sect, f.dir_ptr>>
             /\ EntryOf(medium, fs, p[2], p[3]).type = "short"

FileAtInv ==
  \A k \in DOMAIN Names : fil[k].open => \E p \in PlacesOf(medium, Base) : FileAt(fil[k], k, p)

\* The block is loaded as it is in the directory, and not yet whole; until it is
\* stored.
BufInv ==
  at \in Reading /\ fs.fs_type = "exFAT" =>
    /\ Len(dirbuf) >= 2 => dirbuf[2].size \in Sizes(medium, <<Base, DirChain, blk_ofs + 1>>)
    /\ task = "store" => Len(dirbuf) <= dirbuf[1].ord
    /\ task # "store" =>
         /\ \A j \in 1..Len(dirbuf) : dirbuf[j] = NowIn(DirChain, blk_ofs + j - 1)
         /\ dirbuf # <<>> => Len(dirbuf) < dirbuf[1].ord

\* The chain of file k; its FIL is open and has the table.
ChainK(k) == Image.chain[Names[k].long]
NamedK(k) == fil[k].open /\ Maps(fil[k].cltbl, ChainK(k), Len(ChainK(k)))

LinkInv ==
  /\ at = "expand" => fil[file].open /\ fil[file].cltbl = <<>>
  /\ at = "linkmap" =>
       /\ fil[file].open
       /\ IF fil[file].sclust = 0 THEN fil[file].cltbl = <<>>
          ELSE \E i \in 1..Len(ChainK(file)) :
                 /\ Maps(fil[file].cltbl, ChainK(file), i - 1)
                 /\ fil[file].clust = ChainK(file)[i]

\* The last file of the image.
LastFile == 2 + (IF parts = 0 THEN 1 ELSE parts)

DoneInv ==
  fs # NoFs =>
    /\ InOpen => \A k \in 1..(file - 1) : NamedK(k)
    /\ Past0 => LastFile \in 3..Len(Names) /\ \A k \in 1..LastFile : NamedK(k)

\* How far the directory has been searched.
Reached == IF fs.fs_type # "exFAT" \/ dirbuf = <<>> THEN Here ELSE blk_ofs

SoughtInv ==
  Finding =>
    \A p \in PlacesOf(medium, Base) :
      p[2] = DirChain /\ p[3] < Reached => ~IsListed(medium, p, Segment)

\* The entry i before p is that of a long name of m entries.
LongAt(p, x, i, m) ==
  LET e(j) == EntryOf(medium, fs, p[2], p[3] + j)
  IN /\ e(-i).type = "long" /\ e(-i).name = x.long /\ e(-i).sum = sum_sfn(e(0))
     /\ e(-i).ord = i /\ (e(-i).last <=> i = m)

\* Of a long name, what has been read counts.
SeqInv ==
  Finding /\ fs.fs_type = "FAT32" =>
    \A p \in PlacesOf(medium, Base) : p[2] = DirChain =>
      \A m \in 1..p[3] : \A i \in 1..m :
        (\A j \in i..m : LongAt(p, Segment, j, m)) /\ Here = p[3] - i + 1 =>
          dj.ord = i - 1 /\ dj.sum = sum_sfn(EntryOf(medium, fs, p[2], p[3]))

\* The block p does not have the checksum of its entries.
Torn(p) ==
  LET e == NowIn(p[2], p[3])
  IN e.type = "filedir" /\ e.sum # xdir_sum(<<e, NowIn(p[2], p[3] + 1)>>)

Whole0 == PartsInARow = 3..LastFile

\* The block p is being stored.
Storing(p) ==
  at \in Reading /\ task = "store" /\ p[2] = DirChain /\ p[3] = blk_ofs

CompleteInv ==
  fs # NoFs /\ Past0 /\ ~failed =>
    \/ Whole0
    \/ /\ fs.fs_type = "exFAT"
       /\ \E p \in PlacesOf(medium, Base) : Torn(p) /\ ~Storing(p)

FoundInv == SegInv /\ FileAtInv /\ BufInv /\ LinkInv /\ DoneInv
ImageInv == VolInv /\ DataInv /\ FoundInv /\ CalmInv /\ SoughtInv /\ SeqInv /\ CompleteInv

-----------------------------------------------------------------------------
(* Entries of the volume that is mounted                                   *)

LEMMA PlaceHere ==
  ASSUME DiskInv, VolumeInv, fs # NoFs, NEW p \in PlacesOf(medium, Base)
  PROVE  /\ p \in Places(medium) /\ p[1] = Base /\ p = <<Base, p[2], p[3]>>
         /\ p[2] \in medium.dirs[Base] /\ p[3] \in Entries(fs, p[2]) /\ p[3] \in Nat
         /\ p[2] \in Seq(Clusters(fs)) /\ Len(p[2]) \in Nat \ {0}
         /\ SectorOf(fs, p[2], p[3]) \in DOMAIN card
         /\ p[3] % PerSect \in 0..(PerSect - 1)
         /\ PlaceOf(medium, p) = <<SectorOf(fs, p[2], p[3]), p[3] % PerSect>>
<1>1. medium \in Cards /\ Base \in Volumes(medium) /\ fs = VolumeOf(medium, Base)
  BY MountedFacts DEF Base
<1>2. p \in Places(medium) /\ p[1] = Base
  BY DEF PlacesOf
<1>3. /\ p = <<Base, p[2], p[3]>> /\ p[2] \in medium.dirs[Base]
      /\ p[3] \in Entries(fs, p[2])
  BY <1>1, <1>2, PlacesFacts
<1>4. p[3] \in Nat
  BY <1>3 DEF Entries
<1>5. p[2] \in Seq(Clusters(fs))
  BY <1>1, <1>3, ImageFacts DEF IsOrderly, Base
<1>6. PlaceOf(medium, p) = <<SectorOf(fs, p[2], p[3]), p[3] % PerSect>>
  BY <1>1, <1>2, Zenon DEF PlaceOf
<1>7. /\ SectorOf(fs, p[2], p[3]) \in DOMAIN medium.sectors
      /\ p[3] % PerSect \in 0..(PerSect - 1)
  BY <1>1, <1>2, <1>6, PlaceSector
<1>8. Len(p[2]) \in Nat \ {0}
  <2>1. p[2] \in Seq(Nat) \ {<<>>}
    BY <1>1, <1>3, VolumeFacts
  <2> DEFINE ch == p[2]
  <2> HIDE DEF ch
  <2>2. ch \in Seq(Nat) /\ ch # <<>>
    BY <2>1 DEF ch
  <2>3. Len(ch) \in Nat \ {0}
    BY <2>2, EmptySeq
  <2> QED BY <2>3 DEF ch
<1> QED BY <1>2, <1>3, <1>4, <1>5, <1>6, <1>7, <1>8, NoSectorFacts

LEMMA EntryIsPlace ==
  ASSUME DiskInv, VolumeInv, fs # NoFs, NEW ch \in medium.dirs[Base],
         NEW n \in Entries(fs, ch)
  PROVE  /\ <<Base, ch, n>> \in PlacesOf(medium, Base)
         /\ <<Base, ch, n>>[1] = Base /\ <<Base, ch, n>>[2] = ch
         /\ <<Base, ch, n>>[3] = n
<1>1. medium \in Cards /\ Base \in Volumes(medium) /\ fs = VolumeOf(medium, Base)
  BY MountedFacts DEF Base
<1>2. <<Base, ch, n>> \in Places(medium)
  BY <1>1, PlaceFacts, Zenon
<1> QED BY <1>2 DEF PlacesOf

\* What is seen of an entry is the original, but for the size and the checksum.
LEMMA NowFacts ==
  ASSUME DiskInv, VolumeInv, fs # NoFs, DataInv, NEW p \in PlacesOf(medium, Base)
  PROVE  LET old == EntryOf(medium, fs, p[2], p[3])
             now == NowIn(p[2], p[3])
         IN /\ DOMAIN old = EntryFields /\ Similar(now, old)
            /\ DOMAIN now = EntryFields
            /\ now.type = old.type /\ now.name = old.name /\ now.ord = old.ord
            /\ now.last = old.last /\ now.dir = old.dir /\ now.rdo = old.rdo
            /\ now.sclust = old.sclust /\ now.stat = old.stat
            /\ now.type \notin {"short", "stream", "filedir"} => now = old
            /\ old.type \in Sized => now.size \in Sizes(medium, p)
<1> DEFINE s == SectorOf(fs, p[2], p[3])
           i == p[3] % PerSect
           old == EntryOf(medium, fs, p[2], p[3])
           now == NowIn(p[2], p[3])
<1>1. medium \in Cards /\ Base \in Volumes(medium) /\ fs = VolumeOf(medium, Base)
  BY MountedFacts DEF Base
<1>2. /\ p \in Places(medium) /\ p[1] = Base /\ PlaceOf(medium, p) = <<s, i>>
      /\ s \in DOMAIN card
  BY PlaceHere
<1> HIDE DEF s, i
<1>3. /\ s \in DOMAIN medium.sectors /\ medium.sectors[s].kind = "dir"
      /\ i \in 0..(PerSect - 1)
      /\ EntryOf(medium, VolumeOf(medium, p[1]), p[2], p[3])
           = medium.sectors[s].dirent[i]
      /\ DOMAIN medium.sectors[s].dirent[i] = EntryFields
  BY <1>1, <1>2, PlaceSector
<1>4. old = medium.sectors[s].dirent[i]
  BY <1>1, <1>2, <1>3
<1>5. now = Seen(card, win, s).dirent[i]
  BY DEF NowIn, SeenAt, s, i
<1>6. Kept(medium, touched, s, Seen(card, win, s))
  BY <1>2 DEF DiskInv, DiskOK, Seen
<1>7. Similar(now, old)
  <2>1. \/ Seen(card, win, s).dirent[i] = medium.sectors[s].dirent[i]
        \/ SameFile(Seen(card, win, s).dirent[i], medium.sectors[s].dirent[i])
    BY <1>3, <1>6, Zenon DEF Kept
  <2> HIDE DEF old, now
  <2> QED BY <1>4, <1>5, <2>1 DEF Similar
<1>8. DOMAIN old = EntryFields
  BY <1>3, <1>4
<1>9. ASSUME old.type \in Sized PROVE now.size \in Sizes(medium, p)
  <2>1. SizesOK(medium, s, Seen(card, win, s))
    BY <1>2 DEF DataInv, SizesOn, Seen
  <2>2. PlaceOf(medium, p)[1] = s /\ PlaceOf(medium, p)[2] = i
    BY <1>2
  <2>3. EntryOf(medium, VolumeOf(medium, p[1]), p[2], p[3]).type \in Sized
    BY <1>3, <1>4, <1>9
  <2>4. Seen(card, win, s).dirent[i].size \in Sizes(medium, p)
    BY <1>2, <2>1, <2>2, <2>3, Zenon DEF SizesOK
  <2> QED BY <1>5, <2>4
<1> HIDE DEF old, now
<1>10. /\ DOMAIN now = EntryFields
       /\ now.type = old.type /\ now.name = old.name /\ now.ord = old.ord
       /\ now.last = old.last /\ now.dir = old.dir /\ now.rdo = old.rdo
       /\ now.sclust = old.sclust /\ now.stat = old.stat
       /\ (now.type \notin {"short", "stream", "filedir"} => now = old)
  BY <1>7, <1>8, SimilarFields, Zenon
<1> QED BY <1>7, <1>8, <1>9, <1>10 DEF old, now

\* What stands for a directory never changes.
LEMMA DirKept ==
  ASSUME DiskInv, VolumeInv, fs # NoFs, NEW p \in PlacesOf(medium, Base),
         EntryOf(medium, fs, p[2], p[3]).dir
  PROVE  NowIn(p[2], p[3]) = EntryOf(medium, fs, p[2], p[3])
<1> DEFINE s == SectorOf(fs, p[2], p[3])
           i == p[3] % PerSect
           old == EntryOf(medium, fs, p[2], p[3])
           now == NowIn(p[2], p[3])
<1>1. medium \in Cards /\ Base \in Volumes(medium) /\ fs = VolumeOf(medium, Base)
  BY MountedFacts DEF Base
<1>2. /\ p \in Places(medium) /\ p[1] = Base /\ PlaceOf(medium, p) = <<s, i>>
      /\ s \in DOMAIN card /\ p[3] \in Nat
  BY PlaceHere
<1>3. now = Seen(card, win, s).dirent[i]
  BY DEF NowIn, SeenAt
<1> HIDE DEF s, i
<1>4. /\ medium.sectors[s].kind = "dir" /\ i \in 0..(PerSect - 1)
      /\ EntryOf(medium, VolumeOf(medium, p[1]), p[2], p[3])
           = medium.sectors[s].dirent[i]
  BY <1>1, <1>2, PlaceSector
<1>5. Kept(medium, touched, s, Seen(card, win, s))
  BY <1>2 DEF DiskInv, DiskOK, Seen
<1>6. \/ Seen(card, win, s).dirent[i] = medium.sectors[s].dirent[i]
      \/ MayChange(medium, touched, s, i)
  BY <1>4, <1>5, Zenon DEF Kept
<1>7. CASE MayChange(medium, touched, s, i)
  <2>1. PICK q \in Places(medium) :
          PlaceOf(medium, q) = <<s, i>> /\ \E k \in touched : BelongsTo(medium, q, k)
    BY <1>7, Zenon DEF MayChange
  <2>2. q = p
    <3>1. \A x, y \in Places(medium) : PlaceOf(medium, x) = PlaceOf(medium, y) => x = y
      BY <1>1, CardsAssumption, Zenon DEF Formatted
    <3> QED BY <1>2, <2>1, <3>1
  <2>3. PICK k \in touched : BelongsTo(medium, p, k)
    BY <2>1, <2>2
  <2>4. p[3] + 0 = p[3]
    BY <1>2
  <2>5. ~EntryOf(medium, VolumeOf(medium, p[1]), p[2], p[3]).dir
    BY <2>3, <2>4, Zenon DEF BelongsTo
  <2> QED BY <1>1, <1>2, <2>5
<1>8. CASE Seen(card, win, s).dirent[i] = medium.sectors[s].dirent[i]
  BY <1>1, <1>2, <1>3, <1>4, <1>8
<1> QED BY <1>6, <1>7, <1>8

LEMMA NowStays ==
  ASSUME DiskInv, VolumeInv, fs # NoFs, UNCHANGED fs, SameSeen(card', win'),
         NEW p \in PlacesOf(medium, Base)
  PROVE  SeenAt(fs', card', win', p[2], p[3]) = NowIn(p[2], p[3])
<1>1. SectorOf(fs, p[2], p[3]) \in DOMAIN card
  BY PlaceHere
<1>2. Seen(card', win', SectorOf(fs, p[2], p[3]))
        = Seen(card, win, SectorOf(fs, p[2], p[3]))
  BY <1>1 DEF SameSeen
<1> QED BY <1>2 DEF SeenAt, NowIn

-----------------------------------------------------------------------------
(* Steps that change nothing that is seen                                  *)

Gentle ==
  /\ SameSeen(card', win') /\ DataInv'
  /\ failed => failed'
  /\ win'.dirty /\ ~failed' => win.dirty /\ ~failed

LEMMA MoveGentle ==
  ASSUME DiskInv, DataInv, UNCHANGED medium, NEW s, NEW m \in move_window(s), Comes(m)
  PROVE  Gentle
<1>1. /\ SameSeen(m.card, m.win)
      /\ SizesOn(medium, m.card, m.win) /\ CleanOn(m.card, m.win)
      /\ (m.win.dirty => m.win = win)
  BY MoveSeen
<1>2. win' = m.win /\ card' = m.card /\ failed' = (failed \/ ~m.ok)
  BY DEF Comes
<1>3. DataInv'
  BY <1>1, <1>2 DEF DataInv
<1> QED BY <1>1, <1>2, <1>3 DEF Gentle

LEMMA FatGentle ==
  ASSUME DiskInv, DataInv, UNCHANGED medium, NEW obj, NEW clst,
         NEW g \in get_fat(obj, clst), Comes(g)
  PROVE  Gentle
<1>1. /\ SameSeen(g.card, g.win)
      /\ SizesOn(medium, g.card, g.win) /\ CleanOn(g.card, g.win)
      /\ (g.win.dirty => g.win = win)
  BY FatSeen
<1>2. win' = g.win /\ card' = g.card /\ failed' = (failed \/ ~g.ok)
  BY DEF Comes
<1>3. DataInv'
  BY <1>1, <1>2 DEF DataInv
<1> QED BY <1>1, <1>2, <1>3 DEF Gentle

LEMMA SyncGentle ==
  ASSUME DiskInv, DataInv, UNCHANGED medium, NEW m \in sync_window, Comes(m)
  PROVE  Gentle /\ (win'.dirty => failed')
<1>1. /\ SameSeen(m.card, m.win)
      /\ SizesOn(medium, m.card, m.win) /\ CleanOn(m.card, m.win)
      /\ (m.win.dirty => ~m.ok)
  BY SyncSeen
<1>2. win' = m.win /\ card' = m.card /\ failed' = (failed \/ ~m.ok)
  BY DEF Comes
<1>3. DataInv'
  BY <1>1, <1>2 DEF DataInv
<1> QED BY <1>1, <1>2, <1>3 DEF Gentle

LEMMA StillGentle ==
  ASSUME DataInv, UNCHANGED <<medium, card, win, failed>>
  PROVE  Gentle
BY DEF Gentle, DataInv, SameSeen

-----------------------------------------------------------------------------
(* Chains go on as they were                                               *)

\* get_fat of a cluster that is not the last one of its chain comes to the next.
LEMMA GetFatOn ==
  ASSUME DiskInv, VolumeInv, fs # NoFs, NEW obj, obj.sclust = 0 => obj.stat = 0,
         NEW ch \in Seq(Clusters(fs)), IsChain(medium, fs, ch, obj),
         NEW i \in 1..Len(ch), i # Len(ch),
         NEW g \in get_fat(obj, ch[i]), g.ok
  PROVE  IsCluster(g)
<1>1. fs.n_fatent \in Nat /\ Len(ch) \in Nat
      /\ \A j \in 1..Len(ch) : ch[j] \in Clusters(fs) /\ ch[j] \in Nat
  <2>1. fs.n_fatent \in Nat /\ Len(ch) \in Nat
    BY MountedFacts, LenProperties
  <2>2. \A j \in 1..Len(ch) : ch[j] \in Clusters(fs)
    BY ElementOfSeq
  <2> QED BY <2>1, <2>2 DEF Clusters
<1>2. i + 1 \in 1..Len(ch) /\ ch[i] \in Clusters(fs) /\ ch[i + 1] \in Clusters(fs)
  BY <1>1
<1>3. CASE Contiguous(obj)
  <2>1. g.val = Computed(obj, ch[i])
    <3>1. g \in {[ok |-> TRUE, win |-> win, card |-> card,
                  val |-> Computed(obj, ch[i])]}
      BY <1>2, <1>3, Zenon DEF get_fat
    <3> QED BY <3>1
  <2>2. /\ (obj.size - 1) \div fs.csize = Len(ch) - 1
        /\ \A j \in 1..Len(ch) : ch[j] = obj.sclust + j - 1
        /\ ch[1] = obj.sclust
    <3>1. fs.fs_type = "exFAT" /\ obj.sclust # 0 /\ obj.stat = 2
      BY <1>3 DEF Contiguous
    <3> QED BY <3>1, Zenon DEF IsChain
  <2>3. obj.sclust \in Nat
    BY <1>1, <2>2
  <2>4. ch[i] - obj.sclust = i - 1
    BY <2>2, <2>3
  <2>5. g.val = ch[i] + 1
    <3>1. Computed(obj, ch[i]) = (IF i - 1 = Len(ch) - 1 THEN Eoc
                                  ELSE IF i - 1 < Len(ch) - 1 THEN ch[i] + 1 ELSE 1)
      BY <2>2, <2>4, Zenon DEF Computed
    <3>2. i - 1 # Len(ch) - 1 /\ i - 1 < Len(ch) - 1
      BY <1>1
    <3> QED BY <2>1, <3>1, <3>2
  <2>6. ch[i + 1] = ch[i] + 1
    BY <1>2, <2>2, <2>3
  <2> QED BY <1>2, <2>5, <2>6 DEF IsCluster
<1>4. CASE ~Contiguous(obj)
  <2> DEFINE s == fs.fatbase + ch[i] \div PerFat
  <2>1. PICK m \in move_window(s) :
          g = [ok |-> m.ok, win |-> m.win, card |-> m.card,
               val |-> IF m.ok THEN m.win.data.fatent[ch[i] % PerFat] ELSE 0]
    BY <1>2, <1>4, Zenon DEF get_fat, FatSector
  <2>2. /\ s \in DOMAIN medium.sectors /\ medium.sectors[s].kind = "fat"
        /\ medium.sectors[s].fatent[ch[i] % PerFat]
             = IF i = Len(ch) THEN Eoc ELSE ch[i + 1]
    BY <1>4, Zenon DEF IsChain, Contiguous
  <2>3. m.ok /\ g.val = m.win.data.fatent[ch[i] % PerFat]
    BY <2>1
  <2>4. Kept(medium, touched, s, m.win.data)
    BY <2>2, <2>3, ReadSector
  <2>5. m.win.data = medium.sectors[s]
    BY <2>2, <2>4, "fat" # "dir" DEF Kept
  <2>6. g.val = ch[i + 1]
    BY <2>2, <2>3, <2>5, Zenon
  <2> QED BY <1>2, <2>6 DEF IsCluster
<1> QED BY <1>3, <1>4

-----------------------------------------------------------------------------
(* Reading a directory                                                     *)

\* Where dj stands, and what is seen there.
HerePlace == <<Base, DirChain, dj.dptr>>
EntryHere == NowIn(DirChain, dj.dptr)
OldHere   == EntryOf(medium, fs, DirChain, dj.dptr)

LEMMA DirPlace ==
  ASSUME VolInv, at \in Reading
  PROVE  /\ HerePlace \in PlacesOf(medium, Base)
         /\ HerePlace[1] = Base /\ HerePlace[2] = DirChain /\ HerePlace[3] = dj.dptr
         /\ DirChain \in medium.dirs[Base] /\ dj.dptr \in Entries(fs, DirChain)
         /\ DirChain \in Seq(Clusters(fs)) /\ dj.dptr \in Nat
         /\ IsChain(medium, fs, DirChain, Object(dj))
         /\ IsIn(medium, HerePlace, Object(dj))
         /\ SectorOf(fs, DirChain, dj.dptr) = dj.sect
         /\ PlaceOf(medium, HerePlace) = <<dj.sect, dj.dptr % PerSect>>
         /\ OldHere = Old(medium, Base, Object(dj), dj.dptr)
<1>1. /\ fs # NoFs /\ VolumeInv /\ DiskInv
      /\ medium \in Cards /\ Base \in Volumes(medium) /\ fs = VolumeOf(medium, Base)
      /\ DirAt(medium, Base, dj) /\ dj.dptr \in Nat
      /\ IsObject(medium, Base, Object(dj))
  BY WalkFacts DEF Base
<1>2. /\ DirChain \in medium.dirs[Base] /\ dj.dptr \in Entries(fs, DirChain)
      /\ PlaceOf(medium, HerePlace) = <<dj.sect, dj.dptr % PerSect>>
  BY <1>1, HereFacts, Zenon DEF DirChain, HerePlace
<1>3. /\ HerePlace \in PlacesOf(medium, Base)
      /\ HerePlace[1] = Base /\ HerePlace[2] = DirChain /\ HerePlace[3] = dj.dptr
  BY <1>1, <1>2, EntryIsPlace DEF HerePlace
<1>4. DirChain \in Seq(Clusters(fs))
  BY <1>1, <1>3, PlaceHere
<1>5. IsChain(medium, fs, DirChain, Object(dj))
  BY <1>1, ChainFacts DEF DirChain, IsObject
<1>6. IsIn(medium, HerePlace, Object(dj))
  BY <1>1, <1>3, <1>5 DEF IsIn
<1>7. SectorOf(fs, DirChain, dj.dptr) = dj.sect
  BY <1>1, Zenon DEF DirAt, DirChain
<1>8. OldHere = Old(medium, Base, Object(dj), dj.dptr)
  BY <1>1, Zenon DEF OldHere, Old, DirChain
<1> QED BY <1>1, <1>2, <1>3, <1>4, <1>5, <1>6, <1>7, <1>8

\* What the window holds is what is seen there.
LEMMA ReadHere ==
  ASSUME VolInv, DataInv, at = "entry", NEW m \in move_window(dj.sect), m.ok
  PROVE  /\ m.win.data.dirent[dj.dptr % PerSect] = EntryHere
         /\ m.win.sect = dj.sect
<1>1. at \in Reading /\ DiskInv
  BY DEF Reading, VolInv
<1>2. dj.sect \in DOMAIN card
  <2>1. fs # NoFs /\ VolumeInv
    BY <1>1, WalkFacts
  <2>2. SectorOf(fs, HerePlace[2], HerePlace[3]) \in DOMAIN card
    BY <1>1, <2>1, DirPlace, PlaceHere
  <2> QED BY <1>1, <2>2, DirPlace
<1>3. m.win.data = Seen(card, win, dj.sect)
  BY <1>1, <1>2, MoveSeen
<1>4. m.win.sect = dj.sect
  BY <1>1, MoveWindow
<1>5. EntryHere = Seen(card, win, dj.sect).dirent[dj.dptr % PerSect]
  BY <1>1, DirPlace DEF EntryHere, NowIn, SeenAt
<1> QED BY <1>3, <1>4, <1>5

\* What is known of the entry where dj stands.
LEMMA HereNow ==
  ASSUME VolInv, DataInv, at \in Reading
  PROVE  /\ DOMAIN OldHere = EntryFields /\ Similar(EntryHere, OldHere)
         /\ DOMAIN EntryHere = EntryFields
         /\ EntryHere.type = OldHere.type /\ EntryHere.name = OldHere.name
         /\ EntryHere.ord = OldHere.ord /\ EntryHere.last = OldHere.last
         /\ EntryHere.dir = OldHere.dir /\ EntryHere.rdo = OldHere.rdo
         /\ EntryHere.sclust = OldHere.sclust
         /\ EntryHere.stat = OldHere.stat
         /\ (EntryHere.type \notin {"short", "stream", "filedir"} => EntryHere = OldHere)
         /\ (OldHere.type \in Sized => EntryHere.size \in Sizes(medium, HerePlace))
<1>1. fs # NoFs /\ VolumeInv /\ DiskInv
  BY WalkFacts
<1>2. HerePlace \in PlacesOf(medium, Base) /\ HerePlace[2] = DirChain
      /\ HerePlace[3] = dj.dptr
  BY DirPlace
<1> DEFINE old == EntryOf(medium, fs, HerePlace[2], HerePlace[3])
           now == NowIn(HerePlace[2], HerePlace[3])
<1>3. old = OldHere /\ now = EntryHere
  BY <1>2 DEF OldHere, EntryHere
<1>4. /\ DOMAIN old = EntryFields /\ Similar(now, old)
      /\ DOMAIN now = EntryFields
      /\ now.type = old.type /\ now.name = old.name /\ now.ord = old.ord
      /\ now.last = old.last /\ now.dir = old.dir /\ now.rdo = old.rdo
      /\ now.sclust = old.sclust /\ now.stat = old.stat
      /\ (now.type \notin {"short", "stream", "filedir"} => now = old)
      /\ (old.type \in Sized => now.size \in Sizes(medium, HerePlace))
  BY <1>1, <1>2, NowFacts
<1> HIDE DEF old, now
<1> QED BY <1>3, <1>4

\* The entry p of the directory has the name that is looked for, and FatFs takes
\* it for obj.
Hit(p, obj, e, sect) ==
  LET of == ObjectAt(medium, p)
  IN /\ p \in PlacesOf(medium, Base) /\ p[2] = DirChain
     /\ IsIn(medium, p, Object(dj)) /\ HasName(medium, p, Segment)
     /\ (e.dir <=> IsDirAt(medium, p)) /\ (e.rdo <=> IsReadOnlyAt(medium, p))
     /\ obj.sclust = of.sclust /\ obj.stat = of.stat
     /\ obj.size \in of.size..UpTo(fs, of.size)
     /\ e.dir => obj = of
     /\ Found(obj, e, sect)
     /\ IF fs.fs_type = "exFAT"
        THEN p[3] = blk_ofs /\ EntryOf(medium, fs, p[2], p[3]).type = "filedir"
        ELSE /\ PlaceOf(medium, p) = <<sect, dj.dptr % PerSect>>
             /\ EntryOf(medium, fs, p[2], p[3]).type = "short"

\* The outcomes of FatEntry.
FatEnds == DirFails /\ OldHere.type = "end"

FatPasses ==
  LET e == EntryHere
  IN /\ ~(e.type = "short" /\ ShortNameMatches(e))
     /\ dir_next(IF e.type = "long" THEN LongNameSeen(e) ELSE Unordered(dj))
     /\ UNCHANGED <<file, task, level, dirbuf, blk_ofs, left, fil, parts>>

LEMMA FatHit ==
  ASSUME VolInv, DataInv, at = "entry", fs.fs_type = "FAT32",
         EntryHere.type = "short", ShortNameMatches(EntryHere),
         Found([sclust |-> EntryHere.sclust, size |-> EntryHere.size, stat |-> 0],
               EntryHere, dj.sect)
  PROVE  \E p, obj, e, sect : Hit(p, obj, e, sect)
<1> DEFINE e == EntryHere
           old == OldHere
           p == HerePlace
           n == dj.dptr
           obj == [sclust |-> e.sclust, size |-> e.size, stat |-> 0]
<1>1. at \in Reading
  BY DEF Reading
<1>2. fs # NoFs /\ VolumeInv /\ DiskInv /\ fs = VolumeOf(medium, Base)
      /\ Mounted
  BY <1>1, WalkFacts DEF Base
<1>3. /\ p \in PlacesOf(medium, Base) /\ p[1] = Base /\ p[2] = DirChain /\ p[3] = n
      /\ n \in Nat /\ IsIn(medium, p, Object(dj))
      /\ PlaceOf(medium, p) = <<dj.sect, n % PerSect>>
      /\ old = Old(medium, Base, Object(dj), n)
  BY <1>1, DirPlace
<1>4. /\ e.type = old.type /\ e.name = old.name /\ e.dir = old.dir
      /\ e.rdo = old.rdo /\ e.sclust = old.sclust /\ old.type \in Sized
      /\ e.size \in Sizes(medium, p)
  BY <1>1, HereNow DEF Sized
<1>5. /\ EntryOf(medium, VolumeOf(medium, p[1]), p[2], p[3]) = old
      /\ EntryOf(medium, VolumeOf(medium, p[1]), p[2], p[3] + 0) = old
      /\ EntryOf(medium, VolumeOf(medium, p[1]), p[2], p[3] + (-1))
           = Old(medium, Base, Object(dj), n - 1)
  <2>1. n + 0 = n /\ n + (-1) = n - 1
    BY <1>3
  <2> QED BY <1>2, <1>3, <2>1, Zenon DEF OldHere, Old, DirChain
<1>6. HasName(medium, p, Segment)
  <2> DEFINE pre == Old(medium, Base, Object(dj), n - 1)
  <2>1. CASE dj.ord = 0 /\ dj.sum = sum_sfn(e)
    <3>1. Here - 1 = n - 1 /\ LongSeen(medium, Base, dj, Here - 1, Segment.long)
      BY <1>1 DEF VolInv, LongInv, Here, Base
    <3>2. /\ n - 1 >= 0 /\ pre.type = "long" /\ pre.name = Segment.long
          /\ pre.sum = dj.sum
      BY <2>1, <3>1, Zenon DEF LongSeen
    <3>3. n > 0
      BY <1>3, <3>2
    <3>4. pre.sum = sum_sfn(old) /\ old.type = "short"
      BY <1>4, <2>1, <3>2 DEF sum_sfn
    <3> HIDE DEF pre, p, old
    <3> QED BY <1>3, <1>5, <3>2, <3>3, <3>4, Zenon DEF HasName, pre
  <2>2. CASE ~Segment.lossy /\ e.name = Segment.short
    <3>1. old.type = "short" /\ old.name = Segment.short
      BY <1>4, <2>2
    <3> HIDE DEF p, old
    <3> QED BY <1>5, <2>2, <3>1, Zenon DEF HasName
  <2> QED BY <2>1, <2>2 DEF ShortNameMatches
<1>7. (e.dir <=> IsDirAt(medium, p)) /\ (e.rdo <=> IsReadOnlyAt(medium, p))
  <2> HIDE DEF p, old, e
  <2> QED BY <1>4, <1>5, Zenon DEF IsDirAt, IsReadOnlyAt
<1>8. /\ ObjectAt(medium, p).sclust = old.sclust
      /\ ObjectAt(medium, p).size = old.size /\ ObjectAt(medium, p).stat = 0
      /\ ObjectAt(medium, p) = [sclust |-> old.sclust, size |-> old.size, stat |-> 0]
  <2>1. old.type # "filedir"
    BY <1>4
  <2> HIDE DEF p, old
  <2>2. ObjectAt(medium, p) = [sclust |-> old.sclust, size |-> old.size, stat |-> 0]
    BY <1>5, <2>1, Zenon DEF ObjectAt
  <2> QED BY <2>2
<1>9. e.size \in old.size..UpTo(fs, old.size)
  BY <1>2, <1>3, <1>4, <1>5, Zenon DEF Sizes
<1>10. e.dir => obj = ObjectAt(medium, p)
  <2>1. EntryOf(medium, fs, p[2], p[3]) = old /\ NowIn(p[2], p[3]) = e
    BY <1>3 DEF OldHere, EntryHere
  <2>2. e.dir => e = old
    <3> HIDE DEF p, e, old
    <3> QED BY <1>2, <1>3, <1>4, <2>1, DirKept
  <2> QED BY <1>8, <2>2
<1>11. obj.sclust = e.sclust /\ obj.size = e.size /\ obj.stat = 0
  OBVIOUS
<1>12. Found(obj, e, dj.sect)
  OBVIOUS
<1>13. fs.fs_type # "exFAT" /\ EntryOf(medium, fs, p[2], p[3]).type = "short"
  BY <1>2, <1>3, <1>4, <1>5
<1> HIDE DEF obj, e, p, old, n
<1>14. Hit(p, obj, e, dj.sect)
  BY <1>3, <1>4, <1>6, <1>7, <1>8, <1>9, <1>10, <1>11, <1>12, <1>13 DEF Hit, n
<1> QED BY <1>14

LEMMA FatOutcomes ==
  ASSUME VolInv, DataInv, FatEntry
  PROVE  /\ at = "entry" /\ fs.fs_type = "FAT32" /\ task = "find" /\ fs # NoFs
         /\ UNCHANGED <<medium, fs, closing, touched>>
         /\ Gentle
         /\ \/ DirFails /\ failed'
            \/ FatEnds
            \/ \E p, obj, x, sect : Hit(p, obj, x, sect)
            \/ FatPasses
<1> DEFINE e == EntryHere
           obj == [sclust |-> e.sclust, size |-> e.size, stat |-> 0]
<1>1. /\ at = "entry" /\ at \in Reading /\ fs.fs_type = "FAT32"
      /\ UNCHANGED <<medium, fs, closing, touched>>
  BY DEF FatEntry, Reading
<1>2. fs # NoFs /\ VolumeInv /\ DiskInv
  BY <1>1, WalkFacts
<1>3. task = "find"
  BY <1>1, <1>2 DEF VolumeInv
<1>4. PICK m \in move_window(dj.sect) :
        /\ Comes(m)
        /\ LET x == m.win.data.dirent[dj.dptr % PerSect]
               match == x.type = "short" /\ ShortNameMatches(x)
           IN IF ~m.ok \/ x.type = "end" THEN DirFails
              ELSE IF match
              THEN Found([sclust |-> x.sclust, size |-> x.size, stat |-> 0],
                         x, m.win.sect)
              ELSE /\ dir_next(IF x.type = "long" THEN LongNameSeen(x)
                               ELSE Unordered(dj))
                   /\ UNCHANGED <<file, task, level, dirbuf, blk_ofs, left, fil,
                                  parts>>
  BY Zenon DEF FatEntry
<1>5. Gentle
  BY <1>1, <1>2, <1>4, MoveGentle
<1>6. CASE ~m.ok
  <2>1. DirFails /\ failed'
    BY <1>4, <1>6 DEF Comes
  <2> QED BY <1>1, <1>2, <1>3, <1>5, <2>1
<1>7. CASE m.ok
  <2>1. m.win.data.dirent[dj.dptr % PerSect] = e /\ m.win.sect = dj.sect
    BY <1>1, <1>7, ReadHere
  <2>2. IF e.type = "end" THEN DirFails
        ELSE IF e.type = "short" /\ ShortNameMatches(e)
        THEN Found(obj, e, dj.sect)
        ELSE /\ dir_next(IF e.type = "long" THEN LongNameSeen(e) ELSE Unordered(dj))
             /\ UNCHANGED <<file, task, level, dirbuf, blk_ofs, left, fil, parts>>
    <3> HIDE DEF e
    <3> QED BY <1>4, <1>7, <2>1, Zenon
  <2>3. e.type = OldHere.type
    BY <1>1, HereNow
  <2>4. CASE e.type = "end"
    BY <1>1, <1>2, <1>3, <1>5, <2>2, <2>3, <2>4 DEF FatEnds
  <2>5. CASE e.type # "end" /\ e.type = "short" /\ ShortNameMatches(e)
    <3>1. Found(obj, e, dj.sect)
      BY <2>2, <2>5
    <3>2. \E p, x, y, sect : Hit(p, x, y, sect)
      BY <1>1, <2>5, <3>1, FatHit
    <3> QED BY <1>1, <1>2, <1>3, <1>5, <3>2
  <2>6. CASE e.type # "end" /\ ~(e.type = "short" /\ ShortNameMatches(e))
    <3>1. FatPasses
      BY <2>2, <2>6, Zenon DEF FatPasses
    <3> QED BY <1>1, <1>2, <1>3, <1>5, <3>1
  <2> QED BY <2>4, <2>5, <2>6
<1> QED BY <1>6, <1>7

-----------------------------------------------------------------------------
(* Reading a block of an exFAT directory                                   *)

\* The block that is being read, with the entry where dj stands, as it is seen.
BlockPlace == <<Base, DirChain, BlockStart>>
BlockHere  == Append(dirbuf, EntryHere)
OldBlock(i) == EntryOf(medium, fs, DirChain, BlockStart + i)

\* The entry is one of a block.
InBlock == ~(dirbuf = <<>> /\ task = "find" /\ EntryHere.type # "filedir")

\* A block lies within its directory, its entries in order.
LEMMA BlockOrder ==
  ASSUME DiskInv, VolumeInv, fs # NoFs, NEW p \in PlacesOf(medium, Base),
         EntryOf(medium, fs, p[2], p[3]).type = "filedir"
  PROVE  LET ord == EntryOf(medium, fs, p[2], p[3]).ord
         IN /\ ord \in Nat \ {0, 1, 2}
            /\ \A i \in 1..ord :
                 /\ p[3] + i - 1 \in Entries(fs, p[2])
                 /\ InOrder(EntryOf(medium, fs, p[2], p[3] + i - 1), i)
<1> DEFINE e(i) == EntryOf(medium, fs, p[2], p[3] + i)
<1>1. medium \in Cards /\ Base \in Volumes(medium) /\ fs = VolumeOf(medium, Base)
  BY MountedFacts DEF Base
<1>2. /\ p[1] = Base /\ p \in Places(medium) /\ p[3] \in Nat
      /\ p[3] \in Entries(fs, p[2]) /\ p[2] \in medium.dirs[Base]
  BY PlaceHere
<1>3. p[3] + 0 = p[3]
  BY <1>2
<1>4. e(0) = EntryOf(medium, fs, p[2], p[3]) /\ e(0).type = "filedir"
  BY <1>3
<1>5. IsOrderly(medium, Base)
  BY ImageFacts DEF Base
<1>6. \A i \in 1..e(0).ord :
        p[3] + i - 1 \in Entries(fs, p[2]) /\ InOrder(e(i - 1), i)
  <2> HIDE DEF e
  <2>1. \A i \in 1..e(0).ord :
          p[3] + i - 1 \in Entries(VolumeOf(medium, Base), p[2]) /\ InOrder(e(i - 1), i)
    BY <1>1, <1>4, <1>5, Zenon DEF IsOrderly, e
  <2> QED BY <1>1, <2>1
<1>7. e(0).ord \in Nat \ {0, 1, 2}
  <2>1. SoundEntry(medium, Base, p[2], p[3])
    BY <1>1, <1>2, PlaceFacts, Zenon
  <2> QED BY <1>1, <1>4, <2>1, Zenon DEF SoundEntry
<1>8. ASSUME NEW i \in 1..e(0).ord PROVE e(i - 1) = EntryOf(medium, fs, p[2], p[3] + i - 1)
  <2>1. i \in Nat /\ p[3] + (i - 1) = p[3] + i - 1
    BY <1>2, <1>7
  <2> QED BY <2>1
<1> HIDE DEF e
<1> QED BY <1>4, <1>6, <1>7, <1>8

\* A block that has been begun.
LEMMA BlockBegun ==
  ASSUME VolInv, BufInv, FileAtInv, at \in {"entry", "next"}, fs.fs_type = "exFAT",
         dirbuf # <<>>
  PROVE  /\ <<Base, DirChain, blk_ofs>> \in PlacesOf(medium, Base)
         /\ blk_ofs \in Nat /\ Len(dirbuf) \in Nat \ {0}
         /\ EntryOf(medium, fs, DirChain, blk_ofs).type = "filedir"
         /\ EntryOf(medium, fs, DirChain, blk_ofs).ord = dirbuf[1].ord
         /\ dirbuf[1].ord \in Nat \ {0, 1, 2}
         /\ Here = blk_ofs + (IF task = "store" THEN left - 1 ELSE Len(dirbuf))
         /\ task # "store" => Len(dirbuf) < dirbuf[1].ord
         /\ task = "store" => left \in 1..dirbuf[1].ord
         /\ \A i \in 1..dirbuf[1].ord :
              /\ blk_ofs + i - 1 \in Entries(fs, DirChain)
              /\ InOrder(EntryOf(medium, fs, DirChain, blk_ofs + i - 1), i)
         /\ Here \in Entries(fs, DirChain)
<1> DEFINE ch == DirChain
           old == EntryOf(medium, fs, ch, blk_ofs)
           len == Len(dirbuf)
           q == <<Base, ch, blk_ofs>>
<1>1. at \in Reading /\ at # "seek"
  BY DEF Reading
<1>2. /\ fs # NoFs /\ VolumeInv /\ DiskInv /\ fs = VolumeOf(medium, Base)
      /\ dj.dptr \in Nat /\ task \in {"find", "load", "store"}
      /\ file \in DOMAIN Names
  BY <1>1, WalkFacts DEF Base
<1>3. /\ BlockOK(medium, Base, Object(dj), blk_ofs, dirbuf)
      /\ task # "store" => Here = blk_ofs + len
      /\ task = "store" => left \in 1..len /\ Here = blk_ofs + left - 1
      /\ task # "find" => Object(dj) = fil[file].container /\ blk_ofs = fil[file].c_ofs
  BY <1>1, <1>2 DEF VolInv, BlockInv, Base
<1>4. blk_ofs \in Nat /\ dirbuf \in Seq(Range(dirbuf))
  BY <1>3 DEF BlockOK
<1>5. len \in Nat \ {0}
  BY <1>4, EmptySeq
<1>6. Here = dj.dptr \/ Here = dj.dptr + 1
  BY <1>2 DEF Here
<1>7. DirChain \in medium.dirs[Base] /\ dj.dptr \in Entries(fs, DirChain)
  BY <1>1, DirPlace
<1>8. /\ DOMAIN dirbuf[1] = EntryFields /\ InOrder(dirbuf[1], 1)
      /\ Similar(dirbuf[1], old)
  <2>1. 1 \in 1..len /\ blk_ofs + 1 - 1 = blk_ofs
    BY <1>4, <1>5
  <2>2. Similar(dirbuf[1], Old(medium, Base, Object(dj), blk_ofs + 1 - 1))
        /\ DOMAIN dirbuf[1] = EntryFields /\ InOrder(dirbuf[1], 1)
    BY <1>3, <2>1, Zenon DEF BlockOK
  <2>3. Old(medium, Base, Object(dj), blk_ofs) = old
    BY <1>2, Zenon DEF Old, DirChain
  <2> QED BY <2>1, <2>2, <2>3
<1>9. old.type = "filedir" /\ old.ord = dirbuf[1].ord
  <2>1. DOMAIN old = EntryFields
    BY <1>8, SimilarBack
  <2> HIDE DEF old
  <2>2. dirbuf[1].type = old.type /\ dirbuf[1].ord = old.ord
    BY <1>8, <2>1, SimilarFields, Zenon
  <2> QED BY <1>8, <2>2 DEF InOrder
<1>10. q \in PlacesOf(medium, Base)
  <2>1. CASE task = "find"
    <3>1. blk_ofs <= dj.dptr
      BY <1>2, <1>3, <1>4, <1>5, <1>6, <2>1
    <3>2. blk_ofs \in Entries(fs, ch)
      <4> DEFINE z == PerCluster(fs) * Len(ch) - 1
                 n == dj.dptr
      <4>1. n \in 0..z /\ blk_ofs <= n /\ n \in Nat /\ blk_ofs \in Nat
        BY <1>2, <1>4, <1>7, <3>1 DEF Entries
      <4>2. z \in Int
        <5>1. PerCluster(fs) \in Nat \ {0} /\ Len(ch) \in Nat
          BY <1>1, <1>2, MountedFacts, DirPlace, LenProperties
        <5> DEFINE x == PerCluster(fs)
                   y == Len(ch)
        <5> HIDE DEF x, y
        <5>2. x * y \in Int
          BY <5>1, SMTT(30) DEF x, y
        <5>3. x * y - 1 \in Int
          BY <5>2
        <5> QED BY <5>3 DEF x, y
      <4> HIDE DEF z, n
      <4>3. blk_ofs \in 0..z
        BY <4>1, <4>2
      <4> QED BY <4>3 DEF z, Entries
    <3> QED BY <1>2, <1>7, <3>2, EntryIsPlace
  <2>2. CASE task # "find"
    <3>1. fil[file].open
      BY <1>1, <2>2 DEF VolInv, SyncInv
    <3>2. PICK p \in PlacesOf(medium, Base) : FileAt(fil[file], file, p)
      BY <1>2, <3>1 DEF FileAtInv
    <3>3. p[2] = ChainOf(medium, Base, fil[file].container) /\ p[3] = fil[file].c_ofs
      BY <3>2 DEF FileAt
    <3>4. p[2] = ch /\ p[3] = blk_ofs
      BY <1>3, <2>2, <3>3 DEF DirChain
    <3>5. p = <<Base, p[2], p[3]>>
      BY <1>2, PlaceHere
    <3> QED BY <3>4, <3>5
  <2> QED BY <2>1, <2>2
<1>11. q[2] = ch /\ q[3] = blk_ofs
  OBVIOUS
<1>12. /\ dirbuf[1].ord \in Nat \ {0, 1, 2}
       /\ \A i \in 1..dirbuf[1].ord :
            /\ blk_ofs + i - 1 \in Entries(fs, ch)
            /\ InOrder(EntryOf(medium, fs, ch, blk_ofs + i - 1), i)
  <2> HIDE DEF q
  <2>1. EntryOf(medium, fs, q[2], q[3]) = old
    BY <1>11
  <2> HIDE DEF old
  <2>2. /\ old.ord \in Nat \ {0, 1, 2}
        /\ \A i \in 1..old.ord :
             /\ q[3] + i - 1 \in Entries(fs, q[2])
             /\ InOrder(EntryOf(medium, fs, q[2], q[3] + i - 1), i)
    BY <1>2, <1>9, <1>10, <2>1, BlockOrder
  <2> QED BY <1>9, <1>11, <2>2
<1>13. /\ task # "store" => len < dirbuf[1].ord
       /\ task = "store" => left \in 1..dirbuf[1].ord
  <2>1. /\ task # "store" => len < dirbuf[1].ord
        /\ task = "store" => len <= dirbuf[1].ord
    BY <1>1 DEF BufInv
  <2> QED BY <1>3, <1>5, <1>12, <2>1
<1>14. PICK i \in 1..dirbuf[1].ord : Here = blk_ofs + i - 1
  <2>1. CASE task = "store"
    BY <1>3, <1>13, <2>1
  <2>2. CASE task # "store"
    <3>1. len + 1 \in 1..dirbuf[1].ord /\ Here = blk_ofs + (len + 1) - 1
      BY <1>3, <1>4, <1>5, <1>12, <1>13, <2>2
    <3> QED BY <3>1
  <2> QED BY <2>1, <2>2
<1>15. Here \in Entries(fs, ch)
  BY <1>12, <1>14
<1>16. Here = blk_ofs + (IF task = "store" THEN left - 1 ELSE len)
  <2>1. task = "store" => left \in Nat
    BY <1>3, <1>5
  <2> QED BY <1>3, <1>4, <2>1
<1> QED BY <1>4, <1>5, <1>9, <1>10, <1>12, <1>13, <1>15, <1>16

\* dir_read carries on with a block that is in order.
LEMMA BlockCarries ==
  ASSUME VolInv, DataInv, BufInv, FileAtInv, at = "entry", fs.fs_type = "exFAT",
         task # "store", InBlock
  PROVE  /\ InOrder(EntryHere, Len(dirbuf) + 1)
         /\ BlockPlace \in PlacesOf(medium, Base)
         /\ EntryOf(medium, fs, DirChain, BlockStart).type = "filedir"
         /\ EntryOf(medium, fs, DirChain, BlockStart).ord = BlockHere[1].ord
         /\ BlockHere[1].ord \in Nat \ {0, 1, 2}
         /\ \A i \in 1..BlockHere[1].ord :
              /\ BlockStart + i - 1 \in Entries(fs, DirChain)
              /\ InOrder(EntryOf(medium, fs, DirChain, BlockStart + i - 1), i)
         /\ Len(dirbuf) \in Nat /\ Len(BlockHere) = Len(dirbuf) + 1
         /\ Len(BlockHere) <= BlockHere[1].ord
         /\ BlockStart \in Nat /\ dj.dptr = BlockStart + Len(dirbuf)
         /\ \A j \in 1..Len(BlockHere) :
              BlockHere[j] = NowIn(DirChain, BlockStart + j - 1)
         /\ \A j \in 1..Len(dirbuf) : BlockHere[j] = dirbuf[j]
<1> DEFINE ch == DirChain
           old == EntryOf(medium, fs, ch, BlockStart)
           len == Len(dirbuf)
           block == BlockHere
           e == EntryHere
<1>1. at \in Reading /\ at \in {"entry", "next"} /\ Here = dj.dptr
  BY DEF Reading, Here
<1>2. /\ fs # NoFs /\ VolumeInv /\ DiskInv /\ fs = VolumeOf(medium, Base)
      /\ dj.dptr \in Nat
  BY <1>1, WalkFacts DEF Base
<1>3. /\ task \in {"find", "load"} /\ BlockStart \in Nat
      /\ BlockOK(medium, Base, Object(dj), BlockStart, dirbuf)
      /\ dj.dptr = BlockStart + len /\ len \in Nat
      /\ (dirbuf # <<>> => BlockStart = blk_ofs /\ len > 0)
      /\ (task = "load" =>
            /\ Object(dj) = fil[file].container
            /\ NamedBlock(medium, Base, fil[file].container, BlockStart, file))
  BY BlockFacts DEF Base
<1>4. HerePlace \in PlacesOf(medium, Base) /\ ch \in medium.dirs[Base]
      /\ OldHere = Old(medium, Base, Object(dj), dj.dptr)
  BY <1>1, DirPlace
<1>5. DOMAIN e = EntryFields /\ e.type = OldHere.type /\ e.ord = OldHere.ord
      /\ DOMAIN OldHere = EntryFields
  BY <1>1, HereNow
<1>6. /\ Len(block) = len + 1 /\ block[len + 1] = e
      /\ \A j \in 1..len : block[j] = dirbuf[j]
  <2>1. dirbuf \in Seq(Range(dirbuf))
    BY <1>3 DEF BlockOK
  <2> QED BY <2>1, Longer DEF BlockHere
<1>7. /\ BlockPlace \in PlacesOf(medium, Base) /\ old.type = "filedir"
      /\ old.ord = block[1].ord /\ len < block[1].ord
  <2>1. CASE dirbuf = <<>>
    <3>1. BlockStart = dj.dptr /\ len = 0 /\ block[1] = e
      BY <1>6, <2>1, EmptySeq DEF BlockStart
    <3>2. BlockPlace = HerePlace /\ old = OldHere
      BY <3>1 DEF BlockPlace, HerePlace, OldHere
    <3>3. old.type = "filedir"
      <4>1. CASE task = "find"
        BY <1>5, <2>1, <3>2, <4>1 DEF InBlock
      <4>2. CASE task = "load"
        BY <1>3, <1>4, <3>1, <3>2, <4>2 DEF NamedBlock
      <4> QED BY <1>3, <4>1, <4>2
    <3>4. HerePlace[2] = ch /\ HerePlace[3] = dj.dptr
      BY <1>1, DirPlace
    <3>5. EntryOf(medium, fs, HerePlace[2], HerePlace[3]) = OldHere
      BY <3>4 DEF OldHere
    <3>6. OldHere.ord \in Nat \ {0, 1, 2}
      BY <1>2, <1>4, <3>2, <3>3, <3>5, BlockOrder
    <3> HIDE DEF e, old, block, len
    <3> QED BY <1>4, <1>5, <3>1, <3>2, <3>3, <3>6
  <2>2. CASE dirbuf # <<>>
    <3>1. /\ <<Base, ch, blk_ofs>> \in PlacesOf(medium, Base)
          /\ EntryOf(medium, fs, ch, blk_ofs).type = "filedir"
          /\ EntryOf(medium, fs, ch, blk_ofs).ord = dirbuf[1].ord
          /\ len < dirbuf[1].ord /\ len \in Nat \ {0}
      BY <1>1, <1>3, <2>2, BlockBegun
    <3>2. BlockStart = blk_ofs /\ block[1] = dirbuf[1]
      BY <1>3, <1>6, <2>2, <3>1
    <3> HIDE DEF block, len
    <3> QED BY <3>1, <3>2 DEF BlockPlace
  <2> QED BY <2>1, <2>2
<1>8. BlockPlace[2] = ch /\ BlockPlace[3] = BlockStart
  BY DEF BlockPlace
<1>9. /\ block[1].ord \in Nat \ {0, 1, 2}
      /\ \A i \in 1..block[1].ord :
           /\ BlockStart + i - 1 \in Entries(fs, ch)
           /\ InOrder(EntryOf(medium, fs, ch, BlockStart + i - 1), i)
  <2>1. EntryOf(medium, fs, BlockPlace[2], BlockPlace[3]) = old
    BY <1>8
  <2> HIDE DEF old, block
  <2>2. /\ old.ord \in Nat \ {0, 1, 2}
        /\ \A i \in 1..old.ord :
             /\ BlockPlace[3] + i - 1 \in Entries(fs, BlockPlace[2])
             /\ InOrder(EntryOf(medium, fs, BlockPlace[2], BlockPlace[3] + i - 1), i)
    BY <1>2, <1>7, <2>1, BlockOrder
  <2> QED BY <1>7, <1>8, <2>2
<1>10. InOrder(e, len + 1) /\ len + 1 <= block[1].ord
  <2>1. len + 1 \in 1..block[1].ord /\ BlockStart + (len + 1) - 1 = dj.dptr
    <3> HIDE DEF len, block
    <3> QED BY <1>3, <1>7, <1>9
  <2>2. InOrder(OldHere, len + 1)
    <3> HIDE DEF len, block
    <3> QED BY <1>9, <2>1 DEF OldHere
  <2> HIDE DEF e, len
  <2> QED BY <1>5, <1>9, <2>1, <2>2 DEF InOrder
<1>11. ASSUME NEW j \in 1..Len(block)
       PROVE  block[j] = NowIn(ch, BlockStart + j - 1)
  <2>1. CASE j = len + 1
    <3>1. BlockStart + j - 1 = dj.dptr
      BY <1>3, <2>1
    <3> QED BY <1>6, <2>1, <3>1 DEF EntryHere
  <2>2. CASE j # len + 1
    <3>1. j \in 1..len /\ dirbuf # <<>>
      <4>1. j \in 1..len
        <5> HIDE DEF len, block
        <5> QED BY <1>3, <1>6, <2>2
      <4>2. len # 0
        <5> HIDE DEF len, block
        <5> QED BY <1>3, <4>1
      <4> QED BY <4>1, <4>2, EmptySeq
    <3>2. dirbuf[j] = NowIn(DirChain, blk_ofs + j - 1)
      BY <1>1, <3>1 DEF BufInv
    <3> QED BY <1>3, <1>6, <3>1, <3>2
  <2> QED BY <2>1, <2>2
<1> QED BY <1>3, <1>6, <1>7, <1>9, <1>10, <1>11

\* The outcomes of ExfatEntry.
BetweenBlocks ==
  /\ ~InBlock /\ OldHere.type \notin {"filedir", "end"}
  /\ dirbuf' = <<>> /\ dir_next(dj)
  /\ UNCHANGED <<file, task, level, blk_ofs, left, fil, parts>>

ExfatEnds == DirFails /\ ~InBlock /\ OldHere.type = "end"

BlockOn ==
  /\ InBlock /\ Len(BlockHere) < BlockHere[1].ord
  /\ dirbuf' = BlockHere /\ blk_ofs' = BlockStart /\ dir_next(dj)
  /\ UNCHANGED <<file, task, level, left, fil, parts>>

BlockLast ==
  /\ InBlock /\ dirbuf # <<>> /\ BlockStart = blk_ofs
  /\ Len(BlockHere) = BlockHere[1].ord

BlockTorn == DirFails /\ BlockLast /\ Torn(BlockPlace)

BlockLoads ==
  BlockLast /\ BlockHere[1].sum = xdir_sum(BlockHere) /\ task = "load" /\ Restore(BlockHere)

BlockOther ==
  /\ BlockLast /\ task = "find" /\ OldBlock(2).name # Segment.long
  /\ dirbuf' = <<>> /\ dir_next(dj)
  /\ UNCHANGED <<file, task, level, blk_ofs, left, fil, parts>>

\* The first entries of a block that is whole.
LEMMA BlockEntries ==
  ASSUME VolInv, DataInv, BufInv, FileAtInv, at = "entry", fs.fs_type = "exFAT",
         task # "store", BlockLast
  PROVE  /\ Len(dirbuf) \in Nat /\ Len(dirbuf) >= 2
         /\ BlockHere[1] = NowIn(DirChain, BlockStart)
         /\ BlockHere[2] = NowIn(DirChain, BlockStart + 1) /\ BlockHere[2] = dirbuf[2]
         /\ BlockHere[3] = OldBlock(2)
         /\ BlockPlace \in PlacesOf(medium, Base) /\ BlockStart \in Nat
         /\ OldBlock(0).type = "filedir" /\ BlockHere[1].type = "filedir"
         /\ OldBlock(0).dir = BlockHere[1].dir
         /\ OldBlock(0).rdo = BlockHere[1].rdo
         /\ BlockHere[1].dir => BlockHere[2] = OldBlock(1)
         /\ BlockHere[2].sclust = OldBlock(1).sclust
         /\ BlockHere[2].stat = OldBlock(1).stat
         /\ BlockOK(medium, Base, Object(dj), blk_ofs, BlockHere)
         /\ Len(BlockHere) > 1
<1> DEFINE ch == DirChain
           block == BlockHere
           len == Len(dirbuf)
<1>1. at \in Reading
  BY DEF Reading
<1>2. /\ fs # NoFs /\ VolumeInv /\ DiskInv /\ fs = VolumeOf(medium, Base)
      /\ Mounted /\ DirAt(medium, Base, dj)
      /\ medium \in Cards /\ Base \in Volumes(medium)
  BY <1>1, WalkFacts DEF Base
<1>3. /\ BlockPlace \in PlacesOf(medium, Base) /\ block[1].ord \in Nat \ {0, 1, 2}
      /\ len \in Nat /\ Len(block) = len + 1
      /\ BlockStart \in Nat /\ dj.dptr = BlockStart + len
      /\ \A j \in 1..Len(block) : block[j] = NowIn(ch, BlockStart + j - 1)
      /\ \A j \in 1..len : block[j] = dirbuf[j]
      /\ InOrder(EntryHere, len + 1)
      /\ EntryOf(medium, fs, ch, BlockStart).type = "filedir"
      /\ EntryOf(medium, fs, ch, BlockStart).ord = block[1].ord
  BY BlockCarries DEF BlockLast
<1>4. Len(block) = block[1].ord /\ dirbuf # <<>> /\ BlockStart = blk_ofs
  BY DEF BlockLast
<1>5. len >= 2
  <2> HIDE DEF len, block
  <2> QED BY <1>3, <1>4
<1>6. BlockOK(medium, Base, Object(dj), blk_ofs, block)
  <2>1. BlockOK(medium, Base, Object(dj), BlockStart, dirbuf)
    BY BlockFacts DEF Base
  <2> DEFINE old    == Old(medium, Base, Object(dj), dj.dptr)
             before == Old(medium, Base, Object(dj), dj.dptr - 1)
  <2>2. old = OldHere
    BY <1>1, DirPlace
  <2>3. DOMAIN OldHere = EntryFields /\ Similar(EntryHere, OldHere)
        /\ EntryHere.dir = OldHere.dir
    BY <1>1, HereNow
  <2>4. OldHere.dir => EntryHere = OldHere
    <3>1. HerePlace \in PlacesOf(medium, Base) /\ HerePlace[2] = DirChain
          /\ HerePlace[3] = dj.dptr
      BY <1>1, DirPlace
    <3>2. EntryOf(medium, fs, HerePlace[2], HerePlace[3]) = OldHere
          /\ NowIn(HerePlace[2], HerePlace[3]) = EntryHere
      BY <3>1 DEF OldHere, EntryHere
    <3> QED BY <1>2, <3>1, <3>2, DirKept
  <2>5. EntryHere.type # "stream"
    <3>1. len + 1 # 2 /\ len + 1 # 1
      BY <1>5
    <3> QED BY <1>3, <3>1 DEF InOrder
  <2> HIDE DEF old, before
  <2>6. BlockOK(medium, Base, Object(dj), BlockStart, Append(dirbuf, EntryHere))
    <3>1. old = Old(medium, Base, Object(dj), dj.dptr)
      BY DEF old
    <3>2. dj.dptr = BlockStart + Len(dirbuf)
      BY <1>3
    <3>3. InOrder(EntryHere, Len(dirbuf) + 1)
      BY <1>3
    <3>4. /\ DOMAIN old = EntryFields /\ Similar(EntryHere, old)
          /\ (old.dir => EntryHere = old)
      BY <2>2, <2>3, <2>4
    <3> QED BY <1>3, <2>1, <2>5, <3>1, <3>2, <3>3, <3>4, BlockGrows
  <2> QED BY <1>4, <2>6 DEF BlockHere
<1>7. Len(block) > 1 /\ 1 \in 1..Len(block) /\ 2 \in 1..Len(block) /\ 3 \in 1..Len(block)
      /\ 2 \in 1..len
  <2> HIDE DEF len, block
  <2> QED BY <1>3, <1>5
<1>8. /\ block[1] = NowIn(ch, BlockStart) /\ block[2] = NowIn(ch, BlockStart + 1)
      /\ block[2] = dirbuf[2]
  <2>1. BlockStart + 1 - 1 = BlockStart /\ BlockStart + 2 - 1 = BlockStart + 1
    BY <1>3
  <2> HIDE DEF block, len
  <2> QED BY <1>3, <1>7, <2>1
<1>9. /\ Old(medium, Base, Object(dj), BlockStart).dir = block[1].dir
      /\ block[3] = Old(medium, Base, Object(dj), BlockStart + 2)
  <2>1. BlockStart <= dj.dptr
    BY <1>3
  <2>2. BlockOK(medium, Base, Object(dj), BlockStart, block)
    BY <1>4, <1>6
  <2>3. Len(block) > 1 /\ Len(block) = block[1].ord
    BY <1>4, <1>7
  <2>4. /\ medium \in Cards /\ Base \in Volumes(medium)
        /\ DirAt(medium, Base, dj) /\ BlockStart \in Nat
    BY <1>2, <1>3
  <2> HIDE DEF block
  <2> QED BY <2>1, <2>2, <2>3, <2>4, BlockWhole, SMTT(30)
<1>10. \A n : Old(medium, Base, Object(dj), n) = EntryOf(medium, fs, ch, n)
  BY <1>2, Zenon DEF Old, DirChain
<1>11. BlockStart + 0 = BlockStart
  BY <1>3
<1>12. OldBlock(0).dir = block[1].dir /\ block[3] = OldBlock(2)
       /\ OldBlock(0).type = "filedir"
  <2>1. OldBlock(0) = EntryOf(medium, fs, ch, BlockStart)
    BY <1>11 DEF OldBlock
  <2> QED BY <1>3, <1>9, <1>10, <2>1 DEF OldBlock
<1>13. /\ DOMAIN block[1] = EntryFields /\ InOrder(block[1], 1)
       /\ DOMAIN block[2] = EntryFields
       /\ Similar(block[2], Old(medium, Base, Object(dj), blk_ofs + 2 - 1))
       /\ (block[1].dir => block[2] = Old(medium, Base, Object(dj), blk_ofs + 1))
  <2> HIDE DEF block
  <2> QED BY <1>6, <1>7 DEF BlockOK
<1>14. Old(medium, Base, Object(dj), blk_ofs + 2 - 1) = OldBlock(1)
       /\ Old(medium, Base, Object(dj), blk_ofs + 1) = OldBlock(1)
  <2>1. blk_ofs + 2 - 1 = BlockStart + 1 /\ blk_ofs + 1 = BlockStart + 1
    BY <1>3, <1>4
  <2> QED BY <1>10, <2>1 DEF OldBlock
<1>15. block[1].type = "filedir"
  BY <1>13 DEF InOrder
<1>16. block[2].sclust = OldBlock(1).sclust /\ block[2].stat = OldBlock(1).stat
  <2>1. Similar(block[2], OldBlock(1))
    BY <1>13, <1>14
  <2>2. DOMAIN OldBlock(1) = EntryFields
    BY <1>13, <2>1, SimilarBack
  <2> HIDE DEF block
  <2> QED BY <2>1, <2>2, SimilarFields, Zenon
<1>17. OldBlock(0).rdo = block[1].rdo
  <2>1. OldBlock(0) = EntryOf(medium, fs, ch, BlockStart)
    BY <1>11 DEF OldBlock
  <2>2. BlockPlace[2] = ch /\ BlockPlace[3] = BlockStart
    BY DEF BlockPlace
  <2>3. NowIn(ch, BlockStart).rdo = EntryOf(medium, fs, ch, BlockStart).rdo
    BY <1>2, <1>3, <2>2, NowFacts
  <2> QED BY <1>8, <2>1, <2>3
<1> QED BY <1>3, <1>5, <1>6, <1>7, <1>8, <1>12, <1>13, <1>14, <1>15, <1>16, <1>17

\* A block that does not have the checksum of its entries is torn.
LEMMA BadSum ==
  ASSUME VolInv, DataInv, BufInv, FileAtInv, at = "entry", fs.fs_type = "exFAT",
         task # "store", BlockLast
  PROVE  Torn(BlockPlace) <=> BlockHere[1].sum # xdir_sum(BlockHere)
<1> DEFINE e1 == NowIn(DirChain, BlockStart)
           e2 == NowIn(DirChain, BlockStart + 1)
<1>1. BlockHere[1] = e1 /\ BlockHere[2] = e2 /\ e1.type = "filedir"
  BY BlockEntries
<1>2. BlockPlace[2] = DirChain /\ BlockPlace[3] = BlockStart
  BY DEF BlockPlace
<1>3. Torn(BlockPlace) <=> e1.type = "filedir" /\ e1.sum # xdir_sum(<<e1, e2>>)
  BY <1>2, Zenon DEF Torn
<1> HIDE DEF e1, e2
<1>4. xdir_sum(<<e1, e2>>) = xdir_sum(BlockHere)
  BY <1>1 DEF xdir_sum
<1> QED BY <1>1, <1>3, <1>4

LEMMA BlockHit ==
  ASSUME VolInv, DataInv, BufInv, FileAtInv, at = "entry", fs.fs_type = "exFAT",
         task = "find", BlockLast, BlockHere[3].name = Segment.long, NEW sect,
         Found(ObjectOf(BlockHere), BlockHere[1], sect)
  PROVE  \E p, obj, e : Hit(p, obj, e, sect)
<1> DEFINE p   == BlockPlace
           q   == <<Base, DirChain, blk_ofs + 1>>
           obj == ObjectOf(BlockHere)
           e   == BlockHere[1]
           o1  == OldBlock(1)
<1>1. at \in Reading
  BY DEF Reading
<1>2. fs = VolumeOf(medium, Base)
  BY <1>1, WalkFacts DEF Base
<1>3. /\ Len(dirbuf) \in Nat /\ Len(dirbuf) >= 2 /\ BlockHere[2] = dirbuf[2]
      /\ BlockHere[3] = OldBlock(2)
      /\ p \in PlacesOf(medium, Base) /\ BlockStart \in Nat
      /\ OldBlock(0).type = "filedir" /\ OldBlock(0).dir = e.dir
      /\ OldBlock(0).rdo = e.rdo /\ (e.dir => BlockHere[2] = o1)
      /\ BlockHere[2].sclust = o1.sclust /\ BlockHere[2].stat = o1.stat
  BY BlockEntries
<1>4. BlockStart = blk_ofs
  BY DEF BlockLast
<1>5. p[1] = Base /\ p[2] = DirChain /\ p[3] = blk_ofs
  BY <1>4 DEF BlockPlace
<1>6. \A i : EntryOf(medium, VolumeOf(medium, p[1]), p[2], p[3] + i) = OldBlock(i)
  <2> HIDE DEF p
  <2> QED BY <1>2, <1>4, <1>5, Zenon DEF OldBlock
<1>7. EntryOf(medium, fs, p[2], p[3]) = OldBlock(0)
      /\ EntryOf(medium, VolumeOf(medium, p[1]), p[2], p[3]) = OldBlock(0)
  <2>1. BlockStart + 0 = BlockStart
    BY <1>3
  <2> HIDE DEF p
  <2> QED BY <1>2, <1>4, <1>5, <2>1 DEF OldBlock
<1>8. IsIn(medium, p, Object(dj))
  <2>1. IsChain(medium, fs, DirChain, Object(dj))
    BY <1>1, DirPlace
  <2> HIDE DEF p
  <2> QED BY <1>2, <1>5, <2>1 DEF IsIn
<1> HIDE DEF p, e, o1
<1>9. HasName(medium, p, Segment)
  <2>1. OldBlock(2).name = Segment.long
    BY <1>3
  <2> QED BY <1>3, <1>6, <2>1, Zenon DEF HasName
<1>10. (e.dir <=> IsDirAt(medium, p)) /\ (e.rdo <=> IsReadOnlyAt(medium, p))
  BY <1>3, <1>7, Zenon DEF IsDirAt, IsReadOnlyAt
<1>11. ObjectAt(medium, p) = [sclust |-> o1.sclust, size |-> o1.size, stat |-> o1.stat]
  BY <1>3, <1>6, Zenon DEF ObjectAt, o1
<1>12. /\ ObjectAt(medium, p).sclust = o1.sclust /\ ObjectAt(medium, p).size = o1.size
       /\ ObjectAt(medium, p).stat = o1.stat
  BY <1>11
<1>13. /\ obj.sclust = BlockHere[2].sclust /\ obj.size = BlockHere[2].size
       /\ obj.stat = BlockHere[2].stat
       /\ obj = [sclust |-> BlockHere[2].sclust, size |-> BlockHere[2].size,
                 stat |-> BlockHere[2].stat]
  BY DEF ObjectOf
<1>14. obj.size \in o1.size..UpTo(fs, o1.size)
  <2>1. dirbuf[2].size \in Sizes(medium, q)
    BY <1>1, <1>3 DEF BufInv
  <2>2. q[1] = Base /\ q[2] = DirChain /\ q[3] = BlockStart + 1
    BY <1>4
  <2>3. EntryOf(medium, VolumeOf(medium, q[1]), q[2], q[3]) = o1
    <3> HIDE DEF q
    <3> QED BY <1>2, <2>2, Zenon DEF o1, OldBlock
  <2> HIDE DEF q
  <2>4. Sizes(medium, q) = o1.size..UpTo(fs, o1.size)
    BY <1>2, <2>2, <2>3, Zenon DEF Sizes
  <2> QED BY <1>3, <1>13, <2>1, <2>4
<1>15. e.dir => obj = ObjectAt(medium, p)
  BY <1>3, <1>11, <1>13
<1>16. Found(obj, e, sect)
  BY DEF e
<1> HIDE DEF obj
<1>17. Hit(p, obj, e, sect)
  BY <1>3, <1>5, <1>7, <1>8, <1>9, <1>10, <1>12, <1>13, <1>14, <1>15, <1>16 DEF Hit
<1> QED BY <1>17

LEMMA ExfatOutcomes ==
  ASSUME VolInv, DataInv, BufInv, FileAtInv, ExfatEntry
  PROVE  /\ at = "entry" /\ fs.fs_type = "exFAT" /\ task \in {"find", "load"} /\ fs # NoFs
         /\ UNCHANGED <<medium, fs, closing, touched>>
         /\ Gentle
         /\ \/ DirFails /\ failed'
            \/ ExfatEnds \/ BetweenBlocks \/ BlockOn
            \/ BlockTorn \/ BlockLoads \/ BlockOther
            \/ task = "find" /\ \E p, obj, x, sect : Hit(p, obj, x, sect)
<1> DEFINE e == EntryHere
           block == BlockHere
<1>1. /\ at = "entry" /\ at \in Reading /\ fs.fs_type = "exFAT" /\ task # "store"
      /\ UNCHANGED <<medium, fs, closing, touched>>
  BY DEF ExfatEntry, Reading
<1>2. fs # NoFs /\ VolumeInv /\ DiskInv /\ task \in {"find", "load"}
  BY <1>1, WalkFacts
<1>3. PICK m \in move_window(dj.sect) :
        /\ Comes(m)
        /\ LET x == m.win.data.dirent[dj.dptr % PerSect]
               bl == Append(dirbuf, x)
               between == dirbuf = <<>> /\ task = "find" /\ x.type # "filedir"
           IN IF ~m.ok \/ (between /\ x.type = "end")
                 \/ (~between /\ ~InOrder(x, Len(bl))) THEN DirFails
              ELSE IF Len(bl) > 1 /\ Len(bl) = bl[1].ord
              THEN BlockLoaded(bl, m.win.sect)
              ELSE /\ dir_next(dj)
                   /\ dirbuf' = IF between THEN <<>> ELSE bl
                   /\ blk_ofs' = IF dirbuf = <<>> /\ ~between THEN dj.dptr
                                 ELSE blk_ofs
                   /\ UNCHANGED <<file, task, level, left, fil, parts>>
  BY Zenon DEF ExfatEntry
<1>4. Gentle
  BY <1>1, <1>2, <1>3, MoveGentle
<1>5. CASE ~m.ok
  <2>1. DirFails /\ failed'
    BY <1>3, <1>5 DEF Comes
  <2> QED BY <1>1, <1>2, <1>4, <2>1
<1>6. CASE m.ok
  <2>1. m.win.data.dirent[dj.dptr % PerSect] = e
    BY <1>1, <1>6, ReadHere
  <2>2. IF (~InBlock /\ e.type = "end") \/ (InBlock /\ ~InOrder(e, Len(block))) THEN DirFails
        ELSE IF Len(block) > 1 /\ Len(block) = block[1].ord
        THEN BlockLoaded(block, m.win.sect)
        ELSE /\ dir_next(dj)
             /\ dirbuf' = IF ~InBlock THEN <<>> ELSE block
             /\ blk_ofs' = IF dirbuf = <<>> /\ InBlock THEN dj.dptr ELSE blk_ofs
             /\ UNCHANGED <<file, task, level, left, fil, parts>>
    <3> DEFINE x == m.win.data.dirent[dj.dptr % PerSect]
               bl == Append(dirbuf, x)
               between == dirbuf = <<>> /\ task = "find" /\ x.type # "filedir"
    <3>1. x = e /\ bl = block
      BY <2>1 DEF BlockHere
    <3>2. between <=> ~InBlock
      BY <3>1 DEF InBlock
    <3>3. IF (between /\ x.type = "end") \/ (~between /\ ~InOrder(x, Len(bl))) THEN DirFails
          ELSE IF Len(bl) > 1 /\ Len(bl) = bl[1].ord
          THEN BlockLoaded(bl, m.win.sect)
          ELSE /\ dir_next(dj)
               /\ dirbuf' = IF between THEN <<>> ELSE bl
               /\ blk_ofs' = IF dirbuf = <<>> /\ ~between THEN dj.dptr ELSE blk_ofs
               /\ UNCHANGED <<file, task, level, left, fil, parts>>
      BY <1>3, <1>6, Zenon
    <3> HIDE DEF x, bl, between, e, block
    <3>4. ~between <=> InBlock
      BY <3>2
    <3> QED BY <3>1, <3>2, <3>3, <3>4
  <2>3. e.type = OldHere.type
    BY <1>1, HereNow
  <2>4. CASE ~InBlock
    <3>1. dirbuf = <<>> /\ task = "find" /\ e.type # "filedir"
      BY <2>4 DEF InBlock
    <3>2. CASE e.type = "end"
      BY <1>1, <1>2, <1>4, <2>2, <2>3, <2>4, <3>2 DEF ExfatEnds
    <3>3. CASE e.type # "end"
      <4>1. ~(Len(block) > 1)
        <5>1. Append(<<>>, e) = <<e>> /\ Len(<<e>>) = 1
          OBVIOUS
        <5> QED BY <3>1, <5>1 DEF BlockHere
      <4>2. BetweenBlocks
        <5> HIDE DEF block, e
        <5> QED BY <2>2, <2>3, <2>4, <3>1, <3>3, <4>1 DEF BetweenBlocks
      <4> QED BY <1>1, <1>2, <1>4, <4>2
    <3> QED BY <3>2, <3>3
  <2>5. CASE InBlock
    <3>1. /\ InOrder(e, Len(dirbuf) + 1) /\ Len(block) = Len(dirbuf) + 1
          /\ Len(block) <= block[1].ord /\ block[1].ord \in Nat \ {0, 1, 2}
          /\ Len(dirbuf) \in Nat
      BY <1>1, <2>5, BlockCarries
    <3>2. IF Len(block) > 1 /\ Len(block) = block[1].ord
          THEN BlockLoaded(block, m.win.sect)
          ELSE /\ dir_next(dj) /\ dirbuf' = block
               /\ blk_ofs' = IF dirbuf = <<>> THEN dj.dptr ELSE blk_ofs
               /\ UNCHANGED <<file, task, level, left, fil, parts>>
      <4> HIDE DEF block, e
      <4> QED BY <2>2, <2>5, <3>1
    <3>3. CASE ~(Len(block) > 1 /\ Len(block) = block[1].ord)
      <4>1. Len(block) < block[1].ord
        <5> HIDE DEF block
        <5> QED BY <3>1, <3>3
      <4>2. blk_ofs' = BlockStart
        BY <3>2, <3>3 DEF BlockStart
      <4>3. BlockOn
        BY <2>5, <3>2, <3>3, <4>1, <4>2 DEF BlockOn
      <4> QED BY <1>1, <1>2, <1>4, <4>3
    <3>4. CASE Len(block) > 1 /\ Len(block) = block[1].ord
      <4>1. BlockLoaded(block, m.win.sect)
        BY <3>2, <3>4
      <4>2. BlockLast
        <5>1. dirbuf # <<>>
          <6>1. Len(dirbuf) # 0
            <7> HIDE DEF block
            <7> QED BY <3>1, <3>4
          <6> QED BY <6>1, EmptySeq
        <5> QED BY <2>5, <3>4, <5>1 DEF BlockLast, BlockStart
      <4>3. CASE block[1].sum # xdir_sum(block)
        <5>1. DirFails
          BY <4>1, <4>3 DEF BlockLoaded
        <5>2. Torn(BlockPlace)
          BY <1>1, <4>2, <4>3, BadSum
        <5>3. BlockTorn
          BY <4>2, <5>1, <5>2 DEF BlockTorn
        <5> QED BY <1>1, <1>2, <1>4, <5>3
      <4>4. CASE block[1].sum = xdir_sum(block) /\ task = "load"
        <5>1. BlockLoads
          BY <4>1, <4>2, <4>4 DEF BlockLoaded, BlockLoads
        <5> QED BY <1>1, <1>2, <1>4, <5>1
      <4>5. CASE block[1].sum = xdir_sum(block) /\ task # "load" /\ block[3].name = Segment.long
        <5>1. task = "find" /\ Found(ObjectOf(block), block[1], m.win.sect)
          BY <1>2, <4>1, <4>5 DEF BlockLoaded
        <5>2. \E p, obj, x : Hit(p, obj, x, m.win.sect)
          BY <1>1, <4>2, <4>5, <5>1, BlockHit
        <5> QED BY <1>1, <1>2, <1>4, <5>1, <5>2
      <4>6. CASE block[1].sum = xdir_sum(block) /\ task # "load" /\ block[3].name # Segment.long
        <5>1. /\ dirbuf' = <<>> /\ dir_next(dj)
              /\ UNCHANGED <<file, task, level, blk_ofs, left, fil, parts>>
          BY <1>2, <4>1, <4>6 DEF BlockLoaded
        <5>2. block[3] = OldBlock(2)
          BY <1>1, <4>2, BlockEntries
        <5>3. BlockOther
          BY <1>2, <4>2, <4>6, <5>1, <5>2 DEF BlockOther
        <5> QED BY <1>1, <1>2, <1>4, <5>3
      <4> QED BY <4>3, <4>4, <4>5, <4>6
    <3> QED BY <3>3, <3>4
  <2> QED BY <2>4, <2>5
<1> QED BY <1>5, <1>6

-----------------------------------------------------------------------------
(* What stays                                                              *)

ReadInv == SegInv /\ BufInv /\ LinkInv /\ SoughtInv /\ SeqInv

\* Elsewhere than in a directory or a table, little is left to be said.
LEMMA Quiet ==
  ASSUME at' \notin Reading \cup {"expand", "linkmap"}
  PROVE  ReadInv' /\ ~InOpen'
<1>1. at' \notin Reading /\ at' \notin {"entry", "next", "expand", "linkmap"}
  BY DEF Reading
<1>2. ~Finding' /\ ~InOpen'
  BY <1>1 DEF Finding, InOpen
<1>3. SegInv' /\ SoughtInv' /\ SeqInv'
  BY <1>2 DEF SegInv, SoughtInv, SeqInv
<1>4. BufInv' /\ LinkInv'
  BY <1>1 DEF BufInv, LinkInv
<1> QED BY <1>2, <1>3, <1>4 DEF ReadInv

LEMMA ImageParts ==
  ASSUME VolInv', DataInv', ReadInv', FileAtInv', DoneInv', CalmInv', CompleteInv'
  PROVE  ImageInv'
BY DEF ImageInv, FoundInv, ReadInv

\* Without a volume.
LEMMA NoVolume ==
  ASSUME VolInv', DataInv', CalmInv', fs' = NoFs, at' \in Before
  PROVE  ImageInv'
<1>1. FilesInv'
  BY DEF VolInv
<1>2. FileAtInv'
  BY <1>1 DEF FilesInv, FileAtInv
<1>3. ReadInv'
  BY Quiet DEF Before, Reading
<1>4. DoneInv' /\ CompleteInv'
  BY DEF DoneInv, CompleteInv
<1> QED BY <1>2, <1>3, <1>4, ImageParts

\* A FIL with the same entry.
LEMMA FileAtSame ==
  ASSUME NEW f, NEW k, NEW p, FileAt(f, k, p), NEW g, g.sclust = f.sclust,
         g.stat = f.stat, g.size = f.size, g.dir_sect = f.dir_sect,
         g.dir_ptr = f.dir_ptr, g.container = f.container, g.c_ofs = f.c_ofs
  PROVE  FileAt(g, k, p)
BY DEF FileAt

LEMMA FileAtStays ==
  ASSUME UNCHANGED <<medium, fs>>, NEW f, NEW k, NEW p, FileAt(f, k, p)
  PROVE  FileAt(f, k, p)' /\ p \in PlacesOf(medium, Base)'
BY DEF FileAt, Base, Image

LEMMA FilesAtStay ==
  ASSUME FileAtInv, UNCHANGED <<medium, fs, fil>>
  PROVE  FileAtInv'
BY DEF FileAtInv, FileAt, Base, Image

LEMMA FileAtChanges ==
  ASSUME FileAtInv, FilesInv, UNCHANGED <<medium, fs>>, NEW k \in DOMAIN Names, NEW f,
         fil' = [fil EXCEPT ![k] = f],
         f.open => \E p \in PlacesOf(medium, Base) : FileAt(f, k, p)
  PROVE  FileAtInv'
<1>1. DOMAIN fil = DOMAIN Names
  BY DEF FilesInv
<1>2. fil'[k] = f /\ \A j \in DOMAIN Names : j # k => fil'[j] = fil[j]
  BY <1>1
<1>3. ASSUME NEW j \in DOMAIN Names, fil'[j].open
      PROVE  \E p \in PlacesOf(medium, Base) : FileAt(fil'[j], j, p)
  <2>1. CASE j = k
    BY <1>2, <1>3, <2>1
  <2>2. CASE j # k
    BY <1>2, <1>3, <2>2 DEF FileAtInv
  <2> QED BY <2>1, <2>2
<1>4. ASSUME NEW j \in DOMAIN Names, fil'[j].open
      PROVE  \E p \in PlacesOf(medium, Base)' : FileAt(fil[j], j, p)'
  <2>1. PICK g : g = fil'[j]
    OBVIOUS
  <2>2. PICK p \in PlacesOf(medium, Base) : FileAt(g, j, p)
    BY <1>3, <1>4, <2>1
  <2>3. FileAt(g, j, p)' /\ p \in PlacesOf(medium, Base)'
    BY <2>2, FileAtStays
  <2>4. FileAt(fil[j], j, p)'
    BY <2>1, <2>3 DEF FileAt
  <2> QED BY <2>3, <2>4
<1> QED BY <1>4 DEF FileAtInv

LEMMA NamedStays ==
  ASSUME UNCHANGED <<medium, fs>>, NEW k, NamedK(k), fil'[k].open = fil[k].open,
         fil'[k].cltbl = fil[k].cltbl
  PROVE  NamedK(k)'
<1>1. ChainK(k)' = ChainK(k)
  BY DEF ChainK, Image
<1> QED BY <1>1 DEF NamedK

\* The second entry of a block.
LEMMA StreamPlace ==
  ASSUME DiskInv, VolumeInv, DataInv, fs # NoFs, NEW p \in PlacesOf(medium, Base),
         NowIn(p[2], p[3]).type = "filedir"
  PROVE  /\ <<Base, p[2], p[3] + 1>> \in PlacesOf(medium, Base)
         /\ p[2] \in medium.dirs[Base] /\ p[3] + 1 \in Entries(fs, p[2]) /\ p[3] \in Nat
         /\ EntryOf(medium, fs, p[2], p[3] + 1).type = "stream"
         /\ EntryOf(medium, fs, p[2], p[3]).type = "filedir"
<1>1. p[3] \in Nat /\ p[2] \in medium.dirs[Base]
  BY PlaceHere
<1>2. EntryOf(medium, fs, p[2], p[3]).type = "filedir"
  BY NowFacts
<1> DEFINE ord == EntryOf(medium, fs, p[2], p[3]).ord
<1>3. /\ ord \in Nat \ {0, 1, 2}
      /\ \A i \in 1..ord : /\ p[3] + i - 1 \in Entries(fs, p[2])
                           /\ InOrder(EntryOf(medium, fs, p[2], p[3] + i - 1), i)
  BY <1>2, BlockOrder
<1> HIDE DEF ord
<1>4. 2 \in 1..ord /\ p[3] + 2 - 1 = p[3] + 1
  BY <1>1, <1>3
<1>5. p[3] + 1 \in Entries(fs, p[2])
      /\ InOrder(EntryOf(medium, fs, p[2], p[3] + 1), 2)
  BY <1>3, <1>4
<1>6. EntryOf(medium, fs, p[2], p[3] + 1).type = "stream"
  BY <1>5 DEF InOrder
<1> QED BY <1>1, <1>2, <1>5, <1>6, EntryIsPlace

LEMMA TornStays ==
  ASSUME DiskInv, VolumeInv, DataInv, fs # NoFs, UNCHANGED <<medium, fs>>,
         SameSeen(card', win'), NEW p \in PlacesOf(medium, Base), Torn(p)
  PROVE  Torn(p)'
<1>1. NowIn(p[2], p[3]).type = "filedir"
  BY DEF Torn
<1>2. SeenAt(fs', card', win', p[2], p[3]) = NowIn(p[2], p[3])
  BY NowStays
<1>3. SeenAt(fs', card', win', p[2], p[3] + 1) = NowIn(p[2], p[3] + 1)
  <2> DEFINE q == <<Base, p[2], p[3] + 1>>
  <2>1. q \in PlacesOf(medium, Base) /\ q[2] = p[2] /\ q[3] = p[3] + 1
    BY <1>1, StreamPlace
  <2> HIDE DEF q
  <2>2. SeenAt(fs', card', win', q[2], q[3]) = NowIn(q[2], q[3])
    BY <2>1, NowStays
  <2> QED BY <2>1, <2>2
<1>4. NowIn(p[2], p[3])' = NowIn(p[2], p[3]) /\ NowIn(p[2], p[3] + 1)' = NowIn(p[2], p[3] + 1)
  BY <1>2, <1>3 DEF NowIn
<1> QED BY <1>4 DEF Torn

\* The files stay open, and what is torn stays torn.
LEMMA PastStays ==
  ASSUME VolInv, DoneInv, CompleteInv, fs # NoFs, Past0,
         UNCHANGED <<medium, fs, parts>>, ~InOpen',
         \A k \in DOMAIN Names : fil'[k].open = fil[k].open /\ fil'[k].cltbl = fil[k].cltbl,
         failed => failed',
         ~failed' /\ fs.fs_type = "exFAT" =>
           \A p \in PlacesOf(medium, Base) :
             Torn(p) /\ ~Storing(p) => Torn(p)' /\ ~Storing(p)'
  PROVE  DoneInv' /\ CompleteInv'
<1>1. LastFile \in 3..Len(Names) /\ \A k \in 1..LastFile : NamedK(k)
  BY DEF DoneInv
<1>2. LastFile' = LastFile /\ Image' = Image /\ Base' = Base
  BY DEF LastFile, Image, Base
<1>3. ASSUME NEW k \in 1..LastFile PROVE NamedK(k)'
  <2>1. k \in DOMAIN Names /\ NamedK(k)
    BY <1>1, <1>3, FirstName
  <2> QED BY <2>1, NamedStays
<1>4. DoneInv'
  BY <1>1, <1>2, <1>3 DEF DoneInv
<1>5. Whole0 => Whole0'
  BY <1>2 DEF Whole0, PartsInARow, Writable
<1>6. CompleteInv'
  <2> SUFFICES ASSUME ~failed', ~Whole0'
               PROVE  fs.fs_type = "exFAT" /\ \E p \in PlacesOf(medium, Base) : Torn(p)' /\ ~Storing(p)'
    BY <1>2 DEF CompleteInv
  <2>1. fs.fs_type = "exFAT" /\ \E p \in PlacesOf(medium, Base) : Torn(p) /\ ~Storing(p)
    BY <1>5 DEF CompleteInv
  <2> QED BY <2>1
<1> QED BY <1>4, <1>6

-----------------------------------------------------------------------------
(* Files of the image                                                      *)

\* A FIL is that of the file of its name.
LEMMA FileIsFile ==
  ASSUME VolInv, fs # NoFs, NEW k \in DOMAIN Names, NEW f,
         NEW p \in PlacesOf(medium, Base), FileAt(f, k, p)
  PROVE  /\ IsFile(medium, Base, Image, Names[k].long, ObjectAt(medium, p))
         /\ Names[k].long \notin Image.readonly
<1> DEFINE i == Len(Path) + 1
<1>1. LeadsTo(medium, Base, Image)
  BY ImageFacts DEF VolInv, Base
<1>2. /\ HasName(medium, p, Names[k]) /\ ~IsDirAt(medium, p)
      /\ ~IsReadOnlyAt(medium, p)
      /\ Len(Image.path) = i /\ IsIn(medium, p, Image.path[i])
  BY DEF FileAt
<1>3. i \in 1..Len(Image.path) /\ i > Len(Path) /\ ~(i <= Len(Path))
  BY <1>2, NamesAssumption
<1>4. SegmentOf(i, k) = Names[k]
  BY <1>3 DEF SegmentOf
<1> HIDE DEF i
<1>5. HasName(medium, p, SegmentOf(i, k))
  BY <1>2, <1>4
<1>6. i > Len(Path) =>
        /\ IsFile(medium, Base, Image, Names[k].long, ObjectAt(medium, p))
        /\ IsReadOnlyAt(medium, p) <=> Names[k].long \in Image.readonly
  BY <1>1, <1>2, <1>3, <1>5, Zenon DEF LeadsTo
<1> QED BY <1>2, <1>3, <1>6

\* The chain of a file is that of its FIL, whose size may have grown.
LEMMA FileChain ==
  ASSUME VolInv, fs # NoFs, NEW k \in DOMAIN Names, NEW f,
         NEW p \in PlacesOf(medium, Base), FileAt(f, k, p)
  PROVE  /\ Names[k].long \in Writable /\ Names[k].long \in DOMAIN Image.chain
         /\ ChainK(k) \in Seq(Clusters(fs))
         /\ f.sclust = 0 => ChainK(k) = <<>> /\ f.stat = ObjectAt(medium, p).stat
         /\ f.sclust # 0 => ChainK(k) # <<>> /\ IsChain(medium, fs, ChainK(k), f)
                            /\ ChainK(k)[1] = f.sclust
         /\ f.size \in Image.size[Names[k].long]..(fs.csize * Len(ChainK(k)))
         /\ Image.size[Names[k].long] \in Nat
<1> DEFINE name == Names[k].long
           obj == ObjectAt(medium, p)
           ch == ChainK(k)
<1>1. fs = VolumeOf(medium, Base) /\ fs.csize \in Nat \ {0}
  BY MountedFacts DEF VolInv, Base
<1>2. IsFile(medium, Base, Image, name, obj) /\ name \notin Image.readonly
  BY FileIsFile
<1>3. /\ name \in DOMAIN Image.chain /\ name \in Writable /\ ch \in Seq(Clusters(fs))
      /\ obj.size = Image.size[name] /\ obj.size \in 0..(fs.csize * Len(ch))
      /\ IF obj.sclust = 0 THEN ch = <<>>
         ELSE ch # <<>> /\ IsChain(medium, fs, ch, obj)
  BY <1>1, <1>2, Zenon DEF IsFile, ChainK, Writable
<1>4. /\ f.sclust = obj.sclust /\ f.stat = obj.stat
      /\ f.size \in obj.size..UpTo(fs, obj.size)
  BY DEF FileAt
<1>5. Len(ch) \in Nat
  BY <1>3, LenProperties
<1> HIDE DEF obj, ch, name
<1>6. obj.size \in Nat /\ obj.size <= fs.csize * Len(ch)
  BY <1>3
<1>7. /\ UpTo(fs, obj.size) \in Nat /\ UpTo(fs, obj.size) <= fs.csize * Len(ch)
      /\ obj.size # 0 => (f.size - 1) \div fs.csize = (obj.size - 1) \div fs.csize
      /\ UpTo(fs, 0) = 0
  BY <1>1, <1>4, <1>5, <1>6, UpToFacts
<1>8. f.size \in obj.size..(fs.csize * Len(ch))
  <2> DEFINE z == fs.csize * Len(ch)
             u == UpTo(fs, obj.size)
  <2>1. z \in Int
    BY <1>1, <1>5, SMTT(30)
  <2>2. u \in Nat /\ u <= z /\ f.size \in obj.size..u
    BY <1>4, <1>7
  <2> HIDE DEF z, u
  <2>3. f.size \in obj.size..z
    BY <1>6, <2>1, <2>2
  <2> QED BY <2>3 DEF z
<1>9. (f.size - 1) \div fs.csize = (obj.size - 1) \div fs.csize
  <2>1. CASE obj.size = 0
    <3>1. f.size = 0
      BY <1>4, <1>7, <2>1
    <3> QED BY <2>1, <3>1
  <2> QED BY <1>7, <2>1
<1>10. ASSUME f.sclust # 0
       PROVE  ch # <<>> /\ IsChain(medium, fs, ch, f) /\ ch[1] = f.sclust
  <2>1. ch # <<>> /\ IsChain(medium, fs, ch, obj) /\ obj.sclust # 0
    BY <1>3, <1>4, <1>10
  <2>2. ch[1] = f.sclust
    BY <1>4, <2>1, Zenon DEF IsChain
  <2>3. CASE fs.fs_type = "exFAT" /\ obj.sclust # 0 /\ obj.stat = 2
    <3>1. /\ (obj.size - 1) \div fs.csize = Len(ch) - 1
          /\ \A i \in 1..Len(ch) : ch[i] = obj.sclust + i - 1
      BY <2>1, <2>3, Zenon DEF IsChain
    <3> QED BY <1>4, <1>9, <2>1, <2>2, <2>3, <3>1 DEF IsChain
  <2>4. CASE ~(fs.fs_type = "exFAT" /\ obj.sclust # 0 /\ obj.stat = 2)
    BY <1>4, <2>1, <2>2, <2>4, Zenon DEF IsChain
  <2> QED BY <2>1, <2>2, <2>3, <2>4
<1> QED BY <1>3, <1>4, <1>6, <1>8, <1>10 DEF obj, ch, name

-----------------------------------------------------------------------------
(* Ends and beginnings of a call, with the files                           *)

\* The files are open, and what is seen of the card is as it was.
LEMMA PastImage ==
  ASSUME ImageInv, VolInv', fs # NoFs, Past0, UNCHANGED <<medium, fs, parts>>, Gentle,
         at' \notin Reading \cup {"expand", "linkmap"}, FileAtInv', win'.dirty => failed',
         \A k \in DOMAIN Names : fil'[k].open = fil[k].open /\ fil'[k].cltbl = fil[k].cltbl
  PROVE  ImageInv'
<1>1. ReadInv' /\ ~InOpen'
  BY Quiet
<1>2. /\ VolInv /\ DoneInv /\ CompleteInv /\ DataInv /\ DiskInv /\ VolumeInv
      /\ (failed => failed') /\ SameSeen(card', win') /\ DataInv'
  BY DEF ImageInv, FoundInv, VolInv, Gentle
<1>3. ASSUME NEW p \in PlacesOf(medium, Base), Torn(p), ~Storing(p)
      PROVE  Torn(p)' /\ ~Storing(p)'
  BY <1>2, <1>3, TornStays DEF Storing
<1>4. DoneInv' /\ CompleteInv'
  BY <1>1, <1>2, <1>3, PastStays
<1>5. CalmInv'
  BY DEF CalmInv
<1> QED BY <1>1, <1>2, <1>4, <1>5, ImageParts

\* The file that is looked for is not one of the image, or read-only.
NotThere == Names[file].long \notin Writable

LEMMA OpenFailsImage ==
  ASSUME ImageInv, VolInv', fs # NoFs, Finding, UNCHANGED <<medium, fs>>, Gentle,
         OpenFails, file \in DOMAIN Names,
         \/ failed' \/ NotThere
         \/ fs.fs_type = "exFAT" /\ \E p \in PlacesOf(medium, Base) : Torn(p)
  PROVE  ImageInv'
<1>1. at' \in {"fatal", "idle"} /\ at' \notin Reading \cup {"expand", "linkmap"}
  BY DEF OpenFails, Fatal, Reading
<1>2. ReadInv' /\ ~InOpen'
  BY <1>1, Quiet
<1>3. /\ VolInv /\ DoneInv /\ CompleteInv /\ DataInv /\ DiskInv /\ VolumeInv /\ FilesInv
      /\ FileAtInv /\ CalmInv /\ (failed => failed') /\ SameSeen(card', win') /\ DataInv'
  BY DEF ImageInv, FoundInv, VolInv, Gentle
<1>4. fil' = [fil EXCEPT ![file] = Closed] /\ DOMAIN fil = DOMAIN Names
  BY <1>3 DEF OpenFails, FilesInv
<1>5. FileAtInv'
  BY <1>3, <1>4, ClosedOK, FileAtChanges
<1>6. CalmInv'
  <2>1. win'.dirty /\ ~failed' => win.dirty /\ ~failed
    BY DEF Gentle
  <2>2. ~(win.dirty /\ ~failed)
    BY <1>3 DEF CalmInv, Finding
  <2> QED BY <2>1, <2>2 DEF CalmInv
<1>7. CASE file <= 3
  <2>1. at' = "fatal"
    BY <1>7 DEF OpenFails, Fatal
  <2>2. ~Past0'
    BY <2>1 DEF Past0, Reading
  <2>3. DoneInv' /\ CompleteInv'
    BY <1>2, <2>2 DEF DoneInv, CompleteInv
  <2> QED BY <1>2, <1>3, <1>5, <1>6, <2>3, ImageParts
<1>8. CASE ~(file <= 3)
  <2>1. at' = "idle" /\ parts' = PartsAt(file)
    BY <1>8 DEF OpenFails
  <2>2. file \in 4..Len(Names) /\ Len(Names) \in Nat
    BY <1>8, FirstName
  <2>3. LastFile' = file - 1
    <3>1. CASE file = 4
      <4>1. parts' = 0
        BY <2>1, <3>1 DEF PartsAt
      <4> QED BY <3>1, <4>1 DEF LastFile
    <3>2. CASE file # 4
      <4>1. parts' = file - 3 /\ parts' # 0
        BY <2>1, <2>2, <3>2 DEF PartsAt
      <4> QED BY <2>2, <4>1 DEF LastFile
    <3> QED BY <3>1, <3>2
  <2>4. Image' = Image /\ Base' = Base
    BY DEF Image, Base
  <2>5. \A k \in 1..(file - 1) : NamedK(k)
    BY <1>3 DEF DoneInv, InOpen
  <2>6. ASSUME NEW k \in 1..(file - 1) PROVE NamedK(k)'
    <3>1. k \in DOMAIN Names /\ k # file
      BY <2>2, FirstName
    <3>2. fil'[k] = fil[k]
      BY <1>4, <3>1
    <3> QED BY <2>5, <3>2, NamedStays
  <2>7. DoneInv'
    BY <1>2, <2>2, <2>3, <2>6 DEF DoneInv
  <2>8. ASSUME NotThere PROVE Whole0'
    <3>1. ASSUME NEW k \in 3..(file - 1) PROVE Names[k].long \in Writable
      <4>1. k \in 1..(file - 1) /\ k \in DOMAIN Names
        BY <2>2, FirstName
      <4>2. fil[k].open
        BY <2>5, <4>1 DEF NamedK
      <4>3. PICK p \in PlacesOf(medium, Base) : FileAt(fil[k], k, p)
        BY <1>3, <4>1, <4>2 DEF FileAtInv
      <4> QED BY <1>3, <4>1, <4>3, FileChain
    <3>2. PartsInARow = 3..(file - 1)
      <4>1. \A k \in 3..Len(Names) : file \in 3..k <=> k \notin 3..(file - 1)
        BY <2>2
      <4>2. 3..(file - 1) \subseteq 3..Len(Names)
            /\ \A k \in 3..(file - 1) : 3..k \subseteq 3..(file - 1)
        BY <2>2
      <4> QED BY <2>8, <3>1, <4>1, <4>2 DEF PartsInARow, NotThere
    <3>3. PartsInARow' = PartsInARow
      BY <2>4 DEF PartsInARow, Writable
    <3> QED BY <2>3, <3>2, <3>3 DEF Whole0
  <2>9. CompleteInv'
    <3>1. CASE failed'
      BY <3>1 DEF CompleteInv
    <3>2. CASE NotThere
      BY <2>8, <3>2 DEF CompleteInv
    <3>3. ASSUME fs.fs_type = "exFAT", NEW p \in PlacesOf(medium, Base), Torn(p)
          PROVE  CompleteInv'
      <4>1. Torn(p)' /\ ~Storing(p)'
        BY <1>1, <1>3, <3>3, TornStays DEF Storing
      <4>2. p \in PlacesOf(medium, Base)' /\ fs'.fs_type = "exFAT"
        BY <2>4, <3>3
      <4> QED BY <4>1, <4>2 DEF CompleteInv
    <3> QED BY <3>1, <3>2, <3>3
  <2> QED BY <1>2, <1>3, <1>5, <1>6, <2>7, <2>9, ImageParts
<1> QED BY <1>7, <1>8

\* At the beginning of a directory.
LEMMA AtStart ==
  ASSUME VolInv, fs # NoFs, UNCHANGED <<medium, fs>>, at' = "entry", task' = "find",
         dj'.dptr = 0, dirbuf' = <<>>
  PROVE  BufInv' /\ LinkInv' /\ SoughtInv' /\ SeqInv'
<1>1. Here' = 0 /\ Reached' = 0
  BY DEF Here, Reached
<1>2. ASSUME NEW p \in PlacesOf(medium, Base)' PROVE p[3] \in Nat
  BY <1>2, PlaceHere DEF VolInv, Base
<1>3. BufInv'
  <2>1. Len(<<>>) = 0
    BY EmptySeq
  <2> QED BY <2>1 DEF BufInv
<1>4. LinkInv'
  BY DEF LinkInv
<1>5. SoughtInv'
  <2>1. \A p \in PlacesOf(medium, Base)' : ~(p[3] < 0)
    BY <1>2
  <2> QED BY <1>1, <2>1 DEF SoughtInv
<1>6. SeqInv'
  <2>1. ASSUME NEW p \in PlacesOf(medium, Base)', NEW m \in 1..p[3], NEW i \in 1..m
        PROVE  Here' # p[3] - i + 1
    <3>1. p[3] \in Nat
      BY <1>2
    <3> QED BY <1>1, <2>1, <3>1
  <2> QED BY <2>1 DEF SeqInv
<1> QED BY <1>3, <1>4, <1>5, <1>6

\* f_open begins at the root.
LEMMA OpenImage ==
  ASSUME VolInv, VolInv', fs # NoFs, UNCHANGED <<medium, fs>>, DataInv', CalmInv', FileAtInv',
         NEW j \in Nat \ {0}, Open(j), \A k \in 1..(j - 1) : NamedK(k)'
  PROVE  ImageInv'
<1>1. /\ at' = "entry" /\ file' = j /\ level' = 1 /\ task' = "find"
      /\ dj' = dir_sdi(Origin) /\ dirbuf' = <<>>
  BY DEF Open
<1>2. LeadsTo(medium, Base, Image) /\ Image' = Image
  BY ImageFacts DEF VolInv, Base, Image
<1>3. 1 \in 1..Len(Image.path) /\ Image.path[1] = Origin
  BY <1>2 DEF LeadsTo
<1>4. Object(dj') = Origin /\ dj'.dptr = 0
  BY <1>1 DEF Object, dir_sdi, Origin
<1>5. SegInv'
  BY <1>1, <1>2, <1>3, <1>4 DEF SegInv
<1>6. BufInv' /\ LinkInv' /\ SoughtInv' /\ SeqInv'
  BY <1>1, <1>4, AtStart
<1>7. ~Past0' /\ InOpen'
  BY <1>1 DEF Past0, Reading, InOpen, Finding
<1>8. DoneInv' /\ CompleteInv'
  BY <1>1, <1>7 DEF DoneInv, CompleteInv
<1> QED BY <1>5, <1>6, <1>8, ImageParts DEF ReadInv

-----------------------------------------------------------------------------
(* What is not found                                                       *)

LEMMA ListedHasName ==
  ASSUME NEW c, NEW p, p[3] \in Nat, NEW x, IsListed(c, p, x)
  PROVE  HasName(c, p, x)
<1> DEFINE f == VolumeOf(c, p[1])
           e(i) == EntryOf(c, f, p[2], p[3] + i)
           Long(i, m) == /\ e(-i).type = "long" /\ e(-i).name = x.long
                         /\ e(-i).sum = sum_sfn(e(0))
                         /\ e(-i).ord = i /\ (e(-i).last <=> i = m)
<1>1. IF f.fs_type = "exFAT" THEN e(0).type = "filedir" /\ e(2).name = x.long
      ELSE /\ e(0).type = "short"
           /\ \/ ~x.lossy /\ e(0).name = x.short
              \/ \E m \in 1..p[3] : \A i \in 1..m : Long(i, m)
  BY Zenon DEF IsListed
<1>2. ASSUME e(0).type = "short", NEW m \in 1..p[3], \A i \in 1..m : Long(i, m)
      PROVE  p[3] > 0 /\ e(-1).type = "long" /\ e(-1).name = x.long
             /\ e(-1).sum = sum_sfn(e(0))
  <2>1. 1 \in 1..m /\ p[3] > 0
    OBVIOUS
  <2>2. Long(1, m)
    BY <1>2, <2>1
  <2> QED BY <2>1, <2>2
<1>3. (e(0).type = "short" /\ ~x.lossy /\ e(0).name = x.short)
        \/ (e(0).type = "short" /\ p[3] > 0 /\ e(-1).type = "long"
            /\ e(-1).name = x.long /\ e(-1).sum = sum_sfn(e(0)))
        \/ (e(0).type = "filedir" /\ e(2).name = x.long)
  <2> HIDE DEF e, f
  <2> QED BY <1>1, <1>2
<1> QED BY <1>3, Zenon DEF HasName

\* Of a file of the image, every segment is listed where it is looked for.
LEMMA SegmentListed ==
  ASSUME VolInv, SegInv, Finding, ~NotThere
  PROVE  \E p \in PlacesOf(medium, Base) :
           /\ p[2] = DirChain /\ IsListed(medium, p, Segment)
           /\ (IsDirAt(medium, p) <=> level <= Len(Path))
<1>1. at \in Reading
  BY DEF Finding, Reading
<1>2. fs # NoFs /\ VolumeInv /\ DiskInv /\ fs = VolumeOf(medium, Base)
      /\ file \in DOMAIN Names
  BY <1>1, WalkFacts DEF Base
<1>3. IsComplete(medium, Base, Image)
  BY <1>2, ImageFacts DEF Base
<1>4. level \in 1..Len(Image.path) /\ Object(dj) = Image.path[level]
  BY DEF SegInv
<1>5. DirChain \in medium.dirs[Base] /\ IsChain(medium, fs, DirChain, Object(dj))
  BY <1>1, DirPlace
<1>6. Names[file].long \in DOMAIN Image.chain
  BY DEF NotThere, Writable
<1>7. \E p \in PlacesOf(medium, Base) :
        /\ p[2] = DirChain /\ IsListed(medium, p, SegmentOf(level, file))
        /\ (IsDirAt(medium, p) <=> level <= Len(Path))
  <2>1. IsChain(medium, VolumeOf(medium, Base), DirChain, Image.path[level])
    BY <1>2, <1>4, <1>5
  <2> QED BY <1>2, <1>3, <1>4, <1>5, <1>6, <2>1, Zenon DEF IsComplete
<1> QED BY <1>7 DEF Segment

\* An entry that has the name of a segment is the only one.
LEMMA OtherKind ==
  ASSUME VolInv, SegInv, Finding, NEW p \in PlacesOf(medium, Base), p[2] = DirChain,
         HasName(medium, p, Segment), ~(IsDirAt(medium, p) <=> level <= Len(Path))
  PROVE  NotThere
<1> SUFFICES ASSUME ~NotThere PROVE FALSE
  OBVIOUS
<1>1. at \in Reading
  BY DEF Finding, Reading
<1>2. fs # NoFs /\ VolumeInv /\ DiskInv /\ file \in DOMAIN Names
  BY <1>1, WalkFacts
<1>3. PICK q \in PlacesOf(medium, Base) :
        /\ q[2] = DirChain /\ IsListed(medium, q, Segment)
        /\ (IsDirAt(medium, q) <=> level <= Len(Path))
  BY SegmentListed
<1>4. HasName(medium, q, Segment)
  <2>1. q[3] \in Nat
    BY <1>2, PlaceHere
  <2> QED BY <1>3, <2>1, ListedHasName
<1>5. p = q
  <2>1. IsComplete(medium, Base, Image)
    BY <1>2, ImageFacts DEF Base
  <2>2. level \in 1..Len(Image.path)
    BY DEF SegInv
  <2>3. HasName(medium, p, SegmentOf(level, file)) /\ HasName(medium, q, SegmentOf(level, file))
    BY <1>4 DEF Segment
  <2> QED BY <1>2, <1>3, <2>1, <2>2, <2>3, Zenon DEF IsComplete
<1> QED BY <1>3, <1>5

\* The only one is read-only.
LEMMA ReadOnlyFile ==
  ASSUME VolInv, SegInv, Finding, level > Len(Path), NEW p \in PlacesOf(medium, Base),
         p[2] = DirChain, HasName(medium, p, Segment), ~IsDirAt(medium, p),
         IsReadOnlyAt(medium, p)
  PROVE  NotThere
<1>1. at \in Reading
  BY DEF Finding, Reading
<1>2. /\ fs # NoFs /\ VolumeInv /\ DiskInv /\ fs = VolumeOf(medium, Base)
      /\ file \in DOMAIN Names
  BY <1>1, WalkFacts DEF Base
<1>3. LeadsTo(medium, Base, Image)
  BY <1>2, ImageFacts DEF Base
<1>4. level \in 1..Len(Image.path) /\ Object(dj) = Image.path[level]
  BY DEF SegInv
<1>5. IsIn(medium, p, Image.path[level])
  <2>1. IsChain(medium, fs, DirChain, Object(dj))
    BY <1>1, DirPlace
  <2>2. p[1] = Base
    BY <1>2, PlaceHere
  <2> QED BY <1>2, <1>4, <2>1, <2>2 DEF IsIn
<1>6. HasName(medium, p, SegmentOf(level, file))
  BY DEF Segment
<1>7. Names[file].long \in Image.readonly
  BY <1>2, <1>3, <1>4, <1>5, <1>6, Zenon DEF LeadsTo
<1> QED BY <1>7 DEF NotThere, Writable

\* The directory has been searched to its end.
LEMMA Exhausted ==
  ASSUME VolInv, SegInv, Finding, SoughtInv,
         \A p \in PlacesOf(medium, Base) :
           p[2] = DirChain /\ ~(p[3] < Reached) => ~IsListed(medium, p, Segment)
  PROVE  NotThere
<1> SUFFICES ASSUME ~NotThere PROVE FALSE
  OBVIOUS
<1>1. PICK p \in PlacesOf(medium, Base) :
        p[2] = DirChain /\ IsListed(medium, p, Segment)
  BY SegmentListed
<1>2. ~(p[3] < Reached)
  BY <1>1 DEF SoughtInv
<1> QED BY <1>1, <1>2

\* An entry that ends the directory.
LEMMA EndHere ==
  ASSUME VolInv, SegInv, Finding, SoughtInv, at = "entry", Reached = Here,
         OldHere.type = "end"
  PROVE  NotThere
<1>1. at \in Reading
  BY DEF Reading
<1>2. fs # NoFs /\ VolumeInv /\ DiskInv /\ fs = VolumeOf(medium, Base)
  BY <1>1, WalkFacts DEF Base
<1>3. Here = dj.dptr /\ dj.dptr \in Nat
  BY <1>1, DirPlace DEF Here
<1>4. ASSUME NEW p \in PlacesOf(medium, Base), p[2] = DirChain, ~(p[3] < Here),
             IsListed(medium, p, Segment)
      PROVE  FALSE
  <2> DEFINE e(i) == EntryOf(medium, VolumeOf(medium, p[1]), p[2], p[3] + i)
  <2>1. p[3] \in Nat /\ p[1] = Base
    BY <1>2, PlaceHere
  <2>2. /\ \A i \in 1..p[3] : e(-i).type # "end"
        /\ e(0).type \in {"short", "filedir"}
    <3>1. /\ \A i \in 1..p[3] : e(-i).type # "end"
          /\ IF VolumeOf(medium, p[1]).fs_type = "exFAT" THEN e(0).type = "filedir" ELSE e(0).type = "short"
      BY <1>4, Zenon DEF IsListed
    <3> HIDE DEF e
    <3> QED BY <3>1
  <2>3. \A i : p[3] + i = dj.dptr => e(i).type = "end"
    BY <1>2, <1>4, <2>1 DEF OldHere
  <2> DEFINE j == p[3] - dj.dptr
  <2>4. CASE p[3] = dj.dptr
    <3>1. p[3] + 0 = dj.dptr
      BY <2>1, <2>4
    <3>2. e(0).type = "end"
      BY <2>3, <3>1
    <3> QED BY <2>2, <3>2
  <2>5. CASE p[3] # dj.dptr
    <3>1. j \in 1..p[3] /\ p[3] + (-j) = dj.dptr
      BY <1>3, <1>4, <2>1, <2>5
    <3> QED BY <2>2, <2>3, <3>1
  <2> QED BY <2>4, <2>5
<1> QED BY <1>4, Exhausted

-----------------------------------------------------------------------------
(* Within a directory                                                      *)

\* The same directory is read on, for the same purpose.
SameRead ==
  /\ at \in Reading /\ at' \in Reading
  /\ (at' = "seek" => at = "seek") /\ (at = "seek" => task # "find")
  /\ UNCHANGED <<medium, fs, file, task, level, fil, parts>>
  /\ Object(dj') = Object(dj) /\ (task # "find" => UNCHANGED blk_ofs)

LEMMA SameReadFacts ==
  ASSUME SameRead
  PROVE  /\ DirChain' = DirChain /\ Base' = Base /\ Image' = Image
         /\ Segment' = Segment /\ Finding' = Finding
         /\ \A p : Storing(p)' = Storing(p)
<1>1. Base' = Base /\ Image' = Image
  BY DEF SameRead, Base, Image
<1>2. DirChain' = DirChain
  BY <1>1 DEF SameRead, DirChain
<1>3. Segment' = Segment
  BY DEF SameRead, Segment
<1>4. Finding' = Finding
  BY DEF SameRead, Finding, Reading
<1>5. ASSUME NEW p PROVE Storing(p)' = Storing(p)
  <2>1. at \in Reading /\ at' \in Reading
    BY DEF SameRead
  <2>2. CASE task = "store"
    BY <1>2, <2>1, <2>2 DEF SameRead, Storing
  <2>3. CASE task # "store"
    BY <2>3 DEF SameRead, Storing
  <2> QED BY <2>2, <2>3
<1> QED BY <1>1, <1>2, <1>3, <1>4, <1>5

LEMMA ReadsOnImage ==
  ASSUME ImageInv, VolInv', fs # NoFs, SameRead, Gentle, BufInv',
         Finding => SoughtInv' /\ SeqInv'
  PROVE  ImageInv'
<1>1. /\ VolInv /\ DataInv /\ SegInv /\ FileAtInv /\ DoneInv /\ CalmInv /\ CompleteInv
      /\ DiskInv /\ VolumeInv
  BY DEF ImageInv, FoundInv, VolInv
<1>2. /\ at \in Reading /\ at' \in Reading /\ at' \notin {"expand", "linkmap"}
      /\ (at' = "seek" => at = "seek")
      /\ UNCHANGED <<medium, fs, file, task, level, fil, parts>>
      /\ Object(dj') = Object(dj)
  BY DEF SameRead, Reading
<1>3. /\ Image' = Image /\ Finding' = Finding /\ \A p : Storing(p)' = Storing(p)
  BY SameReadFacts
<1>4. SameSeen(card', win') /\ DataInv' /\ (failed => failed')
      /\ (win'.dirty /\ ~failed' => win.dirty /\ ~failed)
  BY DEF Gentle
<1>5. FileAtInv'
  BY <1>1, <1>2, FilesAtStay
<1>6. CalmInv'
  BY <1>1, <1>2, <1>4 DEF CalmInv, Reading
<1>7. LinkInv'
  BY <1>2 DEF LinkInv
<1>8. CASE Finding
  <2>1. SegInv'
    BY <1>1, <1>2, <1>3, <1>8 DEF SegInv
  <2>2. InOpen /\ ~Past0'
    BY <1>2, <1>8 DEF InOpen, Past0, Reading, Finding
  <2>3. DoneInv'
    <3>1. \A k \in 1..(file - 1) : NamedK(k)
      BY <1>1, <2>2 DEF DoneInv
    <3>2. \A k \in 1..(file - 1) : NamedK(k)'
      BY <1>2, <3>1, NamedStays
    <3> QED BY <1>2, <2>2, <3>2 DEF DoneInv
  <2>4. CompleteInv'
    BY <2>2 DEF CompleteInv
  <2> QED BY <1>4, <1>5, <1>6, <1>7, <1>8, <2>1, <2>3, <2>4, ImageParts DEF ReadInv
<1>9. CASE ~Finding
  <2>1. task # "find" /\ Past0 /\ ~InOpen'
    BY <1>2, <1>3, <1>9 DEF Finding, Past0, SameRead, Reading, InOpen
  <2>2. SegInv' /\ SoughtInv' /\ SeqInv'
    BY <1>3, <1>9 DEF SegInv, SoughtInv, SeqInv
  <2>3. ASSUME NEW p \in PlacesOf(medium, Base), Torn(p), ~Storing(p)
        PROVE  Torn(p)' /\ ~Storing(p)'
    BY <1>1, <1>2, <1>3, <1>4, <2>3, TornStays
  <2>4. DoneInv' /\ CompleteInv'
    BY <1>1, <1>2, <1>4, <2>1, <2>3, PastStays
  <2> QED BY <1>4, <1>5, <1>6, <1>7, <2>2, <2>4, ImageParts DEF ReadInv
<1> QED BY <1>8, <1>9

\* What the step passes does not have the name.
LEMMA SoughtOn ==
  ASSUME SameRead, Finding, SoughtInv,
         \A p \in PlacesOf(medium, Base) :
           p[2] = DirChain /\ ~(p[3] < Reached) /\ p[3] < Reached'
             => ~IsListed(medium, p, Segment)
  PROVE  SoughtInv'
<1>1. /\ DirChain' = DirChain /\ Base' = Base /\ Segment' = Segment
  BY SameReadFacts
<1>2. medium' = medium
  BY DEF SameRead
<1>3. ASSUME NEW p \in PlacesOf(medium, Base), p[2] = DirChain, p[3] < Reached'
      PROVE  ~IsListed(medium, p, Segment)
  BY <1>3 DEF SoughtInv
<1>4. ASSUME NEW p \in PlacesOf(medium, Base)', p[2] = DirChain', p[3] < Reached'
      PROVE  ~IsListed(medium, p, Segment)'
  BY <1>1, <1>2, <1>3, <1>4
<1> QED BY <1>4 DEF SoughtInv

\* A step to the next entry.
LEMMA NextIsSameRead ==
  ASSUME VolInv, at = "entry", UNCHANGED <<medium, fs, file, task, level, fil, parts>>,
         NEW d, DirAt(medium, fs.volbase, d), Object(d) = Object(dj), d.dptr = dj.dptr,
         dir_next(d), task # "find" => UNCHANGED blk_ofs
  PROVE  SameRead /\ Here = dj.dptr /\ Here' = dj.dptr + 1 /\ dj.dptr \in Nat
         /\ dj'.ord = d.ord /\ dj'.sum = d.sum
<1>1. at \in Reading /\ at \in {"entry", "next"} /\ Here = dj.dptr
  BY DEF Reading, Here
<1>2. /\ at' \in {"next", "entry"} /\ Here' = d.dptr + 1
      /\ Object(dj') = Object(d) /\ dj'.ord = d.ord /\ dj'.sum = d.sum
  BY <1>1, DirNext
<1>3. SameRead
  BY <1>1, <1>2 DEF SameRead, Reading
<1>4. dj.dptr \in Nat
  BY <1>1, WalkFacts
<1> QED BY <1>1, <1>2, <1>3, <1>4

-----------------------------------------------------------------------------
(* FAT32                                                                   *)

\* An entry that is listed is matched.
LEMMA ListedMatches ==
  ASSUME VolInv, DataInv, SoughtInv, SeqInv, at = "entry", task = "find",
         fs.fs_type = "FAT32", IsListed(medium, HerePlace, Segment)
  PROVE  EntryHere.type = "short" /\ ShortNameMatches(EntryHere)
<1> DEFINE p == HerePlace
           e(i) == EntryOf(medium, VolumeOf(medium, p[1]), p[2], p[3] + i)
           Long(i, m) == /\ e(-i).type = "long" /\ e(-i).name = Segment.long
                         /\ e(-i).sum = sum_sfn(e(0))
                         /\ e(-i).ord = i /\ (e(-i).last <=> i = m)
<1>1. at \in Reading /\ Finding /\ Here = dj.dptr
  BY DEF Reading, Finding, Here
<1>2. fs # NoFs /\ VolumeInv /\ DiskInv /\ fs = VolumeOf(medium, Base)
  BY <1>1, WalkFacts DEF Base
<1>3. /\ p \in PlacesOf(medium, Base) /\ p[1] = Base /\ p[2] = DirChain
      /\ p[3] = dj.dptr /\ dj.dptr \in Nat
  BY <1>1, DirPlace
<1>4. EntryHere.type = OldHere.type /\ EntryHere.name = OldHere.name
  BY <1>1, HereNow
<1>5. p[3] + 0 = p[3]
  BY <1>3
<1> HIDE DEF p
<1>6. e(0) = OldHere
  BY <1>2, <1>3, <1>5 DEF OldHere
<1>7. /\ e(0).type = "short"
      /\ \/ ~Segment.lossy /\ e(0).name = Segment.short
         \/ \E m \in 1..p[3] : \A i \in 1..m : Long(i, m)
  <2>1. IsListed(medium, p, Segment)
    BY DEF p
  <2>2. IF VolumeOf(medium, p[1]).fs_type = "exFAT"
        THEN e(0).type = "filedir" /\ e(2).name = Segment.long
        ELSE /\ e(0).type = "short"
             /\ \/ ~Segment.lossy /\ e(0).name = Segment.short
                \/ \E m \in 1..p[3] : \A i \in 1..m : Long(i, m)
    BY <2>1, Zenon DEF IsListed
  <2> HIDE DEF e
  <2> QED BY <1>2, <1>3, <2>2
<1>8. EntryHere.type = "short"
  BY <1>4, <1>6, <1>7
<1>9. CASE ~Segment.lossy /\ e(0).name = Segment.short
  BY <1>4, <1>6, <1>8, <1>9 DEF ShortNameMatches
<1>10. ASSUME NEW m \in 1..p[3], \A i \in 1..m : Long(i, m)
       PROVE  dj.ord = 0 /\ dj.sum = sum_sfn(EntryHere)
  <2>1. 1 \in 1..m /\ Here = p[3] - 1 + 1
    BY <1>1, <1>3
  <2>2. ASSUME NEW j \in 1..m PROVE LongAt(p, Segment, j, m)
    <3>1. Long(j, m)
      BY <1>10
    <3> QED BY <1>2, <1>3, <3>1, Zenon DEF LongAt
  <2>3. dj.ord = 1 - 1 /\ dj.sum = sum_sfn(EntryOf(medium, fs, p[2], p[3]))
    BY <1>1, <1>3, <2>1, <2>2, Zenon DEF SeqInv
  <2>4. EntryOf(medium, fs, p[2], p[3]) = OldHere
    BY <1>3 DEF OldHere
  <2> QED BY <1>4, <2>3, <2>4 DEF sum_sfn
<1> QED BY <1>7, <1>8, <1>9, <1>10 DEF ShortNameMatches

\* The sequence of a long name goes on.
LEMMA FatSequence ==
  ASSUME VolInv, DataInv, SoughtInv, SeqInv, at = "entry", task = "find",
         fs.fs_type = "FAT32", FatPasses, SameRead, Here' = dj.dptr + 1,
         EntryHere.type = "long" =>
           dj'.ord = LongNameSeen(EntryHere).ord /\ dj'.sum = LongNameSeen(EntryHere).sum
  PROVE  SeqInv'
<1>1. at \in Reading /\ Finding /\ Here = dj.dptr
  BY DEF Reading, Finding, Here
<1>2. fs # NoFs /\ VolumeInv /\ DiskInv /\ DOMAIN dj = DjFields
  BY <1>1, WalkFacts DEF DirAt
<1>3. /\ DirChain' = DirChain /\ Base' = Base /\ Segment' = Segment
      /\ medium' = medium /\ fs' = fs
  BY SameReadFacts DEF SameRead
<1>4. ASSUME NEW p \in PlacesOf(medium, Base), p[2] = DirChain,
             NEW m \in 1..p[3], NEW i \in 1..m,
             \A j \in i..m : LongAt(p, Segment, j, m), Here' = p[3] - i + 1
      PROVE  dj'.ord = i - 1 /\ dj'.sum = sum_sfn(EntryOf(medium, fs, p[2], p[3]))
  <2> DEFINE e == EntryHere
             sum == sum_sfn(EntryOf(medium, fs, p[2], p[3]))
  <2>1. p[3] \in Nat /\ dj.dptr \in Nat /\ dj.dptr = p[3] + (-i) /\ i \in i..m
    <3>1. p[3] \in Nat /\ dj.dptr \in Nat
      BY <1>1, <1>2, PlaceHere, DirPlace
    <3> QED BY <1>4, <3>1
  <2>2. /\ OldHere.type = "long" /\ OldHere.name = Segment.long /\ OldHere.sum = sum
        /\ OldHere.ord = i /\ (OldHere.last <=> i = m)
    <3>1. LongAt(p, Segment, i, m)
      BY <1>4, <2>1
    <3>2. p[3] + 0 = p[3]
      BY <2>1
    <3>3. EntryOf(medium, fs, p[2], p[3] + (-i)) = OldHere
      BY <1>4, <2>1 DEF OldHere
    <3>4. EntryOf(medium, fs, p[2], p[3] + 0) = EntryOf(medium, fs, p[2], p[3])
      BY <3>2
    <3> QED BY <3>1, <3>3, <3>4, Zenon DEF LongAt
  <2>3. e = OldHere
    <3>1. e.type = "long"
      BY <1>1, <2>2, HereNow
    <3> QED BY <1>1, <3>1, HereNow
  <2> HIDE DEF e, sum
  <2>4. dj'.ord = LongNameSeen(e).ord /\ dj'.sum = LongNameSeen(e).sum
    BY <2>2, <2>3 DEF e
  <2>5. CASE i = m
    <3>1. e.last /\ e.ord = i /\ e.sum = sum /\ cmp_lfn(e)
      BY <2>2, <2>3, <2>5 DEF cmp_lfn
    <3>2. LongNameSeen(e) = [dj EXCEPT !.sum = e.sum, !.ord = e.ord - 1]
      BY <3>1 DEF LongNameSeen
    <3>3. LongNameSeen(e).ord = e.ord - 1 /\ LongNameSeen(e).sum = e.sum
      BY <1>2, <3>2 DEF DjFields
    <3> QED BY <2>4, <3>1, <3>3 DEF sum
  <2>6. CASE i # m
    <3>1. i + 1 \in 1..m /\ Here = p[3] - (i + 1) + 1 /\ (i + 1) - 1 = i
      BY <1>1, <2>1, <2>6
    <3>2. \A j \in (i + 1)..m : LongAt(p, Segment, j, m)
      BY <1>4
    <3>3. dj.ord = (i + 1) - 1 /\ dj.sum = sum
      BY <1>1, <1>4, <3>1, <3>2, Zenon DEF SeqInv, sum
    <3>4. ~e.last /\ e.ord = dj.ord /\ e.sum = dj.sum /\ cmp_lfn(e) /\ dj.ord = i
      BY <2>2, <2>3, <2>6, <3>1, <3>3 DEF cmp_lfn
    <3>5. LongNameSeen(e) = [dj EXCEPT !.sum = dj.sum, !.ord = dj.ord - 1]
      BY <3>4 DEF LongNameSeen
    <3>6. LongNameSeen(e).ord = dj.ord - 1 /\ LongNameSeen(e).sum = dj.sum
      BY <1>2, <3>5 DEF DjFields
    <3> QED BY <2>4, <3>3, <3>4, <3>6 DEF sum
  <2> QED BY <2>5, <2>6
<1>5. ASSUME NEW p \in PlacesOf(medium, Base)', p[2] = DirChain',
             NEW m \in 1..p[3], NEW i \in 1..m,
             \A j \in i..m : LongAt(p, Segment, j, m)', Here' = p[3] - i + 1
      PROVE  dj'.ord = i - 1 /\ dj'.sum = sum_sfn(EntryOf(medium, fs, p[2], p[3]))'
  <2>1. p \in PlacesOf(medium, Base) /\ p[2] = DirChain
    BY <1>3, <1>5
  <2>2. ASSUME NEW j \in i..m PROVE LongAt(p, Segment, j, m)
    <3>1. LongAt(p, Segment, j, m)'
      BY <1>5
    <3> QED BY <1>3, <3>1, Zenon DEF LongAt
  <2>3. dj'.ord = i - 1 /\ dj'.sum = sum_sfn(EntryOf(medium, fs, p[2], p[3]))
    BY <1>4, <1>5, <2>1, <2>2
  <2> QED BY <1>3, <2>3
<1> QED BY <1>5, Zenon DEF SeqInv

LEMMA FatPassesImage ==
  ASSUME ImageInv, VolInv', at = "entry", task = "find", fs.fs_type = "FAT32",
         UNCHANGED <<medium, fs>>, Gentle, FatPasses
  PROVE  ImageInv'
<1> DEFINE e == EntryHere
           d == IF e.type = "long" THEN LongNameSeen(e) ELSE Unordered(dj)
<1>1. VolInv /\ DataInv /\ SoughtInv /\ SeqInv
  BY DEF ImageInv
<1>2. at \in Reading /\ Finding
  BY DEF Reading, Finding
<1>3. /\ fs # NoFs /\ VolumeInv /\ DiskInv /\ medium \in Cards
      /\ fs.volbase \in Volumes(medium) /\ DirAt(medium, fs.volbase, dj)
  BY <1>1, <1>2, WalkFacts
<1>4. /\ ~(e.type = "short" /\ ShortNameMatches(e)) /\ dir_next(d)
      /\ UNCHANGED <<file, task, level, dirbuf, blk_ofs, left, fil, parts>>
  BY Zenon DEF FatPasses
<1>5. DOMAIN dj = DjFields
  BY <1>3 DEF DirAt
<1>6. /\ DOMAIN d = DjFields /\ Object(d) = Object(dj) /\ d.dptr = dj.dptr
      /\ d.clust = dj.clust /\ d.sect = dj.sect
  <2> HIDE DEF e
  <2>1. CASE e.type = "long"
    <3>1. d = LongNameSeen(e)
      BY <2>1
    <3> HIDE DEF d
    <3> QED BY <1>5, <3>1 DEF LongNameSeen, DjFields, Object
  <2>2. CASE e.type # "long"
    <3>1. d = Unordered(dj)
      BY <2>2
    <3> HIDE DEF d
    <3> QED BY <1>5, <3>1 DEF Unordered, DjFields, Object
  <2> QED BY <2>1, <2>2
<1> HIDE DEF d
<1>7. DirAt(medium, fs.volbase, d)
  BY <1>3, <1>6, DirAgain
<1>8. /\ SameRead /\ Here = dj.dptr /\ Here' = dj.dptr + 1 /\ dj.dptr \in Nat
      /\ dj'.ord = d.ord /\ dj'.sum = d.sum
  BY <1>1, <1>4, <1>6, <1>7, NextIsSameRead
<1>9. SeqInv'
  <2>1. e.type = "long" =>
           dj'.ord = LongNameSeen(e).ord /\ dj'.sum = LongNameSeen(e).sum
    BY <1>8 DEF d
  <2> QED BY <1>1, <1>8, <2>1, FatSequence
<1>10. SoughtInv'
  <2>1. Reached = dj.dptr /\ Reached' = dj.dptr + 1
    BY <1>8 DEF Reached
  <2>2. ASSUME NEW p \in PlacesOf(medium, Base), p[2] = DirChain,
               ~(p[3] < Reached), p[3] < Reached', IsListed(medium, p, Segment)
        PROVE  FALSE
    <3>1. p[3] \in Nat /\ p = <<Base, p[2], p[3]>>
      BY <1>3, PlaceHere
    <3>2. p[3] = dj.dptr
      BY <1>8, <2>1, <2>2, <3>1
    <3>3. p = HerePlace
      BY <2>2, <3>1, <3>2 DEF HerePlace
    <3> QED BY <1>1, <1>4, <2>2, <3>3, ListedMatches
  <2> QED BY <1>1, <1>2, <1>8, <2>2, SoughtOn
<1>11. BufInv'
  BY <1>8 DEF BufInv, SameRead
<1> QED BY <1>3, <1>8, <1>9, <1>10, <1>11, ReadsOnImage

-----------------------------------------------------------------------------
(* What is found                                                           *)

\* Nothing waits to be written while a name is looked for.
LEMMA FindingCalm ==
  ASSUME CalmInv, InOpen, Gentle
  PROVE  CalmInv'
<1>1. ~(win.dirty /\ ~failed)
  BY DEF CalmInv, InOpen, Finding
<1> QED BY <1>1 DEF CalmInv, Gentle

\* f_open goes on: the files before are as they were.
LEMMA StillOpening ==
  ASSUME DoneInv, fs # NoFs, InOpen, InOpen', ~Past0', UNCHANGED <<medium, fs, file>>,
         \A k \in 1..(file - 1) : fil'[k].open = fil[k].open /\ fil'[k].cltbl = fil[k].cltbl
  PROVE  DoneInv' /\ CompleteInv'
<1>1. \A k \in 1..(file - 1) : NamedK(k)
  BY DEF DoneInv
<1>2. \A k \in 1..(file - 1) : NamedK(k)'
  BY <1>1, NamedStays
<1> QED BY <1>2 DEF DoneInv, CompleteInv

\* follow_path goes on along the path.
LEMMA EnterImage ==
  ASSUME ImageInv, VolInv', fs # NoFs, Finding, UNCHANGED <<medium, fs>>, Gentle,
         NEW p, NEW obj, NEW e, NEW sect, Hit(p, obj, e, sect),
         level <= Len(Path), e.dir,
         EnterDirectory(obj)
  PROVE  ImageInv'
<1>1. /\ VolInv /\ DataInv /\ FileAtInv /\ DoneInv /\ CalmInv /\ SegInv
      /\ DiskInv /\ VolumeInv
  BY DEF ImageInv, FoundInv, VolInv
<1>2. /\ at' = "entry" /\ level' = level + 1 /\ dj' = dir_sdi(obj) /\ dirbuf' = <<>>
      /\ UNCHANGED <<file, task, left, fil, parts>>
  BY DEF EnterDirectory
<1>3. task = "find" /\ at \in Reading
  BY DEF Finding, Reading
<1>4. /\ p \in PlacesOf(medium, Base) /\ IsIn(medium, p, Object(dj))
      /\ HasName(medium, p, Segment) /\ IsDirAt(medium, p)
      /\ obj = ObjectAt(medium, p)
  BY DEF Hit
<1>5. level \in 1..Len(Image.path) /\ Object(dj) = Image.path[level]
  BY <1>1 DEF SegInv
<1>6. LeadsTo(medium, Base, Image) /\ file \in DOMAIN Names
  BY <1>1, <1>3, ImageFacts, WalkFacts DEF Base
<1>7. level < Len(Image.path) /\ Image.path[level + 1] = obj
  <2>1. HasName(medium, p, SegmentOf(level, file)) /\ IsIn(medium, p, Image.path[level])
    BY <1>4, <1>5 DEF Segment
  <2> QED BY <1>4, <1>5, <1>6, <2>1, Zenon DEF LeadsTo
<1>8. level + 1 \in 1..Len(Image.path) /\ obj.sclust = 0 => obj.stat = 0
  <2>1. Len(Image.path) \in Nat
    BY <1>6, NamesAssumption DEF LeadsTo
  <2>2. level + 1 \in 1..Len(Image.path)
    BY <1>5, <1>7, <2>1
  <2> QED BY <1>6, <1>7, <2>2, Zenon DEF LeadsTo
<1>9. Object(dj') = obj /\ dj'.dptr = 0
  <2>1. obj = [sclust |-> obj.sclust, size |-> obj.size, stat |-> obj.stat]
    BY <1>4 DEF ObjectAt
  <2>2. obj.sclust = 0 => obj.stat = 0
    <3>1. Len(Image.path) \in Nat
      BY <1>6, NamesAssumption DEF LeadsTo
    <3>2. level + 1 \in 1..Len(Image.path)
      BY <1>5, <1>7, <3>1
    <3> QED BY <1>6, <1>7, <3>2, Zenon DEF LeadsTo
  <2> QED BY <1>2, <2>1, <2>2 DEF Object, dir_sdi
<1>10. SegInv'
  <2>1. Image' = Image
    BY DEF Image
  <2>2. level + 1 \in 1..Len(Image.path)
    <3>1. Len(Image.path) \in Nat
      BY <1>6, NamesAssumption DEF LeadsTo
    <3> QED BY <1>5, <1>7, <3>1
  <2> QED BY <1>2, <1>7, <1>9, <2>1, <2>2 DEF SegInv
<1>11. BufInv' /\ LinkInv' /\ SoughtInv' /\ SeqInv'
  BY <1>1, <1>2, <1>3, <1>9, AtStart
<1>12. InOpen /\ InOpen' /\ ~Past0'
  BY <1>2, <1>3 DEF InOpen, Finding, Past0, Reading
<1>13. DoneInv' /\ CompleteInv'
  BY <1>1, <1>2, <1>12, StillOpening
<1>14. CalmInv' /\ DataInv'
  BY <1>1, <1>12, FindingCalm DEF Gentle
<1>15. FileAtInv'
  BY <1>1, <1>2, FilesAtStay
<1> QED BY <1>10, <1>11, <1>13, <1>14, <1>15, ImageParts DEF ReadInv

\* f_open has found the file of the image.
LEMMA OpenedImage ==
  ASSUME ImageInv, VolInv', fs # NoFs, Finding, UNCHANGED <<medium, fs>>, Gentle,
         NEW p, NEW obj, NEW e, NEW sect, Hit(p, obj, e, sect),
         level > Len(Path), ~e.dir, ~e.rdo,
         Opened(obj, sect)
  PROVE  ImageInv'
<1>1. /\ VolInv /\ DataInv /\ FileAtInv /\ DoneInv /\ CalmInv /\ SegInv
      /\ DiskInv /\ VolumeInv /\ FilesInv
  BY DEF ImageInv, FoundInv, VolInv
<1>2. task = "find" /\ at \in Reading
  BY DEF Finding, Reading
<1> DEFINE f == [Closed EXCEPT !.open = TRUE, !.sclust = obj.sclust, !.size = obj.size,
                      !.stat = obj.stat, !.clust = obj.sclust,
                      !.dir_sect = sect, !.dir_ptr = dj.dptr % PerSect,
                      !.container = [sclust |-> dj.sclust, size |-> dj.size,
                                     stat |-> dj.stat],
                      !.c_ofs = blk_ofs]
<1>3. at' = "expand" /\ fil' = [fil EXCEPT ![file] = f]
      /\ UNCHANGED <<file, task, parts>>
  BY DEF Opened, dirVars
<1>4. /\ f.open /\ f.sclust = obj.sclust /\ f.size = obj.size /\ f.stat = obj.stat
      /\ f.dir_sect = sect /\ f.dir_ptr = dj.dptr % PerSect
      /\ f.container = Object(dj) /\ f.c_ofs = blk_ofs /\ f.cltbl = <<>>
  BY DEF Closed, Object
<1> HIDE DEF f
<1>5. /\ p \in PlacesOf(medium, Base) /\ p[2] = DirChain /\ IsIn(medium, p, Object(dj))
      /\ HasName(medium, p, Segment) /\ ~IsDirAt(medium, p)
      /\ ~IsReadOnlyAt(medium, p)
      /\ obj.sclust = ObjectAt(medium, p).sclust /\ obj.stat = ObjectAt(medium, p).stat
      /\ obj.size \in ObjectAt(medium, p).size..UpTo(fs, ObjectAt(medium, p).size)
      /\ IF fs.fs_type = "exFAT"
         THEN p[3] = blk_ofs /\ EntryOf(medium, fs, p[2], p[3]).type = "filedir"
         ELSE /\ PlaceOf(medium, p) = <<sect, dj.dptr % PerSect>>
              /\ EntryOf(medium, fs, p[2], p[3]).type = "short"
  BY Zenon DEF Hit
<1>6. level \in 1..Len(Image.path) /\ Object(dj) = Image.path[level]
  BY <1>1 DEF SegInv
<1>7. file \in DOMAIN Names /\ DOMAIN fil = DOMAIN Names
  BY <1>1, <1>2, WalkFacts DEF FilesInv
<1>8. level = Len(Path) + 1 /\ Len(Image.path) = Len(Path) + 1
  <2>1. Len(Image.path) \in 1..(Len(Path) + 1)
    BY <1>1, ImageFacts DEF Base, LeadsTo
  <2> QED BY <1>6, <2>1, NamesAssumption
<1>9. Segment = Names[file]
  <2>1. ~(level <= Len(Path))
    BY <1>8, NamesAssumption
  <2> QED BY <2>1 DEF Segment, SegmentOf
<1>10. FileAt(f, file, p)
  <2>1. IsIn(medium, p, Image.path[Len(Path) + 1])
    BY <1>5, <1>6, <1>8
  <2>2. DirChain = ChainOf(medium, Base, f.container)
    BY <1>4 DEF DirChain
  <2> QED BY <1>4, <1>5, <1>8, <1>9, <2>1, <2>2 DEF FileAt
<1>11. FileAtInv'
  BY <1>1, <1>3, <1>5, <1>7, <1>10, FileAtChanges
<1>12. fil'[file] = f /\ \A k : k # file => fil'[k] = fil[k]
  BY <1>3, <1>7
<1>13. InOpen /\ InOpen' /\ ~Past0' /\ ~Finding' /\ at' \notin Reading
  BY <1>2, <1>3 DEF InOpen, Finding, Past0, Reading
<1>14. DoneInv' /\ CompleteInv'
  <2>1. \A k \in 1..(file - 1) : k # file
    BY <1>7, FirstName
  <2> QED BY <1>1, <1>3, <1>12, <1>13, <2>1, StillOpening
<1>15. ReadInv'
  <2>1. SegInv' /\ SoughtInv' /\ SeqInv' /\ BufInv'
    BY <1>13 DEF SegInv, SoughtInv, SeqInv, BufInv
  <2>2. LinkInv'
    BY <1>3, <1>4, <1>12 DEF LinkInv
  <2> QED BY <2>1, <2>2 DEF ReadInv
<1>16. CalmInv' /\ DataInv'
  BY <1>1, <1>13, FindingCalm DEF Gentle
<1> QED BY <1>11, <1>14, <1>15, <1>16, ImageParts

LEMMA HitImage ==
  ASSUME ImageInv, VolInv', fs # NoFs, Finding, UNCHANGED <<medium, fs>>, Gentle,
         NEW p, NEW obj, NEW e, NEW sect, Hit(p, obj, e, sect)
  PROVE  ImageInv'
<1>1. /\ VolInv /\ SegInv /\ task = "find" /\ at \in Reading
  BY DEF ImageInv, FoundInv, Finding, Reading
<1>2. /\ p \in PlacesOf(medium, Base) /\ p[2] = DirChain
      /\ HasName(medium, p, Segment) /\ (e.dir <=> IsDirAt(medium, p))
      /\ Found(obj, e, sect)
  BY DEF Hit
<1>3. file \in DOMAIN Names /\ level \in Nat
  BY <1>1, WalkFacts
<1>6. CASE level <= Len(Path) /\ e.dir
  <2>1. EnterDirectory(obj)
    BY <1>2, <1>6 DEF Found
  <2> QED BY <1>6, <2>1, EnterImage
<1>7. CASE level > Len(Path) /\ ~e.dir /\ ~e.rdo
  <2>1. Opened(obj, sect)
    BY <1>2, <1>3, <1>7, NamesAssumption DEF Found
  <2> QED BY <1>7, <2>1, OpenedImage
<1>8. CASE ~(level <= Len(Path) /\ e.dir) /\ ~(level > Len(Path) /\ ~e.dir /\ ~e.rdo)
  <2>1. OpenFails
    BY <1>1, <1>2, <1>8 DEF Found, DirFails
  <2>2. NotThere
    <3>1. CASE ~(IsDirAt(medium, p) <=> level <= Len(Path))
      BY <1>1, <1>2, <3>1, OtherKind
    <3>2. CASE IsDirAt(medium, p) <=> level <= Len(Path)
      <4>1. level > Len(Path) /\ ~IsDirAt(medium, p) /\ e.rdo
        BY <1>2, <1>3, <1>8, <3>2, NamesAssumption
      <4>2. IsReadOnlyAt(medium, p)
        BY <4>1, Zenon DEF Hit
      <4> QED BY <1>1, <1>2, <4>1, <4>2, ReadOnlyFile
    <3> QED BY <3>1, <3>2
  <2> QED BY <1>3, <2>1, <2>2, OpenFailsImage
<1> QED BY <1>6, <1>7, <1>8

-----------------------------------------------------------------------------
(* What fails                                                              *)

\* A directory that cannot be read any further.
LEMMA DirFailsImage ==
  ASSUME ImageInv, VolInv', fs # NoFs, at \in Reading, UNCHANGED <<medium, fs>>,
         Gentle, DirFails,
         \/ failed'
         \/ task = "load" \/ at = "seek"
         \/ Finding /\ NotThere
         \/ fs.fs_type = "exFAT" /\ task # "store" /\ \E p \in PlacesOf(medium, Base) : Torn(p)
  PROVE  ImageInv'
<1>1. /\ VolInv /\ FileAtInv /\ CalmInv /\ VolumeInv /\ file \in DOMAIN Names
      /\ task \in {"find", "load", "store"}
  BY WalkFacts DEF ImageInv, FoundInv
<1>2. CASE task = "find"
  <2>1. Finding
    BY <1>1, <1>2 DEF VolumeInv, Finding, Reading
  <2>2. OpenFails
    BY <1>2 DEF DirFails
  <2>3. at # "seek"
    BY <1>1, <1>2 DEF VolumeInv
  <2> QED BY <1>1, <1>2, <2>1, <2>2, <2>3, OpenFailsImage
<1>3. CASE task # "find"
  <2>1. SyncReturns /\ UNCHANGED fil
    BY <1>3 DEF DirFails
  <2>2. Past0
    BY <1>3 DEF Past0
  <2>3. win'.dirty => failed'
    <3>1. SUFFICES ASSUME win'.dirty, ~failed' PROVE FALSE
      OBVIOUS
    <3>2. win.dirty /\ ~failed
      BY <3>1 DEF Gentle
    <3>3. task = "store" /\ at # "seek"
      BY <1>1, <3>2 DEF CalmInv, Reading
    <3> QED BY <3>1, <3>2, <3>3 DEF Finding
  <2>4. FileAtInv'
    BY <1>1, <2>1, FilesAtStay
  <2>5. parts' = parts /\ at' \notin Reading \cup {"expand", "linkmap"}
    BY <2>1 DEF SyncReturns, Reading
  <2> QED BY <2>1, <2>2, <2>3, <2>4, <2>5, PastImage
<1> QED BY <1>2, <1>3

LEMMA FatEntryImage ==
  ASSUME ImageInv, VolInv', FatEntry
  PROVE  ImageInv'
<1>1. VolInv /\ DataInv /\ SegInv /\ SoughtInv
  BY DEF ImageInv, FoundInv
<1>2. /\ at = "entry" /\ fs.fs_type = "FAT32" /\ task = "find" /\ fs # NoFs
      /\ UNCHANGED <<medium, fs>> /\ Gentle
      /\ \/ DirFails /\ failed'
         \/ FatEnds
         \/ \E p, obj, e, sect : Hit(p, obj, e, sect)
         \/ FatPasses
  BY <1>1, FatOutcomes
<1>3. Finding /\ at \in Reading
  BY <1>2 DEF Finding, Reading
<1>4. CASE DirFails /\ failed'
  BY <1>2, <1>3, <1>4, DirFailsImage
<1>5. CASE FatEnds
  <2>1. DirFails /\ OldHere.type = "end"
    BY <1>5 DEF FatEnds
  <2>2. Reached = Here
    BY <1>2 DEF Reached
  <2>3. NotThere
    BY <1>1, <1>2, <1>3, <2>1, <2>2, EndHere
  <2> QED BY <1>2, <1>3, <2>1, <2>3, DirFailsImage
<1>6. CASE \E p, obj, e, sect : Hit(p, obj, e, sect)
  BY <1>2, <1>3, <1>6, HitImage
<1>7. CASE FatPasses
  BY <1>2, <1>7, FatPassesImage
<1> QED BY <1>2, <1>4, <1>5, <1>6, <1>7

-----------------------------------------------------------------------------
(* exFAT                                                                   *)

LEMMA NoBuffer ==
  ASSUME dirbuf' = <<>>, task' = "find"
  PROVE  BufInv'
<1>1. Len(<<>>) = 0
  BY EmptySeq
<1> QED BY <1>1 DEF BufInv

LEMMA BetweenBlocksImage ==
  ASSUME ImageInv, VolInv', at = "entry", fs.fs_type = "exFAT",
         UNCHANGED <<medium, fs>>, Gentle, BetweenBlocks
  PROVE  ImageInv'
<1>1. VolInv /\ DataInv /\ SoughtInv
  BY DEF ImageInv
<1>2. at \in Reading
  BY DEF Reading
<1>3. /\ fs # NoFs /\ VolumeInv /\ DiskInv /\ fs = VolumeOf(medium, Base)
      /\ DirAt(medium, fs.volbase, dj)
  BY <1>1, <1>2, WalkFacts DEF Base
<1>4. /\ dirbuf = <<>> /\ task = "find" /\ OldHere.type # "filedir"
      /\ dirbuf' = <<>> /\ dir_next(dj)
      /\ UNCHANGED <<file, task, level, blk_ofs, left, fil, parts>>
  BY DEF BetweenBlocks, InBlock
<1>5. SameRead /\ Here = dj.dptr /\ Here' = dj.dptr + 1 /\ dj.dptr \in Nat
  BY <1>1, <1>3, <1>4, NextIsSameRead
<1>6. Finding
  BY <1>4 DEF Finding
<1>7. Reached = dj.dptr /\ Reached' = dj.dptr + 1
  BY <1>4, <1>5 DEF Reached
<1>8. ASSUME NEW p \in PlacesOf(medium, Base), p[2] = DirChain,
             ~(p[3] < Reached), p[3] < Reached', IsListed(medium, p, Segment)
      PROVE  FALSE
  <2>1. p[3] \in Nat /\ p[1] = Base
    BY <1>3, PlaceHere
  <2>2. p[3] + 0 = dj.dptr
    BY <1>5, <1>7, <1>8, <2>1
  <2>3. EntryOf(medium, VolumeOf(medium, p[1]), p[2], p[3] + 0).type = "filedir"
    BY <1>3, <1>8, <2>1, Zenon DEF IsListed
  <2>4. OldHere.type = "filedir"
    BY <1>3, <1>8, <2>1, <2>2, <2>3 DEF OldHere
  <2> QED BY <1>4, <2>4
<1>9. SoughtInv'
  BY <1>1, <1>5, <1>6, <1>8, SoughtOn
<1>10. SeqInv'
  BY <1>5 DEF SeqInv, SameRead
<1>11. BufInv'
  BY <1>4, NoBuffer
<1> QED BY <1>3, <1>5, <1>9, <1>10, <1>11, ReadsOnImage

LEMMA BlockOtherImage ==
  ASSUME ImageInv, VolInv', at = "entry", fs.fs_type = "exFAT",
         UNCHANGED <<medium, fs>>, Gentle, BlockOther
  PROVE  ImageInv'
<1>1. VolInv /\ DataInv /\ SoughtInv /\ BufInv /\ FileAtInv
  BY DEF ImageInv, FoundInv
<1>2. at \in Reading
  BY DEF Reading
<1>3. /\ fs # NoFs /\ VolumeInv /\ DiskInv /\ fs = VolumeOf(medium, Base)
      /\ DirAt(medium, fs.volbase, dj)
  BY <1>1, <1>2, WalkFacts DEF Base
<1>4. /\ InBlock /\ dirbuf # <<>> /\ BlockStart = blk_ofs
      /\ Len(BlockHere) = BlockHere[1].ord
      /\ task = "find" /\ OldBlock(2).name # Segment.long
      /\ dirbuf' = <<>> /\ dir_next(dj)
      /\ UNCHANGED <<file, task, level, blk_ofs, left, fil, parts>>
  BY DEF BlockOther, BlockLast
<1>5. SameRead /\ Here = dj.dptr /\ Here' = dj.dptr + 1 /\ dj.dptr \in Nat
  BY <1>1, <1>3, <1>4, NextIsSameRead
<1>6. Finding
  BY <1>4 DEF Finding
<1> DEFINE ord == BlockHere[1].ord
<1>7. /\ ord \in Nat \ {0, 1, 2} /\ BlockStart \in Nat
      /\ \A i \in 1..ord : InOrder(EntryOf(medium, fs, DirChain, BlockStart + i - 1), i)
      /\ Len(dirbuf) \in Nat /\ Len(BlockHere) = Len(dirbuf) + 1
      /\ dj.dptr = BlockStart + Len(dirbuf)
  BY <1>1, <1>4, BlockCarries
<1> HIDE DEF ord
<1>8. Reached = BlockStart /\ Reached' = BlockStart + ord
  <2>1. Reached = BlockStart
    BY <1>4 DEF Reached
  <2>2. Reached' = dj.dptr + 1
    BY <1>4, <1>5 DEF Reached
  <2>3. Len(dirbuf) + 1 = ord
    BY <1>4, <1>7 DEF ord
  <2> QED BY <1>7, <2>1, <2>2, <2>3
<1>9. ASSUME NEW p \in PlacesOf(medium, Base), p[2] = DirChain,
             ~(p[3] < Reached), p[3] < Reached', IsListed(medium, p, Segment)
      PROVE  FALSE
  <2>1. p[3] \in Nat /\ p[1] = Base
    BY <1>3, PlaceHere
  <2>2. /\ EntryOf(medium, fs, DirChain, p[3] + 0).type = "filedir"
        /\ EntryOf(medium, fs, DirChain, p[3] + 2).name = Segment.long
    BY <1>3, <1>9, <2>1, Zenon DEF IsListed
  <2> DEFINE i == p[3] - BlockStart + 1
  <2>3. i \in 1..ord /\ p[3] + 0 = BlockStart + i - 1
    BY <1>7, <1>8, <1>9, <2>1
  <2>4. InOrder(EntryOf(medium, fs, DirChain, p[3] + 0), i)
    BY <1>7, <2>3
  <2>5. i = 1
    BY <2>2, <2>4 DEF InOrder
  <2>6. p[3] + 2 = BlockStart + 2
    BY <1>7, <2>1, <2>5
  <2> QED BY <1>4, <2>2, <2>6 DEF OldBlock
<1>10. SoughtInv'
  BY <1>1, <1>5, <1>6, <1>9, SoughtOn
<1>11. SeqInv'
  BY <1>5 DEF SeqInv, SameRead
<1>12. BufInv'
  BY <1>4, NoBuffer
<1> QED BY <1>3, <1>5, <1>10, <1>11, <1>12, ReadsOnImage

LEMMA BlockOnImage ==
  ASSUME ImageInv, VolInv', at = "entry", fs.fs_type = "exFAT", task # "store",
         UNCHANGED <<medium, fs>>, Gentle, BlockOn
  PROVE  ImageInv'
<1>1. VolInv /\ DataInv /\ SoughtInv /\ BufInv /\ FileAtInv
  BY DEF ImageInv, FoundInv
<1>2. at \in Reading
  BY DEF Reading
<1>3. /\ fs # NoFs /\ VolumeInv /\ DiskInv /\ fs = VolumeOf(medium, Base)
      /\ DirAt(medium, fs.volbase, dj) /\ DirChain \in medium.dirs[Base]
      /\ task \in {"find", "load", "store"}
  BY <1>1, <1>2, WalkFacts, DirPlace DEF Base
<1>4. /\ InBlock /\ Len(BlockHere) < BlockHere[1].ord
      /\ dirbuf' = BlockHere /\ blk_ofs' = BlockStart /\ dir_next(dj)
      /\ UNCHANGED <<file, task, level, left, fil, parts>>
  BY DEF BlockOn
<1>5. /\ (dirbuf # <<>> => BlockStart = blk_ofs /\ Len(dirbuf) > 0)
      /\ (task = "load" => BlockStart = blk_ofs)
      /\ (dirbuf = <<>> => BlockStart = dj.dptr)
  BY <1>1, BlockFacts DEF BlockStart
<1>6. SameRead /\ Here = dj.dptr /\ Here' = dj.dptr + 1 /\ dj.dptr \in Nat
  BY <1>1, <1>3, <1>4, <1>5, NextIsSameRead
<1>7. /\ BlockHere[1].ord \in Nat \ {0, 1, 2} /\ BlockStart \in Nat
      /\ \A i \in 1..BlockHere[1].ord : BlockStart + i - 1 \in Entries(fs, DirChain)
      /\ Len(dirbuf) \in Nat /\ Len(BlockHere) = Len(dirbuf) + 1
      /\ dj.dptr = BlockStart + Len(dirbuf)
      /\ InOrder(EntryHere, Len(dirbuf) + 1)
      /\ \A j \in 1..Len(BlockHere) : BlockHere[j] = NowIn(DirChain, BlockStart + j - 1)
      /\ \A j \in 1..Len(dirbuf) : BlockHere[j] = dirbuf[j]
  BY <1>1, <1>3, <1>4, BlockCarries
<1>8. /\ DirChain' = DirChain /\ Base' = Base /\ medium' = medium /\ fs' = fs
      /\ at' \in Reading
  BY <1>6, SameReadFacts DEF SameRead, Reading
<1>9. ASSUME NEW j \in 1..Len(BlockHere)
      PROVE  BlockHere[j] = SeenAt(fs', card', win', DirChain, BlockStart + j - 1)
  <2> DEFINE q == <<Base, DirChain, BlockStart + j - 1>>
  <2>1. BlockStart + j - 1 \in Entries(fs, DirChain)
    <3> DEFINE ord == BlockHere[1].ord
               len == Len(BlockHere)
    <3>1. j \in 1..len /\ len < ord /\ len \in Nat /\ ord \in Nat
      BY <1>4, <1>7, <1>9
    <3> HIDE DEF ord, len
    <3>2. j \in 1..ord
      BY <3>1
    <3> QED BY <1>7, <3>2 DEF ord
  <2>2. q \in PlacesOf(medium, Base) /\ q[2] = DirChain /\ q[3] = BlockStart + j - 1
    BY <1>3, <2>1, EntryIsPlace
  <2> HIDE DEF q
  <2>3. SeenAt(fs', card', win', q[2], q[3]) = NowIn(q[2], q[3])
    BY <1>3, <1>8, <2>2, NowStays DEF Gentle
  <2> QED BY <1>7, <2>2, <2>3
<1>10. ASSUME Len(BlockHere) >= 2
       PROVE  BlockHere[2].size \in Sizes(medium, <<Base, DirChain, BlockStart + 1>>)
  <2>1. CASE Len(dirbuf) >= 2
    <3>1. dirbuf # <<>> /\ BlockHere[2] = dirbuf[2]
      BY <1>7, <2>1, EmptySeq
    <3>2. dirbuf[2].size \in Sizes(medium, <<Base, DirChain, blk_ofs + 1>>)
      BY <1>1, <1>2, <2>1 DEF BufInv
    <3> QED BY <1>5, <3>1, <3>2
  <2>2. CASE ~(Len(dirbuf) >= 2)
    <3>1. Len(dirbuf) + 1 = 2 /\ dj.dptr = BlockStart + 1
      BY <1>7, <1>10, <2>2
    <3>2. BlockHere[2] = EntryHere
      <4>1. 2 \in 1..Len(BlockHere) /\ BlockStart + 2 - 1 = dj.dptr
        BY <1>7, <3>1
      <4> QED BY <1>7, <4>1 DEF EntryHere
    <3>3. EntryHere.type = "stream"
      BY <1>7, <3>1 DEF InOrder
    <3>4. OldHere.type \in Sized
      BY <1>1, <1>2, <3>3, HereNow DEF Sized
    <3>5. EntryHere.size \in Sizes(medium, HerePlace)
      BY <1>1, <1>2, <3>4, HereNow
    <3> QED BY <3>1, <3>2, <3>5 DEF HerePlace
  <2> QED BY <2>1, <2>2
<1>11. BufInv'
  <2> DEFINE b == BlockHere
             n == BlockStart
  <2>1. /\ dirbuf' = b /\ blk_ofs' = n /\ task' # "store" /\ Len(b) < b[1].ord
        /\ (Len(b) >= 2 => b[2].size \in Sizes(medium, <<Base, DirChain, n + 1>>))
    BY <1>4, <1>10
  <2>2. \A j \in 1..Len(b) : b[j] = SeenAt(fs', card', win', DirChain, n + j - 1)
    BY <1>9
  <2> HIDE DEF b, n
  <2> QED BY <1>8, <2>1, <2>2 DEF BufInv, NowIn
<1>12. ASSUME Finding PROVE SoughtInv' /\ SeqInv'
  <2>1. task = "find"
    BY <1>12 DEF Finding
  <2>2. Reached = BlockStart
    <3>1. CASE dirbuf = <<>>
      BY <1>5, <1>6, <2>1, <3>1 DEF Reached
    <3>2. CASE dirbuf # <<>>
      BY <1>5, <3>2 DEF Reached
    <3> QED BY <3>1, <3>2
  <2>3. Reached' = BlockStart
    <3>1. Len(dirbuf') # 0
      BY <1>4, <1>7
    <3>2. dirbuf' # <<>>
      BY <3>1, EmptySeq
    <3> QED BY <1>4, <1>8, <3>2 DEF Reached
  <2>4. SoughtInv'
    BY <1>1, <1>6, <1>12, <2>2, <2>3, SoughtOn
  <2> QED BY <1>6, <2>4 DEF SeqInv, SameRead
<1> QED BY <1>3, <1>6, <1>11, <1>12, ReadsOnImage

\* The block of a file, in its directory.
LEMMA OwnBlock ==
  ASSUME VolInv, FileAtInv, fs # NoFs, fs.fs_type = "exFAT", NEW k \in DOMAIN Names,
         fil[k].open
  PROVE  LET q == <<Base, ChainOf(medium, Base, fil[k].container), fil[k].c_ofs>>
         IN /\ q \in PlacesOf(medium, Base)
            /\ EntryOf(medium, fs, q[2], q[3]).type = "filedir"
            /\ fil[k].size \in Sizes(medium, <<Base, q[2], q[3] + 1>>)
<1> DEFINE ch == ChainOf(medium, Base, fil[k].container)
           n == fil[k].c_ofs
<1>1. VolumeInv /\ DiskInv /\ fs = VolumeOf(medium, Base)
  BY MountedFacts DEF VolInv, Base
<1>2. PICK p \in PlacesOf(medium, Base) : FileAt(fil[k], k, p)
  BY DEF FileAtInv
<1>3. /\ p = <<Base, ch, n>> /\ p[1] = Base /\ p[2] = ch /\ p[3] = n /\ n \in Nat
      /\ EntryOf(medium, fs, ch, n).type = "filedir"
      /\ fil[k].size \in ObjectAt(medium, p).size..UpTo(fs, ObjectAt(medium, p).size)
  <2>1. p[2] = ch /\ p[3] = n /\ EntryOf(medium, fs, p[2], p[3]).type = "filedir"
        /\ fil[k].size \in ObjectAt(medium, p).size..UpTo(fs, ObjectAt(medium, p).size)
    BY <1>2 DEF FileAt
  <2>2. p = <<Base, p[2], p[3]>> /\ p[1] = Base /\ p[3] \in Nat
    BY <1>1, PlaceHere
  <2> QED BY <2>1, <2>2
<1> HIDE DEF ch, n
<1>4. ObjectAt(medium, p).size = EntryOf(medium, fs, ch, n + 1).size
  <2>1. n + 0 = n
    BY <1>3
  <2>2. EntryOf(medium, VolumeOf(medium, p[1]), p[2], p[3] + 0).type = "filedir"
    BY <1>1, <1>3, <2>1
  <2>3. EntryOf(medium, VolumeOf(medium, p[1]), p[2], p[3] + 1) = EntryOf(medium, fs, ch, n + 1)
    BY <1>1, <1>3
  <2>4. ObjectAt(medium, p).size = EntryOf(medium, VolumeOf(medium, p[1]), p[2], p[3] + 1).size
    BY <2>2 DEF ObjectAt
  <2> QED BY <2>3, <2>4
<1>5. Sizes(medium, <<Base, ch, n + 1>>)
        = EntryOf(medium, fs, ch, n + 1).size..UpTo(fs, EntryOf(medium, fs, ch, n + 1).size)
  <2> DEFINE q == <<Base, ch, n + 1>>
  <2>1. q[1] = Base /\ q[2] = ch /\ q[3] = n + 1
    OBVIOUS
  <2> HIDE DEF q
  <2>2. Sizes(medium, q)
        = EntryOf(medium, fs, ch, n + 1).size..UpTo(fs, EntryOf(medium, fs, ch, n + 1).size)
    BY <1>1, <2>1, Zenon DEF Sizes
  <2> QED BY <2>2 DEF q
<1> DEFINE q == <<Base, ch, n>>
<1>6. q \in PlacesOf(medium, Base) /\ q[2] = ch /\ q[3] = n
  BY <1>2, <1>3
<1> HIDE DEF q
<1>7. /\ q \in PlacesOf(medium, Base)
      /\ EntryOf(medium, fs, q[2], q[3]).type = "filedir"
      /\ fil[k].size \in Sizes(medium, <<Base, q[2], q[3] + 1>>)
  BY <1>3, <1>4, <1>5, <1>6
<1> QED BY <1>7 DEF q, ch, n

LEMMA BlockLoadsImage ==
  ASSUME ImageInv, VolInv', at = "entry", fs.fs_type = "exFAT",
         UNCHANGED <<medium, fs>>, Gentle, BlockLoads
  PROVE  ImageInv'
<1> DEFINE block == BlockHere
<1>1. /\ VolInv /\ DataInv /\ BufInv /\ FileAtInv /\ DoneInv /\ CompleteInv /\ CalmInv
  BY DEF ImageInv, FoundInv
<1>2. at \in Reading
  BY DEF Reading
<1>3. /\ fs # NoFs /\ VolumeInv /\ DiskInv /\ fs = VolumeOf(medium, Base)
      /\ file \in DOMAIN Names
  BY <1>1, <1>2, WalkFacts DEF Base
<1>4. /\ BlockLast /\ BlockStart = blk_ofs /\ Len(block) = block[1].ord /\ InBlock
      /\ block[1].sum = xdir_sum(block)
      /\ task = "load" /\ task # "store" /\ Restore(block)
  BY DEF BlockLoads, BlockLast
<1>5. /\ dirbuf' = Update(block) /\ task' = "store" /\ left' = 1
      /\ dj' = dir_sdi(fil[file].container) /\ at' = "seek"
      /\ UNCHANGED <<file, level, blk_ofs, fil, parts>>
  BY <1>4 DEF Restore
<1>6. /\ Object(dj) = fil[file].container /\ blk_ofs = fil[file].c_ofs
      /\ fil[file].open
      /\ IsObject(medium, Base, fil[file].container)
      /\ NamedBlock(medium, Base, fil[file].container, blk_ofs, file)
      /\ StreamIs(medium, Base, fil[file].container, blk_ofs, fil[file])
  BY <1>1, <1>4, BlockFacts DEF Base
<1>7. Object(dj') = Object(dj)
  BY <1>3, <1>5, <1>6, DirStart DEF IsObject, Base
<1>8. DirChain' = DirChain /\ Base' = Base
  BY <1>7 DEF DirChain, Base
<1>9. /\ Len(Update(block)) = Len(block) /\ Len(block) \in Nat /\ Len(block) > 1
      /\ block \in Seq(Range(block)) /\ DOMAIN block[1] = EntryFields
      /\ DOMAIN block[2] = EntryFields
  <2>1. BlockOK(medium, Base, Object(dj), blk_ofs, block) /\ Len(block) > 1
    BY <1>1, <1>4, BlockEntries
  <2>2. /\ ~Old(medium, Base, Object(dj), blk_ofs).dir /\ blk_ofs \in Nat
        /\ StreamIs(medium, Base, Object(dj), blk_ofs, fil[file])
    BY <1>6 DEF NamedBlock
  <2> HIDE DEF block
  <2>3. Len(Update(block)) = Len(block) /\ Len(block) \in Nat
    BY <2>1, <2>2, BlockUpdated
  <2>4. 1 \in 1..Len(block) /\ 2 \in 1..Len(block)
    BY <2>1, <2>3
  <2> QED BY <2>1, <2>3, <2>4 DEF BlockOK
<1> HIDE DEF block
<1>10. Update(block)[1].ord = block[1].ord /\ Update(block)[2].size = fil[file].size
  <2> DEFINE new == [block EXCEPT ![2].stat = fil[file].stat,
                                  ![2].sclust = fil[file].sclust,
                                  ![2].size = fil[file].size]
             e == [block[2] EXCEPT !.stat = fil[file].stat,
                                   !.sclust = fil[file].sclust,
                                   !.size = fil[file].size]
  <2>1. 1 \in DOMAIN block /\ 2 \in DOMAIN block
    BY <1>9
  <2>2. new[1] = block[1] /\ new[2].size = fil[file].size /\ DOMAIN new = DOMAIN block
    <3>1. e.size = fil[file].size
      BY <1>9 DEF EntryFields
    <3>2. new = [block EXCEPT ![2] = e]
      BY <2>1
    <3> HIDE DEF e, new
    <3> QED BY <2>1, <3>1, <3>2
  <2>3. Update(block) = [new EXCEPT ![1].sum = xdir_sum(new)]
    BY DEF Update
  <2> HIDE DEF new
  <2> QED BY <1>9, <2>1, <2>2, <2>3 DEF EntryFields
<1>11. fil[file].size \in Sizes(medium, <<Base, DirChain, blk_ofs + 1>>)
  <2> DEFINE q == <<Base, ChainOf(medium, Base, fil[file].container), fil[file].c_ofs>>
  <2>1. fil[file].size \in Sizes(medium, <<Base, q[2], q[3] + 1>>)
    BY <1>1, <1>3, <1>6, OwnBlock
  <2>2. q[2] = DirChain /\ q[3] = blk_ofs
    BY <1>6 DEF DirChain
  <2> HIDE DEF q
  <2> QED BY <2>1, <2>2
<1>12. BufInv'
  <2>1. Len(dirbuf') <= dirbuf'[1].ord /\ dirbuf'[2].size = fil[file].size
    BY <1>4, <1>5, <1>9, <1>10 DEF block
  <2> QED BY <1>5, <1>8, <1>11, <2>1 DEF BufInv
<1>13. ReadInv' /\ ~InOpen'
  <2>1. ~Finding' /\ ~InOpen' /\ at' \notin {"expand", "linkmap"}
    BY <1>5 DEF Finding, InOpen
  <2>2. SegInv' /\ SoughtInv' /\ SeqInv' /\ LinkInv'
    BY <2>1 DEF SegInv, SoughtInv, SeqInv, LinkInv
  <2> QED BY <1>12, <2>1, <2>2 DEF ReadInv
<1>14. FileAtInv'
  BY <1>1, <1>5, FilesAtStay
<1>15. CalmInv'
  <2>1. ~(win.dirty /\ ~failed)
    BY <1>1, <1>4 DEF CalmInv
  <2> QED BY <2>1 DEF CalmInv, Gentle
<1>16. ASSUME NEW p \in PlacesOf(medium, Base), Torn(p)
       PROVE  Torn(p)' /\ ~Storing(p)'
  <2>1. Torn(p)'
    BY <1>1, <1>3, <1>16, TornStays DEF Gentle
  <2>2. CASE p[2] = DirChain /\ p[3] = blk_ofs
    <3>1. p = BlockPlace
      <4>1. p = <<Base, p[2], p[3]>>
        BY <1>3, PlaceHere
      <4> QED BY <1>4, <2>2, <4>1 DEF BlockPlace
    <3>2. ~Torn(BlockPlace)
      BY <1>1, <1>4, BadSum DEF block
    <3> QED BY <1>16, <3>1, <3>2
  <2>3. CASE ~(p[2] = DirChain /\ p[3] = blk_ofs)
    <3>1. ~Storing(p)'
      BY <1>5, <1>8, <2>3 DEF Storing
    <3> QED BY <2>1, <3>1
  <2> QED BY <2>2, <2>3
<1>17. DoneInv' /\ CompleteInv'
  <2>1. Past0
    BY <1>2, <1>4 DEF Past0
  <2> QED BY <1>1, <1>3, <1>5, <1>13, <1>16, <2>1, PastStays DEF Gentle
<1>18. DataInv'
  BY DEF Gentle
<1> QED BY <1>13, <1>14, <1>15, <1>17, <1>18, ImageParts

LEMMA ExfatEntryImage ==
  ASSUME ImageInv, VolInv', ExfatEntry
  PROVE  ImageInv'
<1>1. VolInv /\ DataInv /\ SegInv /\ SoughtInv /\ BufInv /\ FileAtInv
  BY DEF ImageInv, FoundInv
<1>2. /\ at = "entry" /\ fs.fs_type = "exFAT" /\ task \in {"find", "load"} /\ fs # NoFs
      /\ UNCHANGED <<medium, fs>> /\ Gentle
      /\ \/ DirFails /\ failed'
         \/ ExfatEnds \/ BetweenBlocks \/ BlockOn
         \/ BlockTorn \/ BlockLoads \/ BlockOther
         \/ task = "find" /\ \E p, obj, e, sect : Hit(p, obj, e, sect)
  BY <1>1, ExfatOutcomes
<1>3. at \in Reading /\ task # "store"
  BY <1>2 DEF Reading
<1>4. CASE DirFails /\ failed'
  BY <1>2, <1>3, <1>4, DirFailsImage
<1>5. CASE ExfatEnds
  <2>1. DirFails /\ OldHere.type = "end" /\ dirbuf = <<>> /\ task = "find"
    BY <1>5 DEF ExfatEnds, InBlock
  <2>2. Reached = Here /\ Finding
    BY <1>2, <2>1 DEF Reached, Finding
  <2>3. NotThere
    BY <1>1, <1>2, <2>1, <2>2, EndHere
  <2> QED BY <1>2, <1>3, <2>1, <2>2, <2>3, DirFailsImage
<1>6. CASE BetweenBlocks
  BY <1>2, <1>6, BetweenBlocksImage
<1>7. CASE BlockOn
  BY <1>2, <1>3, <1>7, BlockOnImage
<1>8. CASE BlockTorn
  <2>1. DirFails /\ BlockLast /\ Torn(BlockPlace)
    BY <1>8 DEF BlockTorn
  <2>2. BlockPlace \in PlacesOf(medium, Base)
    BY <1>1, <1>2, <1>3, <2>1, BlockEntries
  <2> QED BY <1>2, <1>3, <2>1, <2>2, DirFailsImage
<1>9. CASE BlockLoads
  BY <1>2, <1>9, BlockLoadsImage
<1>10. CASE BlockOther
  BY <1>2, <1>10, BlockOtherImage
<1>11. CASE task = "find" /\ \E p, obj, e, sect : Hit(p, obj, e, sect)
  <2>1. Finding
    BY <1>2, <1>11 DEF Finding
  <2> QED BY <1>2, <1>11, <2>1, HitImage
<1> QED BY <1>2, <1>4, <1>5, <1>6, <1>7, <1>8, <1>9, <1>10, <1>11

-----------------------------------------------------------------------------
(* Into the next cluster                                                   *)

LEMMA BufStays ==
  ASSUME VolInv, BufInv, SameRead, SameSeen(card', win'), UNCHANGED <<dirbuf, blk_ofs>>,
         fs.fs_type = "exFAT" /\ task # "store" =>
           \A j \in 1..Len(dirbuf) : blk_ofs + j - 1 \in Entries(fs, DirChain)
  PROVE  BufInv'
<1>1. /\ DirChain' = DirChain /\ Base' = Base /\ medium' = medium /\ fs' = fs
      /\ task' = task /\ dirbuf' = dirbuf /\ blk_ofs' = blk_ofs
  BY SameReadFacts DEF SameRead
<1>2. at \in Reading
  BY DEF SameRead
<1>3. fs # NoFs /\ VolumeInv /\ DiskInv /\ DirChain \in medium.dirs[Base]
  BY <1>2, WalkFacts, DirPlace
<1> SUFFICES ASSUME fs.fs_type = "exFAT"
             PROVE  BufInv'
  BY <1>1 DEF BufInv
<1>4. /\ (Len(dirbuf) >= 2 => dirbuf[2].size \in Sizes(medium, <<Base, DirChain, blk_ofs + 1>>))
      /\ (task = "store" => Len(dirbuf) <= dirbuf[1].ord)
      /\ (task # "store" =>
            /\ \A j \in 1..Len(dirbuf) : dirbuf[j] = NowIn(DirChain, blk_ofs + j - 1)
            /\ (dirbuf # <<>> => Len(dirbuf) < dirbuf[1].ord))
  BY <1>2 DEF BufInv
<1>5. ASSUME task # "store", NEW j \in 1..Len(dirbuf)
      PROVE  dirbuf[j] = SeenAt(fs', card', win', DirChain, blk_ofs + j - 1)
  <2> DEFINE q == <<Base, DirChain, blk_ofs + j - 1>>
  <2>1. q \in PlacesOf(medium, Base) /\ q[2] = DirChain /\ q[3] = blk_ofs + j - 1
    BY <1>3, <1>5, EntryIsPlace
  <2> HIDE DEF q
  <2>2. SeenAt(fs', card', win', q[2], q[3]) = NowIn(q[2], q[3])
    BY <1>1, <1>3, <2>1, NowStays
  <2> QED BY <1>4, <1>5, <2>1, <2>2
<1> QED BY <1>1, <1>4, <1>5 DEF BufInv, NowIn

\* The directory goes on, and what has been read of it counts.
LEMMA StillReads ==
  ASSUME ImageInv, VolInv', SameRead, Gentle, UNCHANGED <<dirbuf, blk_ofs>>,
         fs.fs_type = "exFAT" /\ task # "store" =>
           \A j \in 1..Len(dirbuf) : blk_ofs + j - 1 \in Entries(fs, DirChain),
         Finding => Here' = Here /\ dj'.ord = dj.ord /\ dj'.sum = dj.sum
  PROVE  ImageInv'
<1>1. VolInv /\ BufInv /\ SoughtInv /\ SeqInv
  BY DEF ImageInv, FoundInv
<1>2. fs # NoFs /\ at \in Reading
  BY <1>1, WalkFacts DEF SameRead
<1>3. BufInv'
  BY <1>1, BufStays DEF Gentle
<1>4. ASSUME Finding PROVE SoughtInv' /\ SeqInv'
  <2>1. /\ DirChain' = DirChain /\ Base' = Base /\ Segment' = Segment /\ Finding' = Finding
        /\ medium' = medium /\ fs' = fs
    BY SameReadFacts DEF SameRead
  <2>2. Reached' = Reached
    BY <1>4, <2>1 DEF Reached
  <2>3. SoughtInv'
    BY <1>1, <1>4, <2>2, SoughtOn
  <2>4. ASSUME NEW p \in PlacesOf(medium, Base)', p[2] = DirChain',
               NEW m \in 1..p[3], NEW i \in 1..m,
               \A j \in i..m : LongAt(p, Segment, j, m)', Here' = p[3] - i + 1,
               fs.fs_type = "FAT32"
        PROVE  dj'.ord = i - 1 /\ dj'.sum = sum_sfn(EntryOf(medium, fs, p[2], p[3]))'
    <3>1. p \in PlacesOf(medium, Base) /\ p[2] = DirChain /\ Here = p[3] - i + 1
      BY <1>4, <2>1, <2>4
    <3>2. ASSUME NEW j \in i..m PROVE LongAt(p, Segment, j, m)
      <4>1. LongAt(p, Segment, j, m)'
        BY <2>4
      <4> QED BY <2>1, <4>1, Zenon DEF LongAt
    <3>3. dj.ord = i - 1 /\ dj.sum = sum_sfn(EntryOf(medium, fs, p[2], p[3]))
      BY <1>1, <1>4, <2>4, <3>1, <3>2, Zenon DEF SeqInv
    <3> QED BY <1>4, <2>1, <3>3
  <2>5. SeqInv'
    BY <2>1, <2>4, Zenon DEF SeqInv
  <2> QED BY <2>3, <2>5
<1> QED BY <1>2, <1>3, <1>4, ReadsOnImage

\* The last entry of the last cluster is that of the directory.
LEMMA LastEntry ==
  ASSUME NEW per \in Nat \ {0}, NEW L \in Nat, NEW n \in Nat, (n + 1) % per = 0,
         n \div per + 1 = L
  PROVE  n + 1 = per * L
<1>1. (n + 1) \div per = L
  BY NextPiece
<1>2. n + 1 \in Nat /\ n + 1 = per * ((n + 1) \div per) + ((n + 1) % per)
  BY DivMod
<1>3. per * L \in Int
  BY SMTT(30)
<1> DEFINE x == per * L
<1>4. n + 1 = x + 0 /\ x \in Int
  BY <1>1, <1>2, <1>3
<1> HIDE DEF x
<1>5. n + 1 = x
  BY <1>4
<1> QED BY <1>5 DEF x

\* Where the chain of a directory ends.
LEMMA ChainEnds ==
  ASSUME VolInv, at = "next", NEW g \in get_fat(dj, dj.clust), g.ok, ~IsCluster(g)
  PROVE  /\ Here \notin Entries(fs, DirChain)
         /\ \A n \in Entries(fs, DirChain) : n < Here
<1> DEFINE ch == DirChain
           per == PerCluster(fs)
           n == dj.dptr
           i == n \div per + 1
<1>1. at \in Reading
  BY DEF Reading
<1>2. /\ fs # NoFs /\ VolumeInv /\ DiskInv /\ per \in Nat \ {0} /\ n \in Nat
      /\ IsChain(medium, fs, ch, dj) /\ (dj.sclust = 0 => dj.stat = 0)
      /\ i \in 1..Len(ch) /\ dj.clust = ch[i] /\ Len(ch) \in Nat
      /\ ch \in Seq(Clusters(fs))
  <2>1. /\ fs # NoFs /\ VolumeInv /\ DiskInv /\ per \in Nat \ {0} /\ n \in Nat
        /\ IsChain(medium, fs, ch, dj) /\ (dj.sclust = 0 => dj.stat = 0)
        /\ i \in 1..Len(ch) /\ dj.clust = ch[i]
    BY <1>1, WalkFacts DEF DirChain, Base
  <2>2. ch \in Seq(Clusters(fs)) /\ Len(ch) \in Nat
    BY <1>1, DirPlace, LenProperties
  <2> QED BY <2>1, <2>2
<1>3. i = Len(ch)
  <2> HIDE DEF i, ch
  <2>1. g \in get_fat(dj, ch[i])
    BY <1>2
  <2> QED BY <1>2, <2>1, GetFatOn
<1>4. (n + 1) % per = 0
  BY <1>1 DEF VolInv, WalkInv
<1>5. n + 1 = per * Len(ch)
  <2> HIDE DEF n, per, ch
  <2> QED BY <1>2, <1>3, <1>4, LastEntry DEF i
<1>6. Here = n + 1
  BY DEF Here
<1>7. Entries(fs, ch) = 0..((n + 1) - 1)
  <2> DEFINE x == per * Len(ch)
  <2>1. Entries(fs, ch) = 0..(x - 1)
    BY DEF Entries
  <2>2. x = n + 1
    BY <1>5
  <2> HIDE DEF x, n
  <2> QED BY <2>1, <2>2
<1> HIDE DEF n, ch
<1> QED BY <1>2, <1>6, <1>7 DEF ch

LEMMA NextClusterImage ==
  ASSUME ImageInv, VolInv', NextCluster
  PROVE  ImageInv'
<1>1. /\ VolInv /\ DataInv /\ SegInv /\ SoughtInv /\ BufInv /\ FileAtInv
  BY DEF ImageInv, FoundInv
<1>2. at = "next" /\ at \in Reading /\ UNCHANGED <<medium, fs>>
  BY DEF NextCluster, Reading
<1>3. /\ fs # NoFs /\ VolumeInv /\ DiskInv /\ fs.fs_type \in {"FAT32", "exFAT"}
      /\ task \in {"find", "load", "store"} /\ DOMAIN dj = DjFields
      /\ file \in DOMAIN Names
  BY <1>1, <1>2, WalkFacts DEF DirAt
<1>4. PICK g \in get_fat(dj, dj.clust) :
        /\ Comes(g)
        /\ IF IsCluster(g)
           THEN /\ at' = "entry"
                /\ dj' = [dj EXCEPT !.dptr = @ + 1, !.clust = g.val,
                                    !.sect = clst2sect(fs, g.val)]
                /\ UNCHANGED <<file, task, level, dirbuf, blk_ofs, left, fil, parts>>
           ELSE DirFails
  BY Zenon DEF NextCluster
<1>5. Gentle
  BY <1>1, <1>2, <1>3, <1>4, FatGentle
<1>6. ASSUME fs.fs_type = "exFAT", dirbuf # <<>>
      PROVE  /\ Here \in Entries(fs, DirChain)
             /\ task # "store" =>
                  \A j \in 1..Len(dirbuf) : blk_ofs + j - 1 \in Entries(fs, DirChain)
  <2>1. /\ Here \in Entries(fs, DirChain) /\ Len(dirbuf) \in Nat
        /\ (task # "store" => Len(dirbuf) < dirbuf[1].ord)
        /\ dirbuf[1].ord \in Nat \ {0, 1, 2}
        /\ \A i \in 1..dirbuf[1].ord : blk_ofs + i - 1 \in Entries(fs, DirChain)
    BY <1>1, <1>2, <1>6, BlockBegun
  <2>2. task # "store" => \A j \in 1..Len(dirbuf) : j \in 1..dirbuf[1].ord
    BY <2>1
  <2> QED BY <2>1, <2>2
<1>7. CASE IsCluster(g)
  <2>1. /\ at' = "entry" /\ Object(dj') = Object(dj) /\ dj'.dptr = dj.dptr + 1
        /\ dj'.ord = dj.ord /\ dj'.sum = dj.sum
        /\ UNCHANGED <<file, task, level, dirbuf, blk_ofs, left, fil, parts>>
    BY <1>3, <1>4, <1>7 DEF Object, DjFields
  <2>2. SameRead
    BY <1>2, <2>1 DEF SameRead, Reading
  <2>3. Here' = Here
    BY <1>2, <2>1 DEF Here
  <2>4. ASSUME fs.fs_type = "exFAT", task # "store", NEW j \in 1..Len(dirbuf)
        PROVE  blk_ofs + j - 1 \in Entries(fs, DirChain)
    <3>1. dirbuf # <<>>
      BY <2>4, EmptySeq
    <3> QED BY <1>6, <2>4, <3>1
  <2> QED BY <1>5, <2>1, <2>2, <2>3, <2>4, StillReads
<1>8. CASE ~IsCluster(g)
  <2>1. DirFails
    BY <1>4, <1>8
  <2>2. CASE failed' \/ task = "load"
    BY <1>2, <1>3, <1>5, <2>1, <2>2, DirFailsImage
  <2>3. CASE ~failed' /\ task # "load"
    <3>1. g.ok
      BY <1>4, <2>3 DEF Comes
    <3>2. /\ Here \notin Entries(fs, DirChain)
          /\ \A n \in Entries(fs, DirChain) : n < Here
      BY <1>1, <1>2, <1>8, <3>1, ChainEnds
    <3>3. ~(fs.fs_type = "exFAT" /\ dirbuf # <<>>)
      BY <1>6, <3>2
    <3>4. task = "find"
      <4> SUFFICES ASSUME task = "store" PROVE FALSE
        BY <1>3, <2>3
      <4>1. fs.fs_type = "exFAT"
        BY <1>2, <1>3 DEF VolumeInv
      <4>2. left \in 1..Len(dirbuf)
        BY <1>1, <1>2, <4>1 DEF VolInv, BlockInv
      <4>3. dirbuf # <<>>
        BY <4>2, EmptySeq
      <4> QED BY <3>3, <4>1, <4>3
    <3>5. Finding /\ Reached = Here
      BY <1>2, <3>3, <3>4 DEF Finding, Reached
    <3>6. NotThere
      <4>1. ASSUME NEW p \in PlacesOf(medium, Base), p[2] = DirChain
            PROVE  p[3] < Reached
        BY <1>3, <3>2, <3>5, <4>1, PlaceHere
      <4> QED BY <1>1, <3>5, <4>1, Exhausted
    <3> QED BY <1>2, <1>3, <1>5, <2>1, <3>5, <3>6, DirFailsImage
  <2> QED BY <2>2, <2>3
<1> QED BY <1>7, <1>8

LEMMA SeekBlockImage ==
  ASSUME ImageInv, VolInv', SeekBlock
  PROVE  ImageInv'
<1>1. /\ VolInv /\ DataInv
  BY DEF ImageInv
<1>2. at = "seek" /\ at \in Reading /\ UNCHANGED <<medium, fs>>
  BY Zenon DEF SeekBlock, Reading
<1>3. /\ fs # NoFs /\ VolumeInv /\ DiskInv /\ task # "find" /\ DOMAIN dj = DjFields
      /\ task \in {"find", "load", "store"} /\ fs.fs_type = "exFAT"
  BY <1>1, <1>2, WalkFacts DEF DirAt, VolumeInv
<1> DEFINE per == PerSect * fs.csize
           rest == blk_ofs - dj.dptr
<1>4. ASSUME at' \in {"seek", "entry"}, Object(dj') = Object(dj), Gentle,
             UNCHANGED <<file, task, level, dirbuf, blk_ofs, left, fil, parts>>
      PROVE  ImageInv'
  <2>1. SameRead
    BY <1>2, <1>3, <1>4 DEF SameRead, Reading
  <2>2. ASSUME task # "store", NEW j \in 1..Len(dirbuf) PROVE FALSE
    <3>1. task = "load"
      BY <1>3, <2>2
    <3>2. dirbuf = <<>>
      BY <1>1, <1>2, <1>3, <3>1 DEF VolInv, BlockInv
    <3> QED BY <2>2, <3>2, EmptySeq
  <2>3. ~Finding
    BY <1>3 DEF Finding
  <2> QED BY <1>4, <2>1, <2>2, <2>3, StillReads
<1>5. CASE rest >= per
  <2>1. PICK g \in get_fat(dj, dj.clust) :
          /\ Comes(g)
          /\ IF IsCluster(g)
             THEN /\ dj' = [dj EXCEPT !.dptr = @ + per, !.clust = g.val,
                                      !.sect = clst2sect(fs, g.val)]
                  /\ UNCHANGED <<at, file, task, level, dirbuf, blk_ofs, left, fil, parts>>
             ELSE DirFails
    BY <1>5, Zenon DEF SeekBlock
  <2>2. Gentle
    BY <1>1, <1>2, <1>3, <2>1, FatGentle
  <2>3. CASE IsCluster(g)
    <3>1. Object(dj') = Object(dj)
      BY <1>3, <2>1, <2>3 DEF Object, DjFields
    <3> QED BY <1>2, <1>4, <2>1, <2>2, <2>3, <3>1
  <2>4. CASE ~IsCluster(g)
    BY <1>2, <1>3, <2>1, <2>2, <2>4, DirFailsImage
  <2> QED BY <2>3, <2>4
<1>6. CASE ~(rest >= per)
  <2>1. /\ dj' = [dj EXCEPT !.dptr = blk_ofs, !.sect = @ + rest \div PerSect]
        /\ at' = "entry"
        /\ UNCHANGED <<ioVars, file, task, level, dirbuf, blk_ofs, left, fil, parts>>
    BY <1>6 DEF SeekBlock
  <2>2. Object(dj') = Object(dj)
    BY <1>3, <2>1 DEF Object, DjFields
  <2>3. Gentle
    BY <1>1, <1>2, <2>1, StillGentle DEF ioVars
  <2> QED BY <1>4, <2>1, <2>2, <2>3
<1> QED BY <1>5, <1>6

-----------------------------------------------------------------------------
(* f_mount, with the files                                                 *)

\* Nothing has been opened, or nothing will be.
LEMMA NotOpening ==
  ASSUME VolInv', DataInv', CalmInv', FileAtInv',
         at' \in {"bitmap", "bitmapChain", "fsinfo", "fatal"}
  PROVE  ImageInv'
<1>1. ReadInv' /\ ~InOpen'
  BY Quiet DEF Reading
<1>2. ~Past0'
  BY DEF Past0, Reading
<1>3. DoneInv' /\ CompleteInv'
  BY <1>1, <1>2 DEF DoneInv, CompleteInv
<1> QED BY <1>1, <1>3, ImageParts

\* The window and the card as CheckFs and a loss of power leave them.
LEMMA WindowAnew ==
  ASSUME DiskInv, DataInv, UNCHANGED <<medium, card>>, ~win'.dirty,
         \/ win'.sect = NoSector
         \/ win'.sect \in DOMAIN card /\ win'.data = card[win'.sect]
  PROVE  DataInv' /\ CalmInv'
<1>1. NoSector \notin DOMAIN card
  BY NoSectorFacts
<1>2. SizesOn(medium, card, win') /\ CleanOn(card, win')
  BY <1>1 DEF DataInv, SizesOn, CleanOn
<1> QED BY <1>2 DEF DataInv, CalmInv

LEMMA MountImage ==
  ASSUME ImageInv, VolInv', Mount
  PROVE  ImageInv'
<1>1. at' = "boot" /\ fs.fs_type = "none" /\ UNCHANGED <<medium, win, card, fs>>
  BY DEF Mount
<1>2. fs = NoFs
  <2>1. DiskInv /\ VolumeInv
    BY DEF ImageInv, VolInv
  <2> QED BY <1>1, <2>1, MountedFacts
<1>3. DataInv' /\ CalmInv' /\ at' \in Before
  BY <1>1 DEF ImageInv, DataInv, CalmInv, Before
<1> QED BY <1>1, <1>2, <1>3, NoVolume

LEMMA PowerLossImage ==
  ASSUME ImageInv, VolInv', PowerLoss
  PROVE  ImageInv'
<1>1. /\ win' = Lost(NoSector) /\ fs' = NoFs /\ at' = "idle"
      /\ UNCHANGED <<medium, card>>
  BY DEF PowerLoss
<1>2. DiskInv /\ DataInv
  BY DEF ImageInv, VolInv
<1>3. DataInv' /\ CalmInv'
  BY <1>1, <1>2, WindowAnew DEF Lost
<1> QED BY <1>1, <1>3, NoVolume DEF Before

LEMMA CheckFsImage ==
  ASSUME ImageInv, VolInv', CheckFs
  PROVE  ImageInv'
<1> DEFINE bsect == Start(left)
           read == [sect |-> bsect, data |-> card[bsect], dirty |-> FALSE]
<1>1. /\ VolInv /\ DiskInv /\ VolumeInv /\ FilesInv /\ DataInv
  BY DEF ImageInv, VolInv
<1>2. /\ at = "boot" /\ UNCHANGED <<medium, fil>>
      /\ IF left > 0 /\ bsect = 0 THEN NextPartition /\ UNCHANGED ioVars
         ELSE \/ /\ Comes([ok |-> TRUE, win |-> read, card |-> card])
                 /\ Analysed(card[bsect], bsect)
              \/ /\ Comes([ok |-> FALSE, win |-> Lost(bsect), card |-> card])
                 /\ IF left = 0 THEN NoFat ELSE NextPartition
  BY DEF CheckFs
<1>3. fs = NoFs /\ left \in 0..4 /\ (left > 0 => medium.sectors[0].kind = "mbr")
  BY <1>1, <1>2 DEF VolumeInv
<1>4. bsect \in DOMAIN card
  <2>1. /\ 0 \in DOMAIN medium.sectors
        /\ medium.sectors[0].kind = "mbr" =>
             \A i \in 1..4 : medium.sectors[0].br[i] \in DOMAIN medium.sectors
    BY <1>1, CardsAssumption DEF DiskInv, Formatted
  <2>2. DOMAIN card = DOMAIN medium.sectors
    BY <1>1, NoSectorFacts
  <2>3. CASE left = 0
    BY <2>1, <2>2, <2>3 DEF Start
  <2>4. CASE left # 0
    <3>1. left \in 1..4 /\ left > 0
      BY <1>3, <2>4
    <3> QED BY <1>3, <2>1, <2>2, <2>4, <3>1 DEF Start
  <2> QED BY <2>3, <2>4
<1> HIDE DEF bsect
<1>5. DataInv' /\ (CalmInv' \/ at' \in {"boot", "fatal"})
  <2>1. CASE UNCHANGED ioVars /\ NextPartition
    <3>1. DataInv'
      BY <1>1, <1>2, <2>1 DEF ioVars, DataInv
    <3> QED BY <2>1, <3>1 DEF NextPartition, Fatal
  <2>2. CASE Comes([ok |-> TRUE, win |-> read, card |-> card])
    <3>1. win' = read /\ card' = card
      BY <2>2 DEF Comes
    <3>2. ~win'.dirty /\ win'.sect = bsect /\ win'.data = card[bsect]
      BY <3>1
    <3> QED BY <1>1, <1>2, <1>4, <3>1, <3>2, WindowAnew
  <2>3. CASE Comes([ok |-> FALSE, win |-> Lost(bsect), card |-> card])
    <3>1. win' = Lost(bsect) /\ card' = card
      BY <2>3 DEF Comes
    <3>2. ~win'.dirty /\ win'.sect = NoSector
      BY <3>1 DEF Lost
    <3> QED BY <1>1, <1>2, <3>1, <3>2, WindowAnew
  <2> QED BY <1>2, <2>1, <2>2, <2>3
<1>6. CalmInv'
  BY <1>5 DEF CalmInv
<1>7. \/ at' \in {"bitmap", "fsinfo"}
      \/ fs' = NoFs /\ at' \in {"boot", "fatal"}
  BY <1>2, <1>3 DEF Analysed, NoFat, NextPartition, Fatal
<1>8. CASE at' \in {"bitmap", "fsinfo"}
  <2>1. FileAtInv'
    BY <1>1, <1>2, <1>3 DEF FilesInv, FileAtInv
  <2> QED BY <1>5, <1>6, <1>8, <2>1, NotOpening
<1>9. CASE fs' = NoFs /\ at' \in {"boot", "fatal"}
  BY <1>5, <1>6, <1>9, NoVolume DEF Before
<1> QED BY <1>7, <1>8, <1>9

\* Elsewhere, too, nothing waits to be written.
LEMMA StaysCalm ==
  ASSUME CalmInv, Gentle, at \notin {"boot", "fatal", "syncFs", "entry", "next"}
  PROVE  CalmInv' /\ (win'.dirty => failed')
<1>1. ~(win.dirty /\ ~failed)
  BY DEF CalmInv
<1> QED BY <1>1 DEF CalmInv, Gentle

LEMMA FirstImage ==
  ASSUME ImageInv, VolInv', fs # NoFs, UNCHANGED <<medium, fs, fil>>, Gentle, Open(1),
         CalmInv'
  PROVE  ImageInv'
<1>1. VolInv /\ FileAtInv
  BY DEF ImageInv, FoundInv
<1>2. FileAtInv' /\ DataInv'
  BY <1>1, FilesAtStay DEF Gentle
<1>3. \A k \in 1..(1 - 1) : NamedK(k)'
  OBVIOUS
<1> QED BY <1>1, <1>2, <1>3, OpenImage

LEMMA BitmapImage ==
  ASSUME ImageInv, VolInv', Bitmap
  PROVE  ImageInv'
<1>1. VolInv /\ DiskInv /\ DataInv /\ FileAtInv /\ CalmInv
  BY DEF ImageInv, FoundInv, VolInv
<1>2. at = "bitmap" /\ UNCHANGED <<medium, fs, fil>>
  BY DEF Bitmap
<1>3. Gentle /\ at' \in {"bitmap", "bitmapChain", "fatal"}
  <2>1. CASE left >= fs.csize
    BY <1>1, <1>2, <2>1, StillGentle DEF Bitmap, ioVars, Fatal
  <2>2. CASE ~(left >= fs.csize)
    <3>1. PICK m \in move_window(clst2sect(fs, fs.dirbase) + left) :
            /\ Comes(m)
            /\ LET here == {i \in DOMAIN m.win.data.dirent :
                              m.win.data.dirent[i].type = "bitmap"}
               IN \/ ~m.ok /\ Fatal /\ UNCHANGED left
                  \/ m.ok /\ here = {} /\ left' = left + 1 /\ UNCHANGED at
                  \/ m.ok /\ \E i \in here :
                       LET bcl == m.win.data.dirent[i].sclust
                       IN IF bcl \in Clusters(fs)
                          THEN at' = "bitmapChain" /\ left' = bcl
                          ELSE Fatal /\ UNCHANGED left
      BY <2>2 DEF Bitmap
    <3>2. Gentle
      BY <1>1, <1>2, <3>1, MoveGentle
    <3> QED BY <1>2, <3>1, <3>2 DEF Fatal
  <2> QED BY <2>1, <2>2
<1>4. CalmInv' /\ DataInv' /\ FileAtInv'
  BY <1>1, <1>2, <1>3, StaysCalm, FilesAtStay DEF Gentle
<1> QED BY <1>3, <1>4, NotOpening

LEMMA BitmapChainImage ==
  ASSUME ImageInv, VolInv', BitmapChain
  PROVE  ImageInv'
<1>1. VolInv /\ DiskInv /\ DataInv /\ FileAtInv /\ CalmInv
  BY DEF ImageInv, FoundInv, VolInv
<1>2. at = "bitmapChain" /\ UNCHANGED <<medium, fs, fil>>
  BY DEF BitmapChain
<1>3. fs # NoFs
  BY <1>1, <1>2, Past DEF Before
<1>4. PICK m \in move_window(FatSector(left)) :
        /\ Comes(m)
        /\ LET cv == IF m.ok THEN m.win.data.fatent[left % PerFat] ELSE 0
           IN IF cv = Eoc THEN Open(1) /\ UNCHANGED left
              ELSE /\ IF cv = left + 1 THEN left' = cv /\ UNCHANGED at
                      ELSE Fatal /\ UNCHANGED left
                   /\ UNCHANGED <<file, dirVars>>
  BY DEF BitmapChain
<1>5. Gentle
  BY <1>1, <1>2, <1>4, MoveGentle
<1>6. CalmInv' /\ DataInv' /\ FileAtInv'
  BY <1>1, <1>2, <1>5, StaysCalm, FilesAtStay DEF Gentle
<1>7. Open(1) \/ at' \in {"bitmapChain", "fatal"}
  BY <1>2, <1>4 DEF Fatal
<1> QED BY <1>2, <1>3, <1>5, <1>6, <1>7, NotOpening, FirstImage

LEMMA FsInfoImage ==
  ASSUME ImageInv, VolInv', FsInfo
  PROVE  ImageInv'
<1>1. VolInv /\ DiskInv /\ DataInv /\ CalmInv
  BY DEF ImageInv, VolInv
<1>2. at = "fsinfo" /\ UNCHANGED <<medium, fs, fil>> /\ Open(1)
  BY DEF FsInfo
<1>3. fs # NoFs
  BY <1>1, <1>2, Past DEF Before
<1>4. PICK m \in move_window(fs.volbase + 1) : Comes(m)
  BY DEF FsInfo
<1>5. Gentle
  BY <1>1, <1>2, <1>4, MoveGentle
<1>6. CalmInv'
  BY <1>1, <1>2, <1>5, StaysCalm
<1> QED BY <1>2, <1>3, <1>5, <1>6, FirstImage

-----------------------------------------------------------------------------
(* f_expand_cltbl, with the files                                          *)

\* A FIL with other clusters or another table stands for the same file.
LEMMA FileAtKept ==
  ASSUME FileAtInv, FilesInv, UNCHANGED <<medium, fs>>, NEW k \in DOMAIN Names,
         fil[k].open, NEW f, fil' = [fil EXCEPT ![k] = f], f.sclust = fil[k].sclust,
         f.stat = fil[k].stat, f.size = fil[k].size, f.dir_sect = fil[k].dir_sect,
         f.dir_ptr = fil[k].dir_ptr, f.container = fil[k].container,
         f.c_ofs = fil[k].c_ofs
  PROVE  FileAtInv' /\ fil'[k] = f /\ \A j : j # k => fil'[j] = fil[j]
<1>1. PICK p \in PlacesOf(medium, Base) : FileAt(fil[k], k, p)
  BY DEF FileAtInv
<1>2. FileAt(f, k, p)
  BY <1>1, FileAtSame
<1>3. FileAtInv'
  BY <1>1, <1>2, FileAtChanges
<1> QED BY <1>3 DEF FilesInv

LEMMA StillLinking ==
  ASSUME ImageInv, VolInv', fs # NoFs, at \in {"expand", "linkmap"},
         at' \in {"expand", "linkmap"}, UNCHANGED <<medium, fs, file>>, Gentle,
         file \in DOMAIN Names, FileAtInv', \A j : j # file => fil'[j] = fil[j], LinkInv'
  PROVE  ImageInv'
<1>1. /\ VolInv /\ DoneInv /\ CalmInv
  BY DEF ImageInv, FoundInv
<1>2. InOpen /\ InOpen' /\ ~Past0' /\ ~Finding' /\ at' \notin Reading
  BY DEF InOpen, Finding, Past0, Reading
<1>3. DoneInv' /\ CompleteInv'
  <2>1. \A k \in 1..(file - 1) : k # file
    BY FirstName
  <2> QED BY <1>1, <1>2, <2>1, StillOpening
<1>4. ReadInv'
  <2>1. SegInv' /\ SoughtInv' /\ SeqInv' /\ BufInv'
    BY <1>2 DEF SegInv, SoughtInv, SeqInv, BufInv
  <2> QED BY <2>1 DEF ReadInv
<1>5. CalmInv' /\ DataInv'
  BY <1>1, <1>2, FindingCalm DEF Gentle
<1> QED BY <1>3, <1>4, <1>5, ImageParts

LEMMA ExpandImage ==
  ASSUME ImageInv, VolInv', Expand
  PROVE  ImageInv'
<1>1. /\ VolInv /\ DiskInv /\ VolumeInv /\ FilesInv /\ DataInv /\ FileAtInv /\ CalmInv
      /\ LinkInv
  BY DEF ImageInv, FoundInv, VolInv
<1>2. at = "expand" /\ UNCHANGED <<medium, fs, file>>
  BY DEF Expand
<1>3. fs # NoFs /\ file \in DOMAIN Names /\ DOMAIN fil = DOMAIN Names
  BY <1>1, <1>2, Past DEF Before, VolumeInv, FilesInv
<1>4. fil[file].open /\ fil[file].cltbl = <<>> /\ DOMAIN fil[file] = FilFields
  BY <1>1, <1>2, <1>3 DEF LinkInv, FilesInv, FilOK
<1>5. CASE left <= fs.csize
  <2> DEFINE f == [fil[file] EXCEPT !.clust = fil[file].sclust]
  <2>1. /\ at' = "linkmap" /\ UNCHANGED <<card, win, failed>>
        /\ fil' = [fil EXCEPT ![file] = f]
    BY <1>5 DEF Expand, ioVars
  <2>2. /\ f.sclust = fil[file].sclust /\ f.stat = fil[file].stat
        /\ f.size = fil[file].size /\ f.dir_sect = fil[file].dir_sect
        /\ f.dir_ptr = fil[file].dir_ptr /\ f.container = fil[file].container
        /\ f.c_ofs = fil[file].c_ofs /\ f.clust = fil[file].sclust /\ f.open
        /\ f.cltbl = <<>>
    BY <1>4 DEF FilFields
  <2> HIDE DEF f
  <2>3. Gentle
    BY <1>1, <1>2, <2>1, StillGentle
  <2>4. FileAtInv' /\ fil'[file] = f /\ \A j : j # file => fil'[j] = fil[j]
    BY <1>1, <1>2, <1>3, <1>4, <2>1, <2>2, FileAtKept
  <2>5. LinkInv'
    <3>1. ChainK(file)' = ChainK(file)
      BY <1>2 DEF ChainK, Image
    <3>2. CASE f.sclust = 0
      BY <1>2, <2>1, <2>2, <2>4, <3>2 DEF LinkInv
    <3>3. CASE f.sclust # 0
      <4>1. PICK p \in PlacesOf(medium, Base) : FileAt(fil[file], file, p)
        BY <1>1, <1>3, <1>4 DEF FileAtInv
      <4> DEFINE ch == ChainK(file)
      <4>2. ch # <<>> /\ ch[1] = f.clust /\ ch \in Seq(Clusters(fs))
        BY <1>1, <1>3, <2>2, <3>3, <4>1, FileChain
      <4>3. 1 \in 1..Len(ch) /\ Maps(<<>>, ch, 1 - 1)
        BY <4>2, NoTable, LenProperties, EmptySeq
      <4>4. ch' = ch
        BY <3>1
      <4> HIDE DEF ch
      <4>5. \E i \in 1..Len(ch) : Maps(fil'[file].cltbl, ch, i - 1) /\ fil'[file].clust = ch[i]
        BY <2>2, <2>4, <4>2, <4>3
      <4> QED BY <1>2, <2>1, <2>2, <2>4, <3>3, <4>4, <4>5 DEF LinkInv, ch
    <3> QED BY <3>2, <3>3
  <2> QED BY <1>2, <1>3, <2>1, <2>3, <2>4, <2>5, StillLinking
<1>6. CASE ~(left <= fs.csize)
  <2>1. PICK g \in get_fat(fil[file], fil[file].clust) :
          /\ Comes(g)
          /\ IF IsCluster(g)
             THEN /\ fil' = [fil EXCEPT ![file].clust = g.val]
                  /\ left' = left - fs.csize /\ UNCHANGED at
             ELSE Fatal /\ UNCHANGED <<fil, left>>
    BY <1>6 DEF Expand
  <2>2. Gentle
    BY <1>1, <1>2, <2>1, FatGentle
  <2>3. CASE IsCluster(g)
    <3> DEFINE f == [fil[file] EXCEPT !.clust = g.val]
    <3>1. at' = "expand" /\ fil' = [fil EXCEPT ![file] = f]
      BY <1>2, <2>1, <2>3
    <3>2. /\ f.sclust = fil[file].sclust /\ f.stat = fil[file].stat
          /\ f.size = fil[file].size /\ f.dir_sect = fil[file].dir_sect
          /\ f.dir_ptr = fil[file].dir_ptr /\ f.container = fil[file].container
          /\ f.c_ofs = fil[file].c_ofs /\ f.open /\ f.cltbl = <<>>
      BY <1>4 DEF FilFields
    <3> HIDE DEF f
    <3>3. FileAtInv' /\ fil'[file] = f /\ \A j : j # file => fil'[j] = fil[j]
      BY <1>1, <1>2, <1>3, <1>4, <3>1, <3>2, FileAtKept
    <3>4. LinkInv'
      BY <1>2, <3>1, <3>2, <3>3 DEF LinkInv
    <3> QED BY <1>2, <1>3, <2>2, <3>1, <3>3, <3>4, StillLinking
  <2>4. CASE ~IsCluster(g)
    <3>1. at' = "fatal" /\ UNCHANGED fil
      BY <2>1, <2>4 DEF Fatal
    <3>2. CalmInv' /\ DataInv' /\ FileAtInv'
      BY <1>1, <1>2, <2>2, <3>1, StaysCalm, FilesAtStay DEF Gentle
    <3> QED BY <3>1, <3>2, NotOpening
  <2> QED BY <2>3, <2>4
<1> QED BY <1>5, <1>6

\* The table of a file is complete, or there is no room for it.
LEMMA MappedImage ==
  ASSUME ImageInv, VolInv', fs # NoFs, at = "linkmap", UNCHANGED <<medium, fs>>, Gentle,
         fil[file].open, NEW tbl, Mapped(tbl), Maps(tbl, ChainK(file), Len(ChainK(file)))
  PROVE  ImageInv'
<1>1. /\ VolInv /\ DiskInv /\ VolumeInv /\ FilesInv /\ FileAtInv /\ CalmInv /\ DoneInv
  BY DEF ImageInv, FoundInv, VolInv
<1>2. file \in DOMAIN Names /\ DOMAIN fil = DOMAIN Names /\ DOMAIN fil[file] = FilFields
  BY <1>1 DEF VolumeInv, FilesInv, FilOK
<1>3. CalmInv' /\ DataInv' /\ (win'.dirty => failed')
  BY <1>1, StaysCalm DEF Gentle
<1>4. CASE Unmapped
  <2>1. at' = "fatal" /\ UNCHANGED fil
    BY <1>4 DEF Unmapped, Fatal
  <2>2. FileAtInv'
    BY <1>1, <2>1, FilesAtStay
  <2> QED BY <1>3, <2>1, <2>2, NotOpening
<1>5. CASE ~Unmapped
  <2> DEFINE f == [fil[file] EXCEPT !.cltbl = tbl]
  <2>1. fil' = [fil EXCEPT ![file] = f] /\ NextFile
    BY <1>5 DEF Mapped
  <2>2. /\ f.sclust = fil[file].sclust /\ f.stat = fil[file].stat
        /\ f.size = fil[file].size /\ f.dir_sect = fil[file].dir_sect
        /\ f.dir_ptr = fil[file].dir_ptr /\ f.container = fil[file].container
        /\ f.c_ofs = fil[file].c_ofs /\ f.open /\ f.cltbl = tbl
    BY <1>2 DEF FilFields
  <2> HIDE DEF f
  <2>3. FileAtInv' /\ fil'[file] = f /\ \A j : j # file => fil'[j] = fil[j]
    BY <1>1, <1>2, <2>1, <2>2, FileAtKept
  <2>4. ASSUME NEW k \in 1..file PROVE NamedK(k)'
    <3>1. CASE k = file
      <4>1. ChainK(k)' = ChainK(k)
        BY DEF ChainK, Image
      <4>2. Maps(fil'[k].cltbl, ChainK(k), Len(ChainK(k))) /\ fil'[k].open
        BY <2>2, <2>3, <3>1
      <4> QED BY <4>1, <4>2 DEF NamedK
    <3>2. CASE k # file
      <4>1. k \in 1..(file - 1)
        BY <1>2, <2>4, <3>2, FirstName
      <4>2. NamedK(k)
        BY <1>1, <4>1 DEF DoneInv, InOpen
      <4> QED BY <2>3, <3>2, <4>2, NamedStays
    <3> QED BY <3>1, <3>2
  <2>5. CASE file # Len(Names)
    <3>1. PICK j : j = file + 1
      OBVIOUS
    <3>2. Open(j)
      BY <2>1, <2>5, <3>1 DEF NextFile
    <3>3. j \in Nat \ {0} /\ \A k \in 1..(j - 1) : NamedK(k)'
      BY <1>2, <2>4, <3>1, FirstName
    <3> QED BY <1>1, <1>3, <2>3, <3>2, <3>3, OpenImage
  <2>6. CASE file = Len(Names)
    <3>1. at' = "idle" /\ parts' = file - 2
      BY <2>1, <2>6 DEF NextFile
    <3>2. LastFile' = file /\ LastFile' \in 3..Len(Names)
      BY <2>6, <3>1, FirstName DEF LastFile
    <3>3. ReadInv' /\ ~InOpen'
      BY <3>1, Quiet DEF Reading
    <3>4. DoneInv'
      BY <2>4, <3>2, <3>3 DEF DoneInv
    <3>5. CompleteInv'
      <4>1. ASSUME NEW k \in 3..file PROVE Names[k].long \in Writable
        <5>1. k \in DOMAIN Names /\ fil[k].open
          <6>1. CASE k = file
            BY <1>2, <6>1
          <6>2. CASE k # file
            <7>1. k \in 1..(file - 1) /\ k \in DOMAIN Names
              BY <1>2, <4>1, <6>2, FirstName
            <7> QED BY <1>1, <7>1 DEF DoneInv, InOpen, NamedK
          <6> QED BY <6>1, <6>2
        <5>2. PICK p \in PlacesOf(medium, Base) : FileAt(fil[k], k, p)
          BY <1>1, <5>1 DEF FileAtInv
        <5> QED BY <1>1, <5>1, <5>2, FileChain
      <4>2. PartsInARow = 3..file
        <5>1. \A k \in 3..file : 3..k \subseteq 3..file
          BY <1>2, FirstName
        <5> QED BY <2>6, <4>1, <5>1 DEF PartsInARow
      <4>3. PartsInARow' = PartsInARow
        BY DEF PartsInARow, Writable, Image
      <4>4. Whole0'
        BY <3>2, <4>2, <4>3 DEF Whole0
      <4> QED BY <4>4 DEF CompleteInv
    <3> QED BY <1>3, <2>3, <3>3, <3>4, <3>5, ImageParts
  <2> QED BY <2>5, <2>6
<1> QED BY <1>4, <1>5

LEMMA CreateLinkmapImage ==
  ASSUME ImageInv, VolInv', CreateLinkmap
  PROVE  ImageInv'
<1>1. /\ VolInv /\ DiskInv /\ VolumeInv /\ FilesInv /\ DataInv /\ FileAtInv /\ CalmInv
      /\ LinkInv
  BY DEF ImageInv, FoundInv, VolInv
<1>2. at = "linkmap" /\ UNCHANGED <<medium, fs>>
  BY DEF CreateLinkmap
<1>3. fs # NoFs /\ file \in DOMAIN Names /\ DOMAIN fil = DOMAIN Names
  BY <1>1, <1>2, Past DEF Before, VolumeInv, FilesInv
<1>4. fil[file].open /\ DOMAIN fil[file] = FilFields
  BY <1>1, <1>2, <1>3 DEF LinkInv, FilesInv, FilOK
<1>5. PICK p \in PlacesOf(medium, Base) : FileAt(fil[file], file, p)
  BY <1>1, <1>3, <1>4 DEF FileAtInv
<1> DEFINE ch == ChainK(file)
<1>6. /\ ch \in Seq(Clusters(fs)) /\ Len(ch) \in Nat
      /\ fil[file].sclust = 0 => ch = <<>>
      /\ fil[file].sclust # 0 => IsChain(medium, fs, ch, fil[file])
  BY <1>1, <1>3, <1>5, FileChain, LenProperties
<1>7. CASE fil[file].sclust = 0
  <2>1. Mapped(<<>>) /\ UNCHANGED <<card, win, failed>>
    BY <1>7 DEF CreateLinkmap, ioVars
  <2>2. Maps(<<>>, ch, Len(ch))
    BY <1>6, <1>7, NoTable, EmptySeq
  <2>3. Gentle
    BY <1>1, <1>2, <2>1, StillGentle
  <2> QED BY <1>2, <1>3, <1>4, <2>1, <2>2, <2>3, MappedImage
<1>8. CASE fil[file].sclust # 0
  <2> DEFINE tbl == Extend(fil[file].cltbl, fil[file].clust)
  <2>1. PICK g \in get_fat(fil[file], fil[file].clust) :
          /\ Comes(g)
          /\ IF IsCluster(g)
             THEN /\ fil' = [fil EXCEPT ![file].cltbl = tbl, ![file].clust = g.val]
                  /\ UNCHANGED <<at, file, dirVars, left, parts>>
             ELSE IF IsEnd(g) THEN Mapped(tbl) ELSE Unmapped
    BY <1>8 DEF CreateLinkmap
  <2>2. Gentle
    BY <1>1, <1>2, <2>1, FatGentle
  <2>3. PICK i \in 1..Len(ch) : Maps(fil[file].cltbl, ch, i - 1) /\ fil[file].clust = ch[i]
    BY <1>1, <1>2, <1>8 DEF LinkInv
  <2> HIDE DEF ch
  <2>4. \A j \in 1..Len(ch) : ch[j] \in Clusters(fs)
    BY <1>6, ElementOfSeq
  <2>5. fs.n_fatent \in Nat /\ \A n \in Clusters(fs) : n \in Nat
    BY <1>1, <1>3, MountedFacts DEF Clusters
  <2>6. Maps(tbl, ch, i)
    <3>1. i - 1 \in Nat /\ i - 1 + 1 = i /\ ch[i] \in Nat
      BY <1>6, <2>3, <2>4, <2>5
    <3> QED BY <2>3, <3>1, ExtendMaps
  <2>7. g \in get_fat(fil[file], ch[i])
    BY <2>1, <2>3
  <2> HIDE DEF tbl
  <2>8. CASE IsCluster(g)
    <3> DEFINE f == [fil[file] EXCEPT !.cltbl = tbl, !.clust = g.val]
    <3>1. at' = "linkmap" /\ file' = file /\ fil' = [fil EXCEPT ![file] = f]
      BY <1>2, <1>3, <2>1, <2>8
    <3>2. /\ f.sclust = fil[file].sclust /\ f.stat = fil[file].stat
          /\ f.size = fil[file].size /\ f.dir_sect = fil[file].dir_sect
          /\ f.dir_ptr = fil[file].dir_ptr /\ f.container = fil[file].container
          /\ f.c_ofs = fil[file].c_ofs /\ f.open /\ f.cltbl = tbl /\ f.clust = g.val
      BY <1>4 DEF FilFields
    <3> HIDE DEF f
    <3>3. FileAtInv' /\ fil'[file] = f /\ \A j : j # file => fil'[j] = fil[j]
      BY <1>1, <1>2, <1>3, <1>4, <3>1, <3>2, FileAtKept
    <3>4. i + 1 \in 1..Len(ch) /\ g.val = ch[i + 1]
      <4>1. ch \in Seq(Nat)
        BY <1>6, <2>5
      <4> QED BY <1>1, <1>3, <1>6, <1>8, <2>3, <2>7, <2>8, <4>1, GetFat
    <3>5. ch' = ch
      BY <1>2, <3>1 DEF ch, ChainK, Image
    <3>6. \E j \in 1..Len(ch) : Maps(fil'[file].cltbl, ch, j - 1) /\ fil'[file].clust = ch[j]
      <4>1. i + 1 - 1 = i
        BY <2>3
      <4> QED BY <2>6, <3>2, <3>3, <3>4, <4>1
    <3>7. LinkInv'
      BY <1>2, <1>8, <3>1, <3>2, <3>3, <3>5, <3>6 DEF LinkInv, ch
    <3> QED BY <1>2, <1>3, <2>2, <3>1, <3>3, <3>7, StillLinking
  <2>9. CASE ~IsCluster(g) /\ IsEnd(g)
    <3>1. i = Len(ch)
      BY <1>1, <1>3, <1>6, <1>8, <2>3, <2>7, <2>9, GetFatOn DEF IsEnd
    <3>2. Mapped(tbl) /\ Maps(tbl, ch, Len(ch))
      BY <2>1, <2>6, <2>9, <3>1
    <3> QED BY <1>2, <1>3, <1>4, <2>2, <3>2, MappedImage DEF ch
  <2>10. CASE ~IsCluster(g) /\ ~IsEnd(g)
    <3>1. at' = "fatal" /\ UNCHANGED fil
      BY <2>1, <2>10 DEF Unmapped, Fatal
    <3>2. CalmInv' /\ DataInv' /\ FileAtInv'
      BY <1>1, <1>2, <2>2, <3>1, StaysCalm, FilesAtStay DEF Gentle
    <3> QED BY <3>1, <3>2, NotOpening
  <2> QED BY <2>8, <2>9, <2>10
<1> QED BY <1>7, <1>8

-----------------------------------------------------------------------------
(* f_write and f_sync                                                      *)

LEMMA WriteImage ==
  ASSUME ImageInv, VolInv', Write
  PROVE  ImageInv'
<1>1. /\ VolInv /\ DiskInv /\ VolumeInv /\ FilesInv /\ DataInv /\ FileAtInv /\ CalmInv
  BY DEF ImageInv, FoundInv, VolInv
<1>2. PICK k \in DOMAIN Names :
        /\ fil[k].open
        /\ \E size \in {fil[k].size, Full(fil[k])} :
             fil' = [fil EXCEPT ![k].modified = TRUE, ![k].size = size]
  BY DEF Write
<1>3. PICK size \in {fil[k].size, Full(fil[k])} :
        fil' = [fil EXCEPT ![k].modified = TRUE, ![k].size = size]
  BY <1>2
<1>4. /\ at = "idle" /\ at' = "sync" /\ fs # NoFs
      /\ UNCHANGED <<medium, card, win, failed, fs, parts>>
  BY DEF Write, ioVars, NoFs
<1>5. PICK p \in PlacesOf(medium, Base) : FileAt(fil[k], k, p)
  BY <1>1, <1>2 DEF FileAtInv
<1> DEFINE obj == ObjectAt(medium, p)
           f == [fil[k] EXCEPT !.modified = TRUE, !.size = size]
<1>6. size \in obj.size..UpTo(fs, obj.size)
  <2>1. fs.csize \in Nat \ {0} /\ obj.size \in Nat
    <3>1. IsFile(medium, Base, Image, Names[k].long, obj)
      BY <1>1, <1>4, <1>5, FileIsFile
    <3>2. obj.size \in Nat
      <4> HIDE DEF obj
      <4>1. \E n : obj.size \in 0..n
        BY <3>1 DEF IsFile
      <4> QED BY <4>1
    <3> QED BY <1>1, <1>4, <3>2, MountedFacts
  <2>2. fil[k].size \in obj.size..UpTo(fs, obj.size)
    BY <1>5 DEF FileAt
  <2> HIDE DEF obj
  <2>3. UpTo(fs, fil[k].size) = UpTo(fs, obj.size) /\ UpTo(fs, obj.size) \in Nat
        /\ obj.size <= UpTo(fs, obj.size)
    BY <2>1, <2>2, UpToFacts
  <2>4. Full(fil[k]) = UpTo(fs, fil[k].size)
    BY DEF Full, UpTo
  <2> QED BY <1>3, <2>1, <2>2, <2>3, <2>4
<1>7. DOMAIN fil = DOMAIN Names /\ DOMAIN fil[k] = FilFields
  BY <1>1 DEF FilesInv, FilOK
<1>8. fil' = [fil EXCEPT ![k] = f]
  BY <1>3
<1>9. /\ f.sclust = fil[k].sclust /\ f.stat = fil[k].stat /\ f.size = size
      /\ f.dir_sect = fil[k].dir_sect /\ f.dir_ptr = fil[k].dir_ptr
      /\ f.container = fil[k].container /\ f.c_ofs = fil[k].c_ofs
      /\ f.open = fil[k].open /\ f.cltbl = fil[k].cltbl
  BY <1>7 DEF FilFields
<1> HIDE DEF f
<1>10. FileAt(f, k, p)
  BY <1>5, <1>6, <1>9 DEF FileAt
<1>11. FileAtInv'
  BY <1>1, <1>4, <1>8, <1>10, FileAtChanges
<1>12. \A j \in DOMAIN Names : fil'[j].open = fil[j].open /\ fil'[j].cltbl = fil[j].cltbl
  BY <1>7, <1>8, <1>9
<1>13. Gentle /\ (win'.dirty => failed')
  BY <1>1, <1>4, StillGentle, StaysCalm
<1> QED BY <1>4, <1>11, <1>12, <1>13, PastImage DEF Past0, Reading

\* The file that is synchronized is open, and its entry is where the FIL says.
LEMMA SyncFile ==
  ASSUME VolInv, FileAtInv, at \in {"sync", "syncFs"}
  PROVE  /\ fs # NoFs /\ file \in DOMAIN Names /\ DOMAIN fil = DOMAIN Names
         /\ DOMAIN fil[file] = FilFields /\ fil[file].open
         /\ \E p \in PlacesOf(medium, Base) : FileAt(fil[file], file, p)
<1>1. VolumeInv /\ FilesInv /\ SyncInv
  BY DEF VolInv
<1>2. fs # NoFs
  BY <1>1, Past DEF Before
<1>3. file \in DOMAIN Names /\ fil[file].open
  BY <1>1 DEF VolumeInv, SyncInv
<1> QED BY <1>1, <1>2, <1>3 DEF FilesInv, FilOK, FileAtInv

LEMMA SyncFatImage ==
  ASSUME ImageInv, VolInv', SyncFat
  PROVE  ImageInv'
<1>1. /\ VolInv /\ DiskInv /\ VolumeInv /\ DataInv /\ FileAtInv /\ CalmInv
      /\ DoneInv /\ CompleteInv
  BY DEF ImageInv, FoundInv, VolInv
<1>2. at = "sync" /\ fs.fs_type = "FAT32" /\ UNCHANGED <<medium, fs, fil>> /\ Past0
  BY DEF SyncFat, Past0
<1> DEFINE s == fil[file].dir_sect
           i == fil[file].dir_ptr
           e(m) == [m.win.data.dirent[i] EXCEPT !.sclust = fil[file].sclust,
                                                !.size = fil[file].size]
<1>3. PICK m \in move_window(s) :
        IF m.ok THEN /\ Comes(Edited(m, i, e(m)))
                     /\ at' = "syncFs" /\ UNCHANGED <<file, dirVars, left, parts>>
        ELSE Comes(m) /\ SyncReturns
  BY Zenon DEF SyncFat
<1>4. fs # NoFs /\ fil[file].open /\ file \in DOMAIN Names
      /\ \E p \in PlacesOf(medium, Base) : FileAt(fil[file], file, p)
  BY <1>1, <1>2, SyncFile
<1>5. FileAtInv'
  BY <1>1, <1>2, FilesAtStay
<1>6. CASE m.ok
  <2> DEFINE new == Edited(m, i, e(m))
  <2>1. PICK p \in PlacesOf(medium, Base) : FileAt(fil[file], file, p)
    BY <1>4
  <2>2. /\ PlaceOf(medium, p) = <<s, i>>
        /\ EntryOf(medium, fs, p[2], p[3]).type = "short"
        /\ fil[file].size \in ObjectAt(medium, p).size..UpTo(fs, ObjectAt(medium, p).size)
    BY <1>2, <2>1 DEF FileAt
  <2>3. /\ p \in Places(medium) /\ p[1] = Base /\ fs = VolumeOf(medium, Base)
        /\ medium \in Cards /\ p[3] \in Nat
        /\ PlaceOf(medium, p) = <<SectorOf(fs, p[2], p[3]), p[3] % PerSect>>
        /\ SectorOf(fs, p[2], p[3]) \in DOMAIN card
    BY <1>1, <1>4, PlaceHere, MountedFacts DEF Base, DiskInv
  <2>4. s = SectorOf(fs, p[2], p[3]) /\ i = p[3] % PerSect
    BY <2>2, <2>3
  <2> HIDE DEF s, i
  <2>5. /\ s \in DOMAIN medium.sectors /\ medium.sectors[s].kind = "dir"
        /\ DOMAIN medium.sectors[s] = {"kind", "dirent"}
        /\ DOMAIN medium.sectors[s].dirent = 0..(PerSect - 1)
        /\ i \in 0..(PerSect - 1)
    BY <2>2, <2>3, PlaceSector
  <2>6. e(m).size = fil[file].size
    <3>1. DOMAIN NowIn(p[2], p[3]) = EntryFields
      BY <1>1, <1>4, NowFacts
    <3>2. NowIn(p[2], p[3]) = m.win.data.dirent[i]
      <4>1. m.win.data = Seen(card, win, s)
        BY <1>1, <1>6, <2>3, <2>4, MoveSeen
      <4> QED BY <2>4, <4>1 DEF NowIn, SeenAt
    <3> QED BY <3>1, <3>2 DEF EntryFields
  <2>7. ASSUME NEW q \in Places(medium), PlaceOf(medium, q) = <<s, i>>
        PROVE  e(m).size \in Sizes(medium, q)
    <3>1. q = p
      <4>1. \A a, b \in Places(medium) : PlaceOf(medium, a) = PlaceOf(medium, b) => a = b
        BY <2>3, CardsAssumption, Zenon DEF Formatted
      <4> QED BY <2>2, <2>3, <2>7, <4>1
    <3>2. EntryOf(medium, VolumeOf(medium, p[1]), p[2], p[3] + 0)
            = EntryOf(medium, fs, p[2], p[3])
      BY <2>3
    <3>3. ObjectAt(medium, p).size = EntryOf(medium, fs, p[2], p[3]).size
      BY <2>2, <3>2 DEF ObjectAt
    <3> QED BY <2>2, <2>3, <2>6, <3>1, <3>3 DEF Sizes
  <2> HIDE DEF e
  <2>8. SizesOn(medium, new.card, new.win) /\ CleanOn(new.card, new.win)
    BY <1>1, <1>3, <1>6, <2>5, <2>7, EditSizes
  <2> HIDE DEF new
  <2>9. Comes(new) /\ at' = "syncFs" /\ UNCHANGED parts
    BY <1>3, <1>6 DEF new
  <2>10. DataInv' /\ (failed => failed')
    BY <1>2, <2>8, <2>9 DEF DataInv, Comes
  <2>11. ReadInv' /\ ~InOpen'
    BY <2>9, Quiet DEF Reading
  <2>12. DoneInv' /\ CompleteInv'
    BY <1>1, <1>2, <1>4, <2>9, <2>10, <2>11, PastStays
  <2>13. CalmInv'
    BY <2>9 DEF CalmInv
  <2> QED BY <1>5, <2>10, <2>11, <2>12, <2>13, ImageParts
<1>7. CASE ~m.ok
  <2>1. Comes(m) /\ at' \in {"close", "idle"} /\ UNCHANGED parts
    BY <1>3, <1>7 DEF SyncReturns
  <2>2. Gentle
    BY <1>1, <1>2, <2>1, MoveGentle
  <2>3. win'.dirty => failed'
    BY <1>1, <1>2, <2>2, StaysCalm
  <2> QED BY <1>2, <1>4, <1>5, <2>1, <2>2, <2>3, PastImage DEF Reading
<1> QED BY <1>6, <1>7

LEMMA SyncExfatImage ==
  ASSUME ImageInv, VolInv', SyncExfat
  PROVE  ImageInv'
<1>1. /\ VolInv /\ DiskInv /\ VolumeInv /\ DataInv /\ FileAtInv /\ CalmInv
      /\ DoneInv /\ CompleteInv
  BY DEF ImageInv, FoundInv, VolInv
<1>2. /\ at = "sync" /\ UNCHANGED <<medium, card, win, failed, fs, fil, parts>>
      /\ at' = "seek" /\ task' = "load" /\ dirbuf' = <<>> /\ Past0
  BY DEF SyncExfat, ioVars, Past0
<1>3. fs # NoFs
  BY <1>1, <1>2, SyncFile
<1>4. Gentle /\ CalmInv' /\ DataInv'
  BY <1>1, <1>2, StillGentle, StaysCalm DEF Gentle
<1>5. FileAtInv'
  BY <1>1, <1>2, FilesAtStay
<1>6. ~Finding' /\ ~InOpen'
  BY <1>2 DEF Finding, InOpen
<1>7. ReadInv'
  <2>1. Len(<<>>) = 0
    BY EmptySeq
  <2> QED BY <1>2, <1>6, <2>1 DEF ReadInv, SegInv, SoughtInv, SeqInv, LinkInv, BufInv
<1>8. ASSUME NEW p \in PlacesOf(medium, Base), Torn(p), ~Storing(p)
      PROVE  Torn(p)' /\ ~Storing(p)'
  BY <1>1, <1>2, <1>3, <1>4, <1>8, TornStays DEF Storing, Gentle
<1>9. DoneInv' /\ CompleteInv'
  BY <1>1, <1>2, <1>3, <1>6, <1>8, PastStays
<1> QED BY <1>4, <1>5, <1>7, <1>9, ImageParts

LEMMA SyncFsImage ==
  ASSUME ImageInv, VolInv', SyncFs
  PROVE  ImageInv'
<1>1. /\ VolInv /\ DiskInv /\ FilesInv /\ DataInv /\ FileAtInv
  BY DEF ImageInv, FoundInv, VolInv
<1>2. at = "syncFs" /\ UNCHANGED <<medium, fs, parts>> /\ at' \in {"close", "idle"}
  BY DEF SyncFs, SyncReturns
<1>3. /\ fs # NoFs /\ file \in DOMAIN Names /\ DOMAIN fil = DOMAIN Names
      /\ DOMAIN fil[file] = FilFields /\ fil[file].open
  BY <1>1, <1>2, SyncFile
<1>4. Gentle /\ (win'.dirty => failed')
  BY <1>1, <1>2, SyncGentle DEF SyncFs
<1> DEFINE f == [fil[file] EXCEPT !.modified = FALSE]
<1>5. fil' = [fil EXCEPT ![file] = f]
  BY DEF SyncFs
<1>6. /\ f.sclust = fil[file].sclust /\ f.stat = fil[file].stat
      /\ f.size = fil[file].size /\ f.dir_sect = fil[file].dir_sect
      /\ f.dir_ptr = fil[file].dir_ptr /\ f.container = fil[file].container
      /\ f.c_ofs = fil[file].c_ofs /\ f.open = fil[file].open
      /\ f.cltbl = fil[file].cltbl
  BY <1>3 DEF FilFields
<1> HIDE DEF f
<1>7. FileAtInv' /\ fil'[file] = f /\ \A j : j # file => fil'[j] = fil[j]
  BY <1>1, <1>2, <1>3, <1>5, <1>6, FileAtKept
<1>8. \A j \in DOMAIN Names : fil'[j].open = fil[j].open /\ fil'[j].cltbl = fil[j].cltbl
  BY <1>6, <1>7
<1> QED BY <1>2, <1>3, <1>4, <1>7, <1>8, PastImage DEF Past0, Reading

-----------------------------------------------------------------------------
(* f_close                                                                 *)

LEMMA FinalizeImage ==
  ASSUME ImageInv, VolInv', Finalize
  PROVE  ImageInv'
<1>1. DataInv /\ DiskInv /\ FileAtInv /\ CalmInv
  BY DEF ImageInv, FoundInv, VolInv
<1>2. /\ at = "idle" /\ at' = "close" /\ fs # NoFs
      /\ UNCHANGED <<medium, card, win, failed, fs, parts, fil>>
  BY DEF Finalize, ioVars, NoFs
<1>3. Gentle /\ (win'.dirty => failed') /\ FileAtInv'
  BY <1>1, <1>2, StillGentle, StaysCalm, FilesAtStay
<1> QED BY <1>2, <1>3, PastImage DEF Past0, Reading

LEMMA CloseImage ==
  ASSUME ImageInv, VolInv', Close
  PROVE  ImageInv'
<1>1. DataInv /\ DiskInv /\ FileAtInv /\ CalmInv /\ VolumeInv
      /\ VolInv
  BY DEF ImageInv, FoundInv, VolInv
<1>2. at = "close" /\ UNCHANGED <<medium, card, win, failed, parts>>
  BY DEF Close, ioVars
<1>3. fs # NoFs
  BY <1>1, <1>2, Past DEF Before
<1>4. Gentle /\ CalmInv' /\ DataInv' /\ (win'.dirty => failed')
  BY <1>1, <1>2, StillGentle, StaysCalm DEF Gentle
<1>5. CASE file <= 2 + parts
  <2>1. UNCHANGED <<fs, fil>> /\ at' \in {"sync", "close"}
    BY <1>2, <1>5 DEF Close
  <2>2. FileAtInv'
    BY <1>1, <1>2, <2>1, FilesAtStay
  <2> QED BY <1>2, <1>3, <1>4, <2>1, <2>2, PastImage DEF Past0, Reading
<1>6. CASE ~(file <= 2 + parts)
  <2>1. fs' = NoFs /\ at' = "idle"
    BY <1>6 DEF Close
  <2> QED BY <1>4, <2>1, NoVolume DEF Before
<1> QED BY <1>5, <1>6

-----------------------------------------------------------------------------
(* store_xdir                                                              *)

\* Of what is seen, the entry in hand is all that changes.
LEMMA OthersShown ==
  ASSUME VolInv, at \in Reading, UNCHANGED fs, NEW new, card' = new.card, win' = new.win,
         NEW e, EditShows(new, dj.sect, dj.dptr % PerSect, e),
         NEW q \in PlacesOf(medium, Base), q # HerePlace
  PROVE  SeenAt(fs', card', win', q[2], q[3]) = NowIn(q[2], q[3])
<1> DEFINE t == SectorOf(fs, q[2], q[3])
           j == q[3] % PerSect
           s == dj.sect
           i == dj.dptr % PerSect
<1>1. fs # NoFs /\ VolumeInv /\ DiskInv /\ medium \in Cards
  BY WalkFacts
<1>2. /\ q \in Places(medium) /\ t \in DOMAIN card /\ j \in 0..(PerSect - 1)
      /\ PlaceOf(medium, q) = <<t, j>>
  BY <1>1, PlaceHere
<1>3. HerePlace \in Places(medium) /\ PlaceOf(medium, HerePlace) = <<s, i>>
  BY DirPlace DEF PlacesOf
<1>4. <<t, j>> # <<s, i>>
  <2>1. \A a, b \in Places(medium) : PlaceOf(medium, a) = PlaceOf(medium, b) => a = b
    BY <1>1, CardsAssumption, Zenon DEF Formatted
  <2> QED BY <1>2, <1>3, <2>1
<1>5. SeenAt(fs', card', win', q[2], q[3]) = Seen(new.card, new.win, t).dirent[j]
  BY DEF SeenAt
<1>6. NowIn(q[2], q[3]) = Seen(card, win, t).dirent[j]
  BY DEF NowIn, SeenAt
<1>7. /\ new.win.sect = s
      /\ \A k \in 0..(PerSect - 1) : k # i =>
           new.win.data.dirent[k] = Seen(card, win, s).dirent[k]
      /\ \A k \in DOMAIN card : k # s => Seen(new.card, new.win, k) = Seen(card, win, k)
  BY DEF EditShows
<1> HIDE DEF t, j, s, i
<1>8. CASE t # s
  BY <1>2, <1>5, <1>6, <1>7, <1>8
<1>9. CASE t = s
  <2>1. j # i
    BY <1>4, <1>9
  <2>2. Seen(new.card, new.win, t) = new.win.data
    BY <1>7, <1>9 DEF Seen
  <2> QED BY <1>2, <1>5, <1>6, <1>7, <1>9, <2>1, <2>2
<1> QED BY <1>8, <1>9

\* The entry that is stored, and its place in the block.
LEMMA StoresHere ==
  ASSUME VolInv, BufInv, FileAtInv, at = "entry", task = "store"
  PROVE  /\ fs # NoFs /\ fs.fs_type = "exFAT" /\ at \in Reading
         /\ DirChain = HerePlace[2] /\ dj.dptr = HerePlace[3] /\ HerePlace[1] = Base
         /\ HerePlace = <<Base, DirChain, dj.dptr>> /\ HerePlace \in PlacesOf(medium, Base)
         /\ dj.dptr = blk_ofs + left - 1 /\ blk_ofs \in Nat
         /\ left \in 1..Len(dirbuf) /\ Len(dirbuf) \in Nat
         /\ InOrder(OldHere, left)
<1>1. at \in Reading /\ Here = dj.dptr
  BY DEF Reading, Here
<1>2. fs # NoFs /\ VolumeInv /\ DiskInv
  BY <1>1, WalkFacts
<1>3. fs.fs_type = "exFAT"
  BY <1>1, <1>2 DEF VolumeInv
<1>4. left \in 1..Len(dirbuf)
  BY <1>1, <1>3 DEF VolInv, BlockInv
<1>5. dirbuf # <<>>
  BY <1>4, EmptySeq
<1>6. /\ blk_ofs \in Nat /\ Len(dirbuf) \in Nat \ {0}
      /\ Here = blk_ofs + (left - 1) /\ left \in 1..dirbuf[1].ord
      /\ dirbuf[1].ord \in Nat
      /\ \A i \in 1..dirbuf[1].ord :
           InOrder(EntryOf(medium, fs, DirChain, blk_ofs + i - 1), i)
  BY <1>3, <1>5, BlockBegun
<1>7. dj.dptr = blk_ofs + left - 1
  BY <1>1, <1>4, <1>6
<1>8. InOrder(OldHere, left)
  BY <1>6, <1>7 DEF OldHere
<1>9. /\ HerePlace \in PlacesOf(medium, Base) /\ HerePlace[1] = Base
      /\ HerePlace[2] = DirChain /\ HerePlace[3] = dj.dptr
  BY <1>1, DirPlace
<1> QED BY <1>1, <1>2, <1>3, <1>4, <1>6, <1>7, <1>8, <1>9 DEF HerePlace

\* Another block is not touched: if it was torn, it still is.
LEMMA StillTorn ==
  ASSUME VolInv, DataInv, BufInv, FileAtInv, at = "entry", task = "store",
         UNCHANGED <<medium, fs>>, NEW new, card' = new.card, win' = new.win,
         NEW e, EditShows(new, dj.sect, dj.dptr % PerSect, e),
         NEW p \in PlacesOf(medium, Base), Torn(p), ~Storing(p)
  PROVE  Torn(p)'
<1> DEFINE q == <<Base, p[2], p[3] + 1>>
<1>1. DiskInv /\ VolumeInv
  BY DEF VolInv
<1>2. /\ fs # NoFs /\ fs.fs_type = "exFAT" /\ at \in Reading
      /\ DirChain = HerePlace[2] /\ dj.dptr = HerePlace[3]
      /\ HerePlace = <<Base, DirChain, dj.dptr>>
      /\ dj.dptr = blk_ofs + left - 1 /\ blk_ofs \in Nat
      /\ left \in 1..Len(dirbuf) /\ Len(dirbuf) \in Nat
      /\ InOrder(OldHere, left)
  BY StoresHere
<1>3. NowIn(p[2], p[3]).type = "filedir"
  BY DEF Torn
<1>4. /\ q \in PlacesOf(medium, Base) /\ p[3] \in Nat
      /\ EntryOf(medium, fs, p[2], p[3] + 1).type = "stream"
      /\ EntryOf(medium, fs, p[2], p[3]).type = "filedir"
  BY <1>1, <1>2, <1>3, StreamPlace
<1>5. q[2] = p[2] /\ q[3] = p[3] + 1
  OBVIOUS
<1>6. ~(p[2] = DirChain /\ p[3] = blk_ofs)
  BY <1>2 DEF Storing
<1>7. p # HerePlace
  <2> SUFFICES ASSUME p = HerePlace PROVE FALSE
    OBVIOUS
  <2>1. OldHere.type = "filedir" /\ p[2] = DirChain /\ p[3] = dj.dptr
    BY <1>2, <1>4 DEF OldHere
  <2>2. left = 1
    BY <1>2, <2>1 DEF InOrder
  <2> QED BY <1>2, <1>6, <2>1, <2>2
<1>8. q # HerePlace
  <2> SUFFICES ASSUME q = HerePlace PROVE FALSE
    OBVIOUS
  <2>1. p[2] = DirChain /\ p[3] + 1 = dj.dptr
    BY <1>2, <1>5
  <2>2. OldHere.type = "stream"
    BY <1>4, <2>1 DEF OldHere
  <2>3. left = 2
    BY <1>2, <2>2 DEF InOrder
  <2> QED BY <1>2, <1>4, <1>6, <2>1, <2>3
<1> HIDE DEF q
<1>9. /\ SeenAt(fs', card', win', p[2], p[3]) = NowIn(p[2], p[3])
      /\ SeenAt(fs', card', win', q[2], q[3]) = NowIn(q[2], q[3])
  BY <1>2, <1>4, <1>7, <1>8, OthersShown
<1>10. /\ NowIn(p[2], p[3])' = NowIn(p[2], p[3])
       /\ NowIn(p[2], p[3] + 1)' = NowIn(p[2], p[3] + 1)
  BY <1>5, <1>9 DEF NowIn
<1> QED BY <1>10 DEF Torn

LEMMA StoreXdirImage ==
  ASSUME ImageInv, VolInv', StoreXdir
  PROVE  ImageInv'
<1> DEFINE s == dj.sect
           i == dj.dptr % PerSect
           e == dirbuf[left]
<1>1. /\ VolInv /\ DiskInv /\ VolumeInv /\ DataInv /\ BufInv /\ FileAtInv /\ CalmInv
      /\ DoneInv /\ CompleteInv
  BY DEF ImageInv, FoundInv, VolInv
<1>2. /\ at = "entry" /\ task = "store" /\ UNCHANGED <<medium, fs>> /\ Past0
  BY DEF StoreXdir, Past0, Reading
<1>3. /\ fs # NoFs /\ fs.fs_type = "exFAT" /\ at \in Reading
      /\ HerePlace[1] = Base /\ HerePlace[2] = DirChain /\ HerePlace[3] = dj.dptr
      /\ HerePlace = <<Base, DirChain, dj.dptr>> /\ HerePlace \in PlacesOf(medium, Base)
      /\ dj.dptr = blk_ofs + left - 1 /\ blk_ofs \in Nat
      /\ left \in 1..Len(dirbuf) /\ Len(dirbuf) \in Nat
      /\ InOrder(OldHere, left)
  BY <1>1, <1>2, StoresHere
<1>4. PICK m \in move_window(s) :
        IF ~m.ok THEN Comes(m) /\ DirFails
        ELSE /\ Comes(Edited(m, i, e))
             /\ IF left = Len(dirbuf) THEN at' = "syncFs" /\ UNCHANGED <<dj, left>>
                ELSE dir_next(dj) /\ left' = left + 1
             /\ UNCHANGED <<file, task, level, dirbuf, blk_ofs, fil, parts>>
  BY DEF StoreXdir
<1>5. CASE ~m.ok
  <2>1. Comes(m) /\ DirFails
    BY <1>4, <1>5
  <2>2. Gentle
    BY <1>1, <1>2, <2>1, MoveGentle
  <2>3. failed'
    BY <1>5, <2>1 DEF Comes
  <2> QED BY <1>2, <1>3, <2>1, <2>2, <2>3, DirFailsImage
<1>6. CASE m.ok
  <2> DEFINE new == Edited(m, i, e)
  <2>1. PlaceOf(medium, HerePlace) = <<s, i>> /\ HerePlace \in Places(medium)
        /\ medium \in Cards /\ fs = VolumeOf(medium, Base)
    BY <1>1, <1>3, DirPlace, MountedFacts DEF PlacesOf, DiskInv, Base
  <2> HIDE DEF s, i
  <2>2. /\ s \in DOMAIN medium.sectors /\ medium.sectors[s].kind = "dir"
        /\ DOMAIN medium.sectors[s] = {"kind", "dirent"}
        /\ DOMAIN medium.sectors[s].dirent = 0..(PerSect - 1)
        /\ i \in 0..(PerSect - 1)
    BY <2>1, PlaceSector
  <2>3. ASSUME NEW q \in Places(medium), PlaceOf(medium, q) = <<s, i>>,
               EntryOf(medium, VolumeOf(medium, q[1]), q[2], q[3]).type \in Sized
        PROVE  e.size \in Sizes(medium, q)
    <3>1. q = HerePlace
      <4>1. \A a, b \in Places(medium) : PlaceOf(medium, a) = PlaceOf(medium, b) => a = b
        BY <2>1, CardsAssumption, Zenon DEF Formatted
      <4> QED BY <2>1, <2>3, <4>1
    <3>2. OldHere.type \in Sized
      BY <1>3, <2>1, <2>3, <3>1 DEF OldHere
    <3>3. left = 2
      BY <1>3, <3>2 DEF InOrder, Sized
    <3>4. dirbuf[2].size \in Sizes(medium, <<Base, DirChain, blk_ofs + 1>>)
      BY <1>1, <1>3, <3>3 DEF BufInv
    <3>5. blk_ofs + 1 = dj.dptr
      BY <1>3, <3>3
    <3> QED BY <1>3, <3>1, <3>3, <3>4, <3>5
  <2> HIDE DEF e
  <2>4. SizesOn(medium, new.card, new.win) /\ CleanOn(new.card, new.win)
        /\ EditShows(new, s, i, e)
    BY <1>1, <1>4, <1>6, <2>2, <2>3, EditSizes, EditSeen
  <2>5. /\ Comes(new)
        /\ IF left = Len(dirbuf) THEN at' = "syncFs" /\ UNCHANGED <<dj, left>>
           ELSE dir_next(dj) /\ left' = left + 1
        /\ UNCHANGED <<file, task, level, dirbuf, blk_ofs, fil, parts>>
    BY <1>4, <1>6
  <2> HIDE DEF new
  <2>6. card' = new.card /\ win' = new.win /\ (failed => failed')
    BY <2>5 DEF Comes
  <2>7. DataInv'
    BY <1>2, <2>4, <2>6 DEF DataInv
  <2>8. FileAtInv'
    BY <1>1, <1>2, <2>5, FilesAtStay
  <2>9. ASSUME NEW p \in PlacesOf(medium, Base), Torn(p), ~Storing(p) PROVE Torn(p)'
    BY <1>1, <1>2, <2>4, <2>6, <2>9, StillTorn DEF s, i
  <2>10. CASE left = Len(dirbuf)
    <3>1. at' = "syncFs"
      BY <2>5, <2>10
    <3>2. ReadInv' /\ ~InOpen' /\ \A p : ~Storing(p)'
      BY <3>1, Quiet DEF Reading, Storing
    <3>3. DoneInv' /\ CompleteInv'
      BY <1>1, <1>2, <1>3, <2>5, <2>6, <2>9, <3>2, PastStays
    <3>4. CalmInv'
      BY <3>1 DEF CalmInv
    <3> QED BY <2>7, <2>8, <3>2, <3>3, <3>4, ImageParts
  <2>11. CASE left # Len(dirbuf)
    <3>1. dir_next(dj)
      BY <2>5, <2>11
    <3>2. at' \in {"next", "entry"} /\ Object(dj') = Object(dj)
      <4>1. DirAt(medium, fs.volbase, dj)
        BY <1>1, <1>3, WalkFacts
      <4> QED BY <1>1, <1>2, <1>3, <3>1, <4>1, DirNext
    <3>3. SameRead
      BY <1>2, <1>3, <2>5, <3>2 DEF SameRead, Reading
    <3>4. DirChain' = DirChain /\ Base' = Base /\ \A p : Storing(p)' = Storing(p)
      BY <3>3, SameReadFacts
    <3>5. ~Finding' /\ ~InOpen' /\ at' \in Reading /\ task' = "store"
      BY <1>2, <2>5, <3>2 DEF Finding, InOpen, Reading
    <3>6. BufInv'
      BY <1>1, <1>2, <1>3, <2>5, <3>4, <3>5 DEF BufInv
    <3>7. ReadInv'
      BY <3>2, <3>5, <3>6 DEF ReadInv, SegInv, SoughtInv, SeqInv, LinkInv
    <3>8. DoneInv' /\ CompleteInv'
      BY <1>1, <1>2, <1>3, <2>5, <2>6, <2>9, <3>4, <3>5, PastStays
    <3>9. CalmInv'
      BY <3>2, <3>5 DEF CalmInv
    <3> QED BY <2>7, <2>8, <3>7, <3>8, <3>9, ImageParts
  <2> QED BY <2>10, <2>11
<1>7. m.ok \in BOOLEAN
  BY <1>1, MoveSeen
<1> QED BY <1>5, <1>6, <1>7

-----------------------------------------------------------------------------
(* The files of a mounted image                                            *)

LEMMA ImageInit ==
  ASSUME VolInit PROVE ImageInv
<1>1. /\ medium \in Cards /\ card = medium.sectors /\ ~win.dirty /\ win.sect = NoSector
      /\ fs = NoFs /\ at = "idle" /\ task = "find"
      /\ fil = [k \in DOMAIN Names |-> Closed]
  BY DEF VolInit, PowerOn
<1>2. VolInv /\ DiskInv
  BY InitStep DEF VolInv
<1>3. DataInv
  <2>1. NoSector \notin DOMAIN card
    BY <1>2, NoSectorFacts
  <2>2. ASSUME NEW s \in DOMAIN card PROVE SizesOK(medium, s, card[s])
    <3>1. ASSUME NEW p \in Places(medium), PlaceOf(medium, p)[1] = s,
                 EntryOf(medium, VolumeOf(medium, p[1]), p[2], p[3]).type \in Sized
          PROVE  card[s].dirent[PlaceOf(medium, p)[2]].size \in Sizes(medium, p)
      <4>1. EntryOf(medium, VolumeOf(medium, p[1]), p[2], p[3]).size \in Sizes(medium, p)
        BY <1>1, <3>1, SizesFacts
      <4>2. EntryOf(medium, VolumeOf(medium, p[1]), p[2], p[3])
              = medium.sectors[PlaceOf(medium, p)[1]].dirent[PlaceOf(medium, p)[2]]
        BY DEF EntryOf, PlaceOf
      <4> QED BY <1>1, <3>1, <4>1, <4>2
    <3> QED BY <3>1 DEF SizesOK
  <2> QED BY <1>1, <2>1, <2>2 DEF DataInv, SizesOn, CleanOn
<1>4. ~Finding /\ ~InOpen /\ at \notin Reading
  BY <1>1 DEF Finding, InOpen, Reading
<1>5. FileAtInv
  BY <1>1, ClosedOK DEF FileAtInv
<1>6. /\ SegInv /\ BufInv /\ LinkInv /\ DoneInv /\ CalmInv /\ SoughtInv /\ SeqInv
      /\ CompleteInv
  BY <1>1, <1>4 DEF SegInv, BufInv, LinkInv, DoneInv, CalmInv, SoughtInv, SeqInv,
                    CompleteInv
<1> QED BY <1>2, <1>3, <1>5, <1>6 DEF ImageInv, FoundInv

LEMMA ImageStutter ==
  ASSUME ImageInv, VolInv', UNCHANGED volVars PROVE ImageInv'
<1>1. UNCHANGED <<medium, win, card, failed, fs, at, file, task, level, dj, dirbuf,
                  blk_ofs, left, fil, parts, touched>>
  BY DEF volVars, ioVars, dirVars
<1>2. /\ Base' = Base /\ DirChain' = DirChain /\ Image' = Image /\ Segment' = Segment
      /\ Finding' = Finding /\ InOpen' = InOpen /\ Past0' = Past0 /\ Here' = Here
      /\ LastFile' = LastFile /\ Reached' = Reached
  BY <1>1 DEF Base, DirChain, Image, Segment, SegmentOf, Finding, InOpen, Past0, Here,
              LastFile, Reached
<1>3. DataInv' /\ CalmInv' /\ SegInv'
  BY <1>1, <1>2 DEF ImageInv, FoundInv, DataInv, CalmInv, SegInv
<1>4. FileAtInv'
  BY <1>1, FilesAtStay DEF ImageInv, FoundInv
<1>5. BufInv'
  BY <1>1, <1>2 DEF ImageInv, FoundInv, BufInv, NowIn
<1>6. LinkInv'
  BY <1>1, <1>2 DEF ImageInv, FoundInv, LinkInv, ChainK
<1>7. DoneInv'
  BY <1>1, <1>2 DEF ImageInv, FoundInv, DoneInv, NamedK, ChainK
<1>8. SoughtInv'
  BY <1>1, <1>2 DEF ImageInv, SoughtInv
<1>9. SeqInv'
  <2>1. SeqInv
    BY DEF ImageInv
  <2>2. \A p, i, m : LongAt(p, Segment, i, m)' <=> LongAt(p, Segment, i, m)
    BY <1>1, <1>2 DEF LongAt
  <2> QED BY <1>1, <1>2, <2>1, <2>2 DEF SeqInv
<1>10. CompleteInv'
  <2>1. CompleteInv
    BY DEF ImageInv
  <2> QED BY <1>1, <1>2, <2>1 DEF CompleteInv, Whole0, PartsInARow, Writable,
                                     Torn, NowIn, Storing
<1> QED BY <1>3, <1>4, <1>5, <1>6, <1>7, <1>8, <1>9, <1>10 DEF ImageInv, FoundInv

LEMMA ImageStep ==
  ASSUME ImageInv, VolInv', [VolNext]_volVars PROVE ImageInv'
<1>1. CASE Mount
  BY <1>1, MountImage
<1>2. CASE CheckFs
  BY <1>2, CheckFsImage
<1>3. CASE Bitmap
  BY <1>3, BitmapImage
<1>4. CASE BitmapChain
  BY <1>4, BitmapChainImage
<1>5. CASE FsInfo
  BY <1>5, FsInfoImage
<1>6. CASE FatEntry
  BY <1>6, FatEntryImage
<1>7. CASE ExfatEntry
  BY <1>7, ExfatEntryImage
<1>8. CASE NextCluster
  BY <1>8, NextClusterImage
<1>9. CASE SeekBlock
  BY <1>9, SeekBlockImage
<1>10. CASE Expand
  BY <1>10, ExpandImage
<1>11. CASE CreateLinkmap
  BY <1>11, CreateLinkmapImage
<1>12. CASE Write
  BY <1>12, WriteImage
<1>13. CASE SyncFat
  BY <1>13, SyncFatImage
<1>14. CASE SyncExfat
  BY <1>14, SyncExfatImage
<1>15. CASE StoreXdir
  BY <1>15, StoreXdirImage
<1>16. CASE SyncFs
  BY <1>16, SyncFsImage
<1>17. CASE Finalize
  BY <1>17, FinalizeImage
<1>18. CASE Close
  BY <1>18, CloseImage
<1>19. CASE PowerLoss
  BY <1>19, PowerLossImage
<1>20. CASE UNCHANGED volVars
  BY <1>20, ImageStutter
<1> QED BY <1>1, <1>2, <1>3, <1>4, <1>5, <1>6, <1>7, <1>8, <1>9, <1>10, <1>11, <1>12,
           <1>13, <1>14, <1>15, <1>16, <1>17, <1>18, <1>19, <1>20 DEF VolNext

\* A file of which the table is complete is the one that its name stands for.
LEMMA NamedIsNamed ==
  ASSUME VolInv, FileAtInv, fs # NoFs, NEW k \in DOMAIN Names, NamedK(k)
  PROVE  fil[k].open /\ IsNamed(k)
<1>1. fil[k].open /\ Maps(fil[k].cltbl, ChainK(k), Len(ChainK(k)))
  BY DEF NamedK
<1>2. PICK p \in PlacesOf(medium, Base) : FileAt(fil[k], k, p)
  BY <1>1 DEF FileAtInv
<1> DEFINE ch == ChainK(k)
<1>3. /\ Names[k].long \in Writable /\ Len(ch) \in Nat
      /\ fil[k].size \in Image.size[Names[k].long]..(fs.csize * Len(ch))
  BY <1>2, FileChain, LenProperties
<1> HIDE DEF ch
<1>4. ASSUME NEW i \in 0..Len(ch)
      PROVE  clmt_clust(fil[k].cltbl, i) = IF i < Len(ch) THEN ch[i + 1] ELSE 0
  BY <1>1, <1>3, TableIsChain DEF ch
<1> QED BY <1>1, <1>3, <1>4, Zenon DEF IsNamed, ch, ChainK

\* When nothing waits to be written, the card is what is seen.
LEMMA SeenIsCard ==
  ASSUME DataInv, ~win.dirty, NEW s, s \in DOMAIN card
  PROVE  Seen(card, win, s) = card[s]
BY DEF DataInv, CleanOn, Seen

LEMMA WholeNotTorn ==
  ASSUME VolInv, DataInv, fs # NoFs, fs.fs_type = "exFAT", ~win.dirty, Whole,
         NEW p \in PlacesOf(medium, Base)
  PROVE  ~Torn(p)
<1> SUFFICES ASSUME Torn(p) PROVE FALSE
  OBVIOUS
<1>1. DiskInv /\ VolumeInv
  BY DEF VolInv
<1> DEFINE q == <<Base, p[2], p[3] + 1>>
           At(i) == EntryOf([sectors |-> card], fs, p[2], p[3] + i)
<1>2. NowIn(p[2], p[3]).type = "filedir"
  BY DEF Torn
<1>3. q \in PlacesOf(medium, Base) /\ q[2] = p[2] /\ q[3] = p[3] + 1 /\ p[3] \in Nat
  BY <1>1, <1>2, StreamPlace
<1>4. SectorOf(fs, p[2], p[3]) \in DOMAIN card
  BY <1>1, PlaceHere
<1>5. SectorOf(fs, p[2], p[3] + 1) \in DOMAIN card
  <2> HIDE DEF q
  <2>1. SectorOf(fs, q[2], q[3]) \in DOMAIN card
    BY <1>1, <1>3, PlaceHere
  <2> QED BY <1>3, <2>1
<1>6. At(0) = NowIn(p[2], p[3])
  <2>1. p[3] + 0 = p[3]
    BY <1>3
  <2> QED BY <1>4, <2>1, SeenIsCard DEF EntryOf, NowIn, SeenAt
<1>7. At(1) = NowIn(p[2], p[3] + 1)
  BY <1>5, SeenIsCard DEF EntryOf, NowIn, SeenAt
<1>8. At(0).type = "filedir" => At(0).sum = xdir_sum(<<At(0), At(1)>>)
  <2> HIDE DEF q
  <2> QED BY Zenon DEF Whole, Base
<1> HIDE DEF At
<1> QED BY <1>2, <1>6, <1>7, <1>8 DEF Torn

-----------------------------------------------------------------------------
(* The volume that is mounted                                              *)

\* The sector begins a volume.
IsBoot(s) == medium.sectors[s].kind \in {"FAT32", "exFAT"}

\* Unless a command failed, what has been passed over begins no volume.
FirstInv ==
  ~failed =>
    /\ at = "boot" /\ left > 0 =>
         /\ ~IsBoot(0)
         /\ \A j \in 1..(left - 1) :
              medium.sectors[0].br[j] # 0 => ~IsBoot(medium.sectors[0].br[j])
    /\ fs # NoFs => FirstVolume(fs.volbase)

\* With a volume, it stays.
LEMMA FirstStays ==
  ASSUME FirstInv, VolInv', fs # NoFs, UNCHANGED <<medium, fs>>, failed => failed'
  PROVE  FirstInv'
<1>1. at' # "boot"
  BY DEF VolInv, VolumeInv
<1> QED BY <1>1 DEF FirstInv, FirstVolume

\* Without one, there is nothing to be said.
LEMMA FirstNone ==
  ASSUME fs' = NoFs, at' = "boot" => left' = 0 PROVE FirstInv'
BY DEF FirstInv

LEMMA CheckFsFirst ==
  ASSUME VolInv, FirstInv, CheckFs PROVE FirstInv'
<1> DEFINE bsect == Start(left)
           b == card[bsect]
           br == medium.sectors[0].br
           read == [sect |-> bsect, data |-> b, dirty |-> FALSE]
<1>1. /\ at = "boot" /\ medium' = medium
      /\ IF left > 0 /\ bsect = 0 THEN NextPartition /\ UNCHANGED ioVars
         ELSE \/ /\ Comes([ok |-> TRUE, win |-> read, card |-> card])
                 /\ Analysed(b, bsect)
              \/ /\ Comes([ok |-> FALSE, win |-> Lost(bsect), card |-> card])
                 /\ IF left = 0 THEN NoFat ELSE NextPartition
  BY DEF CheckFs
<1>2. /\ fs = NoFs /\ left \in 0..4 /\ (left > 0 => medium.sectors[0].kind = "mbr")
      /\ DiskInv
  BY <1>1 DEF VolInv, VolumeInv
<1>3. (left = 0 => bsect = 0) /\ (left # 0 => bsect = br[left])
  BY DEF Start
<1>4. b.kind = medium.sectors[bsect].kind
  <2>1. /\ 0 \in DOMAIN medium.sectors
        /\ medium.sectors[0].kind = "mbr" =>
             \A i \in 1..4 : medium.sectors[0].br[i] \in DOMAIN medium.sectors
    BY <1>2, CardsAssumption DEF DiskInv, Formatted
  <2>2. left # 0 => left \in 1..4 /\ left > 0
    BY <1>2
  <2>3. bsect \in DOMAIN card
    BY <1>2, <1>3, <2>1, <2>2, NoSectorFacts
  <2> HIDE DEF bsect
  <2> QED BY <1>2, <2>3 DEF DiskInv, DiskOK, Kept
<1> HIDE DEF bsect, b
<1> SUFFICES ASSUME ~failed' PROVE FirstInv'
  BY DEF FirstInv
\* The next partition, after a sector that begins no volume or is not looked at.
<1>5. ASSUME ~failed, NextPartition, (left > 0 /\ bsect = 0) \/ ~IsBoot(bsect)
      PROVE  FirstInv'
  <2>1. fs' = NoFs /\ (at' = "boot" => left < 4 /\ left' = left + 1)
    BY <1>2, <1>5 DEF NextPartition, Fatal
  <2>2. ~IsBoot(0)
    BY <1>1, <1>2, <1>3, <1>5 DEF FirstInv
  <2>3. ASSUME at' = "boot", NEW j \in 1..(left' - 1), br[j] # 0 PROVE ~IsBoot(br[j])
    <3>1. CASE j = left
      BY <1>2, <1>3, <1>5, <2>3, <3>1
    <3>2. CASE j # left
      <4>1. j \in 1..(left - 1) /\ left > 0
        BY <1>2, <2>1, <2>3, <3>2
      <4> QED BY <1>1, <1>5, <2>3, <4>1 DEF FirstInv
    <3> QED BY <3>1, <3>2
  <2> QED BY <1>1, <2>1, <2>2, <2>3 DEF FirstInv, IsBoot
<1>6. CASE left > 0 /\ bsect = 0
  BY <1>1, <1>5, <1>6 DEF ioVars
<1>7. CASE Comes([ok |-> TRUE, win |-> read, card |-> card]) /\ Analysed(b, bsect)
  <2>1. ~failed
    BY <1>7 DEF Comes
  <2>2. CASE IsBoot(bsect) /\ Sound(b) /\ ~(left > 0 /\ bsect = 0)
    <3>1. fs' = FromBoot(b, bsect) /\ at' \in {"bitmap", "fsinfo"}
      BY <1>4, <1>7, <2>2 DEF Analysed, IsBoot
    <3>2. fs'.volbase = bsect
      BY <3>1 DEF FromBoot
    <3>3. FirstVolume(bsect)
      <4>1. CASE left = 0
        BY <1>3, <2>2, <4>1 DEF FirstVolume, IsBoot
      <4>2. CASE left # 0
        <5>1. left \in 1..4 /\ left > 0 /\ bsect = br[left] /\ bsect # 0
          BY <1>2, <1>3, <2>2, <4>2
        <5>2. /\ ~IsBoot(0)
              /\ \A j \in 1..(left - 1) : br[j] # 0 => ~IsBoot(br[j])
          BY <1>1, <2>1, <5>1 DEF FirstInv
        <5> QED BY <5>1, <5>2 DEF FirstVolume, IsBoot
      <4> QED BY <4>1, <4>2
    <3>4. FirstVolume(fs.volbase)'
      BY <1>1, <3>2, <3>3 DEF FirstVolume
    <3> QED BY <3>1, <3>4 DEF FirstInv
  <2>3. CASE IsBoot(bsect) /\ ~Sound(b)
    <3>1. NoFat
      BY <1>4, <1>7, <2>3 DEF Analysed, IsBoot
    <3> QED BY <1>2, <3>1, FirstNone DEF NoFat, Fatal
  <2>4. CASE ~IsBoot(bsect)
    <3>1. NoFat \/ NextPartition
      BY <1>4, <1>7, <2>4 DEF Analysed, IsBoot
    <3>2. CASE NoFat
      BY <1>2, <3>2, FirstNone DEF NoFat, Fatal
    <3> QED BY <1>5, <2>1, <2>4, <3>1, <3>2
  <2> QED BY <1>6, <2>2, <2>3, <2>4
<1>8. CASE Comes([ok |-> FALSE, win |-> Lost(bsect), card |-> card])
  BY <1>8 DEF Comes
<1> QED BY <1>1, <1>6, <1>7, <1>8 DEF bsect, b

LEMMA FirstStep ==
  ASSUME VolInv, FirstInv, VolInv', [VolNext]_volVars PROVE FirstInv'
<1>0. at \notin Before \/ fs.fs_type # "none" => fs # NoFs
  BY Past DEF VolInv, NoFs
<1>1. CASE Mount
  <2>1. fs' = NoFs /\ left' = 0
    BY <1>1, MountedFacts DEF Mount, VolInv
  <2> QED BY <2>1, FirstNone
<1>2. CASE CheckFs
  BY <1>2, CheckFsFirst
<1>3. CASE Bitmap
  BY <1>0, <1>3, FirstStays DEF Bitmap, Comes, ioVars, Before
<1>4. CASE BitmapChain
  BY <1>0, <1>4, FirstStays DEF BitmapChain, Comes, Before
<1>5. CASE FsInfo
  BY <1>0, <1>5, FirstStays DEF FsInfo, Comes, Before
<1>6. CASE FatEntry
  BY <1>0, <1>6, FirstStays DEF FatEntry, Comes, Before
<1>7. CASE ExfatEntry
  BY <1>0, <1>7, FirstStays DEF ExfatEntry, Comes, Before
<1>8. CASE NextCluster
  BY <1>0, <1>8, FirstStays DEF NextCluster, Comes, Before
<1>9. CASE SeekBlock
  BY <1>0, <1>9, FirstStays DEF SeekBlock, Comes, ioVars, Before
<1>10. CASE Expand
  BY <1>0, <1>10, FirstStays DEF Expand, Comes, ioVars, Before
<1>11. CASE CreateLinkmap
  BY <1>0, <1>11, FirstStays DEF CreateLinkmap, Comes, ioVars, Before
<1>12. CASE Write
  BY <1>0, <1>12, FirstStays DEF Write, ioVars
<1>13. CASE SyncFat
  BY <1>0, <1>13, FirstStays DEF SyncFat, Comes, Edited, Before
<1>14. CASE SyncExfat
  BY <1>0, <1>14, FirstStays DEF SyncExfat, ioVars, Before
<1>15. CASE StoreXdir
  BY <1>0, <1>15, FirstStays DEF StoreXdir, Comes, Before
<1>16. CASE SyncFs
  BY <1>0, <1>16, FirstStays DEF SyncFs, Comes, Before
<1>17. CASE Finalize
  BY <1>0, <1>17, FirstStays DEF Finalize, ioVars
<1>18. CASE Close
  <2>1. UNCHANGED fs \/ (fs' = NoFs /\ at' = "idle")
    BY <1>18 DEF Close
  <2>2. UNCHANGED <<medium, failed>> /\ fs # NoFs
    BY <1>0, <1>18 DEF Close, ioVars, Before
  <2> QED BY <2>1, <2>2, FirstStays, FirstNone
<1>19. CASE PowerLoss
  BY <1>19, FirstNone DEF PowerLoss
<1>20. CASE UNCHANGED volVars
  BY <1>20 DEF volVars, ioVars, FirstInv, FirstVolume, IsBoot
<1> QED BY <1>1, <1>2, <1>3, <1>4, <1>5, <1>6, <1>7, <1>8, <1>9, <1>10, <1>11, <1>12,
           <1>13, <1>14, <1>15, <1>16, <1>17, <1>18, <1>19, <1>20 DEF VolNext

\* For every card that is formatted, whatever fails and whenever the power is
\* lost: when an image has been mounted, each of its files is open and is the one
\* that its name stands for along the path, it may be written to, and its table
\* leads to each of its clusters; when no command has failed since f_mount, the
\* volume is the first of the card, and if, besides, no block of the directory is
\* torn, no part of the row is left out (emummc.c, 205 to 222; ff.c, 1700 to 1805,
\* 2429 to 2500, 3029 to 3110, 3298, 3690 and 4378 to 4412).
THEOREM VolMountedIsImage == VolSpec => []MountedIsImage
<1>1. VolInit => ImageInv /\ FirstInv
  BY ImageInit DEF FirstInv, VolInit, PowerOn
<1>2. ImageInv /\ FirstInv /\ VolInv' /\ [VolNext]_volVars => ImageInv' /\ FirstInv'
  BY ImageStep, FirstStep DEF ImageInv
<1>3. ImageInv /\ FirstInv => MountedIsImage
  <2> SUFFICES ASSUME ImageInv, FirstInv, at = "idle", fs.fs_type # "none"
               PROVE  LET n == IF parts = 0 THEN 1 ELSE parts
                      IN /\ \A k \in 1..(2 + n) : fil[k].open /\ IsNamed(k)
                         /\ ~failed => FirstVolume(fs.volbase)
                         /\ ~failed /\ Whole => 3..(2 + n) = PartsInARow
    BY DEF MountedIsImage
  <2> DEFINE n == IF parts = 0 THEN 1 ELSE parts
  <2>1. /\ VolInv /\ FileAtInv /\ DoneInv /\ CompleteInv /\ CalmInv /\ DataInv
        /\ fs # NoFs /\ Past0 /\ 2 + n = LastFile
    BY DEF ImageInv, FoundInv, NoFs, Past0, LastFile
  <2> HIDE DEF n
  <2>2. LastFile \in 3..Len(Names) /\ \A k \in 1..LastFile : NamedK(k)
    BY <2>1 DEF DoneInv
  <2>3. ASSUME NEW k \in 1..(2 + n) PROVE fil[k].open /\ IsNamed(k)
    <3>1. k \in DOMAIN Names /\ NamedK(k)
      BY <2>1, <2>2, <2>3, FirstName
    <3> QED BY <2>1, <3>1, NamedIsNamed
  <2>4. ASSUME ~failed, Whole PROVE 3..(2 + n) = PartsInARow
    <3>1. ~win.dirty
      BY <2>1, <2>4 DEF CalmInv
    <3>2. Whole0
      BY <2>1, <2>4, <3>1, WholeNotTorn DEF CompleteInv
    <3> QED BY <2>1, <3>2 DEF Whole0
  <2>5. ~failed => FirstVolume(fs.volbase)
    BY <2>1 DEF FirstInv
  <2> QED BY <2>3, <2>4, <2>5 DEF n
<1> QED BY <1>1, <1>2, <1>3, VolInvariant, PTL DEF VolSpec
=============================================================================
