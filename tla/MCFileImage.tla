---------------------------- MODULE MCFileImage -----------------------------
(***************************************************************************)
(* The two halves of an eMMC partition in files: finding and opening them, *)
(* and the requests to them.  They share no variable, so that every        *)
(* interleaving of them is covered by each of them alone: a behaviour here *)
(* is one of the two.                                                      *)
(***************************************************************************)
EXTENDS MCFileIo, FatVolume

VARIABLE half   (* "opening" or "requests"                                 *)

-----------------------------------------------------------------------------
(* Cards, from the directories and chains of their volumes.                *)

MCPerFat  == 8
MCPerSect == 2

MCEntry(type, name) ==
  [type |-> type, name |-> name, ord |-> 0, last |-> FALSE, sum |-> <<>>,
   dir |-> FALSE, rdo |-> FALSE, sclust |-> 0, size |-> 0, stat |-> 0]

Deleted == MCEntry("deleted", "")
Long(name, short) == [MCEntry("long", name) EXCEPT !.ord = 1, !.last = TRUE,
                                                   !.sum = <<short>>]
Short(name, clst, n) == [MCEntry("short", name) EXCEPT !.sclust = clst,
                                                       !.size = n]
ReadOnlyShort(name, clst, n) == [Short(name, clst, n) EXCEPT !.rdo = TRUE]
ShortDir(name, clst) == [Short(name, clst, 0) EXCEPT !.dir = TRUE]

Block(name, clst, n, contiguous) ==
  LET stat == IF contiguous THEN 2 ELSE 0
  IN <<[MCEntry("filedir", name) EXCEPT !.ord = 3, !.sum = <<clst, n, stat>>],
       [MCEntry("stream", name) EXCEPT !.sclust = clst, !.size = n,
                                       !.stat = stat],
       MCEntry("filename", name)>>
BlockDir(name, clst, n, contiguous) ==
  [Block(name, clst, n, contiguous) EXCEPT ![1].dir = TRUE]

\* Directory entries in the sectors of a chain.
DirSector(dir, csize, c, o) ==
  LET at_ == CHOOSE i \in DOMAIN dir.chain : dir.chain[i] = c
      e(j) == ((at_ - 1) * csize + o) * MCPerSect + j + 1
  IN [kind |-> "dir",
      dirent |-> [j \in 0..(MCPerSect - 1) |->
                    IF e(j) <= Len(dir.entries) THEN dir.entries[e(j)]
                    ELSE MCEntry("end", "")]]

FatEntryOf(chains, c) ==
  IF \E ch \in chains : \E i \in DOMAIN ch : ch[i] = c
  THEN LET ch == CHOOSE ch \in chains : \E i \in DOMAIN ch : ch[i] = c
           i == CHOOSE i \in DOMAIN ch : ch[i] = c
       IN IF i = Len(ch) THEN Eoc ELSE ch[i + 1]
  ELSE 0

\* Sector s of a volume, counted from its first.
VolumeSector(v, s) ==
  LET data == s - v.dataofs
      c == data \div v.boot.csize + 2
      in(d) == c \in {d.chain[i] : i \in DOMAIN d.chain}
  IN IF s = 0 THEN v.boot
     ELSE IF s \in v.fatofs..(v.fatofs + v.boot.fsize - 1)
     THEN [kind |-> "fat",
           fatent |-> [i \in 0..(MCPerFat - 1) |->
             FatEntryOf(v.chains, (s - v.fatofs) * MCPerFat + i)]]
     ELSE IF data >= 0 /\ \E d \in v.dirs : in(d)
     THEN DirSector(CHOOSE d \in v.dirs : in(d), v.boot.csize, c,
                    data % v.boot.csize)
     ELSE [kind |-> "data"]

Fat32Boot(csize) ==
  [kind |-> "FAT32", n_fats |-> 2, csize |-> csize, n_rootdir |-> 0,
   nrsv |-> 2, fsize |-> 3, tsect |-> 8 + 20 * csize, root |-> 2]
ExfatBoot(csize) ==
  [kind |-> "exFAT", n_fats |-> 1, csize |-> csize, fatofs |-> 1, fsize |-> 3,
   dataofs |-> 4, nclst |-> 20, tsect |-> 4 + 20 * csize, root |-> 4]

Dir(chain_, entries) == [chain |-> chain_, entries |-> entries]

Fat32(csize, dirs, files) ==
  [boot |-> Fat32Boot(csize), fatofs |-> 2, dataofs |-> 8, dirs |-> dirs,
   chains |-> {d.chain : d \in dirs} \cup files]
Exfat(csize, dirs, chains) ==
  [boot |-> ExfatBoot(csize), fatofs |-> 1, dataofs |-> 4, dirs |-> dirs,
   chains |-> chains]

DirsOf(v) == {d.chain : d \in v.dirs}

\* A card of one volume, or partitioned.
OneVolume(v) == [s \in 0..(v.boot.tsect - 1) |-> VolumeSector(v, s)]
Partitioned(first, v, w) ==
  [s \in 0..(first + v.boot.tsect + w.boot.tsect - 1) |->
     IF s = 0
     THEN [kind |-> "mbr", br |-> <<first, 0, first + v.boot.tsect, 0>>]
     ELSE IF s < first THEN [kind |-> "data"]
     ELSE IF s < first + v.boot.tsect THEN VolumeSector(v, s - first)
     ELSE VolumeSector(w, s - first - v.boot.tsect)]

MCImage(path_, chain_, size_, readonly_) ==
  [path |-> path_, chain |-> chain_, size |-> size_, readonly |-> readonly_]

\* Directories with a chain, one in another, from the root.
MCPathOf(clusters) ==
  <<Origin>> \o [i \in DOMAIN clusters |-> [Origin EXCEPT !.sclust = clusters[i]]]

\* An image behind long names that are in order and out of it, another image
\* beside it; the directory and the parts are fragmented.  Of its three parts the
\* second one is read-only.
MCFat32Card ==
  LET chains == ("BOOT0" :> <<8>> @@ "BOOT1" :> <<10>>
                   @@ "00" :> <<11, 12, 15>> @@ "01" :> <<14, 13>>
                   @@ "02" :> <<5>>)
      dirs ==
        {Dir(<<2, 3>>,
             <<Long("emu mmc", "EMUMMC~1"), Deleted, ShortDir("EMUMMC~1", 20),
               Long("emu mmc", "EMUMMC~2"), ShortDir("EMUMMC~2", 4)>>),
         Dir(<<4>>, <<ShortDir(".", 4), ShortDir("..", 0),
                      Long("eMMC", "EMMC"), ShortDir("EMMC", 6)>>),
         Dir(<<6, 9, 7>>,
             <<ShortDir(".", 6), ShortDir("..", 4), Deleted,
               Short("BOOT0", 8, 1), Short("BOOT1", 10, 2),
               Long("backup.bin", "BACKUP~1"), Short("BACKUP~1", 19, 2),
               Short("00", 11, 5), ReadOnlyShort("01", 14, 4),
               Short("02", 5, 2)>>),
         Dir(<<20>>, <<ShortDir("EMMC", 21)>>),
         Dir(<<21>>, <<Short("BOOT0", 16, 2), Short("BOOT1", 17, 2),
                       Short("00", 18, 2)>>)}
      sizes == "BOOT0" :> 1 @@ "BOOT1" :> 2 @@ "00" :> 5 @@ "01" :> 4
                 @@ "02" :> 2
      v == Fat32(2, dirs, {chains[n] : n \in DOMAIN chains}
                            \cup {<<16>>, <<17>>, <<18>>, <<19>>})
  IN [sectors |-> OneVolume(v), dirs |-> 0 :> DirsOf(v),
      images  |-> 0 :> MCImage(MCPathOf(<<4, 6>>), chains, sizes, {"01"})]

\* Two partitions, each with an image whose cluster is a sector: in three parts, of
\* which one is empty, and in a single file.
MCSmallVolume(chains) ==
  LET entry(n) == Short(n, IF chains[n] = <<>> THEN 0 ELSE chains[n][1],
                        Len(chains[n]))
  IN Fat32(1, {Dir(<<2, 3>>, <<Deleted, Long("emu mmc", "EMUMMC~1"),
                               ShortDir("EMUMMC~1", 4)>>),
               Dir(<<4>>, <<Long("eMMC", "EMMC"), ShortDir("EMMC", 5)>>),
               Dir(<<5, 6, 11>>, <<entry("BOOT0"), entry("BOOT1"), entry("00")>>
                                   \o (IF "01" \in DOMAIN chains
                                       THEN <<entry("01"), entry("02")>>
                                       ELSE <<>>))},
           {chains[n] : n \in DOMAIN chains})

MCPartitionedCard ==
  LET one == "BOOT0" :> <<7>> @@ "BOOT1" :> <<8>> @@ "00" :> <<9, 10>>
               @@ "01" :> <<12>> @@ "02" :> <<>>
      two == "BOOT0" :> <<8>> @@ "BOOT1" :> <<7>> @@ "00" :> <<10, 9>>
      image(c) == MCImage(MCPathOf(<<4, 5>>), c, [n \in DOMAIN c |-> Len(c[n])],
                          {})
      v == MCSmallVolume(one)
      w == MCSmallVolume(two)
  IN [sectors |-> Partitioned(2, v, w),
      dirs    |-> 2 :> DirsOf(v) @@ (2 + v.boot.tsect) :> DirsOf(w),
      images  |-> 2 :> image(one) @@ (2 + v.boot.tsect) :> image(two)]

\* Blocks within a sector and across two, files and directories with a chain
\* and without; the last part is read-only.
MCExfatCard ==
  LET chains == "BOOT0" :> <<11>> @@ "BOOT1" :> <<12>> @@ "00" :> <<14, 15>>
                  @@ "01" :> <<17, 16>> @@ "02" :> <<18>>
      sizes == "BOOT0" :> 2 @@ "BOOT1" :> 1 @@ "00" :> 4 @@ "01" :> 3
                 @@ "02" :> 2
      whole(n) == n # "01"
      block(n) == [Block(n, chains[n][1], sizes[n], whole(n))
                     EXCEPT ![1].rdo = n = "02"]
      dirs ==
        {Dir(<<4, 5>>, <<Deleted, Deleted,
                         [MCEntry("bitmap", "") EXCEPT !.sclust = 2]>>
                         \o BlockDir("emu mmc", 6, 4, TRUE)),
         Dir(<<6, 7>>, Block("backup.bin", 19, 2, TRUE)
                         \o BlockDir("eMMC", 8, 8, FALSE)),
         Dir(<<8, 9, 10, 13>>, block("BOOT0") \o block("BOOT1") \o block("00")
                                 \o block("01") \o block("02"))}
      v == Exfat(2, dirs, {<<2, 3>>, <<4, 5>>, <<8, 9, 10, 13>>, chains["01"]})
  IN [sectors |-> OneVolume(v), dirs |-> 0 :> DirsOf(v),
      images  |-> 0 :> MCImage(<<Origin, [sclust |-> 6, size |-> 4, stat |-> 2],
                                 [sclust |-> 8, size |-> 8, stat |-> 0]>>,
                               chains, sizes, {"02"})]

\* A card that is not formatted.
MCBlankCard ==
  [sectors |-> 0 :> [kind |-> "data"], dirs |-> <<>>, images |-> <<>>]

MCCards == {MCFat32Card, MCPartitionedCard, MCExfatCard, MCBlankCard}

MCName(long, short, lossy) == [long |-> long, short |-> short, lossy |-> lossy]

MCPath == <<MCName("emu mmc", "EMUMMC", TRUE), MCName("eMMC", "EMMC", FALSE)>>
MCNames == <<MCName("BOOT0", "BOOT0", FALSE), MCName("BOOT1", "BOOT1", FALSE),
             MCName("00", "00", FALSE), MCName("01", "01", FALSE),
             MCName("02", "02", FALSE)>>

-----------------------------------------------------------------------------
\* The half that stands still has one initial state.
MCInit ==
  /\ half \in {"opening", "requests"} /\ Init /\ VolInit
  /\ half = "opening" =>
       LET im == CHOOSE im \in Images : TRUE
       IN chain = im.chain /\ size = im.size
  /\ half = "requests" => medium = MCBlankCard

MCNext ==
  /\ UNCHANGED half
  /\ \/ half = "opening" /\ VolNext /\ UNCHANGED vars
     \/ half = "requests" /\ Next /\ UNCHANGED volVars

MCSpec == MCInit /\ [][MCNext]_<<half, vars, volVars>> /\ WF_vars(InCall)
=============================================================================
