----------------------------- MODULE FatVolume ------------------------------
(***************************************************************************)
(* From an SD card to the open files of an eMMC image: f_mount, f_open,    *)
(* f_expand_cltbl, f_sync and f_close of FatFs (source/libs/fatfs/ff.c)    *)
(* under _file_based_emmc_initialize and _file_based_emmc_finalize         *)
(* (source/emuMMC/emummc.c).  All that FatFs reads of the volume goes      *)
(* through one window of one sector; each step is one use of the window.   *)
(* Every command of the card may fail, and the console may lose its power  *)
(* between any two of them, or stop in fatal_abort: the card is what is    *)
(* left.                                                                   *)
(*                                                                         *)
(* A card that can hold an eMMC image is formatted as FAT32 or as exFAT,   *)
(* and its directories are chains that end.  Sizes and offsets of files    *)
(* count in sectors, offsets in a directory in entries.  Times, and        *)
(* attributes other than directory and read-only, are left out.            *)
(***************************************************************************)
EXTENDS Integers, LinkMap

CONSTANTS
  Cards,      (* What may be on the card: [sectors, dirs, images], its     *)
              (* sectors and, for the first sector of each volume, the     *)
              (* chains of its directories and [path, chain, size,         *)
              (* readonly]: what the directories of Path stand for,        *)
              (* functions of the names of the files of the image there,   *)
              (* and which of them must not be written to.                 *)
  Path,       (* The directories that lead to the image, and               *)
  Names,      (* its files, BOOT0, BOOT1, 00 and so on: each is a          *)
              (* [long, short, lossy] as create_name makes it.             *)
  PerFat, PerSect,   (* The entries in a sector of the FAT, of a directory.*)
  CltblSize,  (* EMUMMC_FP_CLMT_COUNT                                      *)
  MaxWritten  (* Bound: the files that are ever written to.                *)

ASSUME PerAssumption   == {PerFat, PerSect, CltblSize} \subseteq Nat \ {0}
ASSUME NamesAssumption == Len(Path) \in Nat /\ Len(Names) \in Nat \ {0, 1, 2}
                           /\ DOMAIN Names = 1..Len(Names)

VARIABLES
  medium,     (* One of Cards.                                             *)
  card,       (* Its sectors as they are now.                              *)
  win,        (* The window: [sect, data, dirty] for winsect, win, wflag.  *)
  fs,         (* The rest of sd_fs.                                        *)
  at,         (* Where the call is, "idle" or "fatal".                     *)
  task,       (* What directory entries are read for: "find", "load" or    *)
              (* "store".                                                  *)
  file, level,       (* The file in hand, an index of Names, and the       *)
                     (* segment of its path.                               *)
  dj,         (* DIR: [sclust, size, stat, dptr, clust, sect, ord, sum].   *)
  dirbuf, blk_ofs,   (* The entries of an exFAT block that are loaded, and *)
                     (* where it begins.                                   *)
  left,       (* What a loop has still to do.                              *)
  fil,        (* The FILs, for each index of Names.                        *)
  parts,      (* f_emu.parts                                               *)
  closing,    (* _file_based_emmc_finalize is running.                     *)
  failed,     (* A command has failed since f_mount, and                   *)
  touched     (* the files that were ever to be synchronized (history).    *)

ioVars  == <<win, card, failed>>
dirVars == <<task, level, dj, dirbuf, blk_ofs>>
volVars == <<medium, ioVars, fs, at, file, dirVars, left, fil, parts, closing,
             touched>>

NoSector == -1

\* 0x0FFFFFFF, 0x7FFFFFFF or 0xFFFFFFFF, all past any cluster: the end of a
\* chain.
Eoc == -1

\* What the buffer holds of a sector that could not be read.
Garbage ==
  [kind |-> "garbage", fatent |-> [i \in 0..(PerFat - 1) |-> 0],
   dirent |-> [i \in 0..(PerSect - 1) |->
                 [type |-> "end", name |-> "", ord |-> 0, last |-> FALSE,
                  sum |-> <<>>, dir |-> FALSE, rdo |-> FALSE, sclust |-> 0,
                  size |-> 0, stat |-> 0]]]

NoFs == [fs_type |-> "none", volbase |-> 0, fatbase |-> 0, database |-> 0,
         csize |-> 1, n_fatent |-> 0, dirbase |-> 0]

\* An object with no clusters; with sclust 0, the root.
Origin == [sclust |-> 0, size |-> 0, stat |-> 0]

Closed == [open |-> FALSE, sclust |-> 0, size |-> 0, stat |-> 0, clust |-> 0,
           dir_sect |-> 0, dir_ptr |-> 0, container |-> Origin, c_ofs |-> 0,
           modified |-> FALSE, cltbl |-> <<>>]

Unset == [sclust |-> 0, size |-> 0, stat |-> 0, dptr |-> 0, clust |-> 0,
          sect |-> 0, ord |-> NoSector, sum |-> <<>>]

PowerOn ==
  /\ win = [sect |-> NoSector, data |-> Garbage, dirty |-> FALSE]
  /\ fs = NoFs /\ at = "idle" /\ task = "find" /\ file = 1 /\ level = 1
  /\ dj = Unset /\ dirbuf = <<>> /\ blk_ofs = 0 /\ left = 0
  /\ fil = [k \in DOMAIN Names |-> Closed] /\ parts = 0 /\ closing = FALSE
  /\ failed = FALSE

VolInit ==
  /\ medium \in Cards /\ card = medium.sectors /\ touched = {} /\ PowerOn

-----------------------------------------------------------------------------
(* The window                                                              *)

\* sync_window, when it succeeds; no sector of the FAT is ever written.
Flushed == IF win.dirty THEN [card EXCEPT ![win.sect] = win.data] ELSE card

\* Mutant of Lost: the window keeps the number of the sector.
LostKept(s) == [sect |-> s, data |-> Garbage, dirty |-> FALSE]

\* A sector that could not be read.
Lost(s) == [sect |-> NoSector, data |-> Garbage, dirty |-> FALSE]

\* The outcomes of move_window; ok is whether it returns FR_OK.
move_window(s) ==
  IF s = win.sect THEN {[ok |-> TRUE, win |-> win, card |-> card]}
  ELSE {[ok |-> TRUE, card |-> Flushed,
         win |-> [sect |-> s, data |-> Flushed[s], dirty |-> FALSE]],
        [ok |-> FALSE, card |-> Flushed, win |-> Lost(s)]}
       \cup (IF win.dirty THEN {[ok |-> FALSE, card |-> card, win |-> win]}
             ELSE {})

sync_window ==
  {[ok |-> TRUE, card |-> Flushed, win |-> [win EXCEPT !.dirty = FALSE]]}
    \cup (IF win.dirty THEN {[ok |-> FALSE, card |-> card, win |-> win]}
          ELSE {})

\* m comes about.
Comes(m) == win' = m.win /\ card' = m.card /\ failed' = (failed \/ ~m.ok)

\* With entry i of the window changed to e.
Edited(m, i, e) ==
  [m EXCEPT !.win.data.dirent[i] = e, !.win.dirty = TRUE]

clst2sect(f, clst) == f.database + f.csize * (clst - 2)

Fatal == at' = "fatal"

-----------------------------------------------------------------------------
(* f_mount                                                                 *)

Mount ==
  /\ at = "idle" /\ fs.fs_type = "none"
  /\ at' = "boot" /\ left' = 0 /\ failed' = FALSE
  /\ UNCHANGED <<medium, win, card, fs, file, dirVars, fil, parts, closing,
                 touched>>

\* The checks of a boot record.
Sound(b) ==
  IF b.kind = "exFAT"
  THEN /\ b.n_fats = 1 /\ b.csize > 0
       /\ b.tsect >= b.dataofs + b.nclst * b.csize
  ELSE /\ b.n_fats \in {1, 2} /\ b.csize \in {2 ^ i : i \in 0..7}
       /\ b.n_rootdir = 0 /\ b.nrsv > 0
       /\ b.tsect >= b.nrsv + b.fsize * b.n_fats + b.csize
       /\ b.fsize * PerFat >=
            (b.tsect - b.nrsv - b.fsize * b.n_fats) \div b.csize + 2

FromBoot(b, bsect) ==
  IF b.kind = "exFAT"
  THEN [fs_type |-> "exFAT", volbase |-> bsect, fatbase |-> bsect + b.fatofs,
        database |-> bsect + b.dataofs, csize |-> b.csize,
        n_fatent |-> b.nclst + 2, dirbase |-> b.root]
  ELSE LET sysect == b.nrsv + b.fsize * b.n_fats
       IN [fs_type |-> "FAT32", volbase |-> bsect,
           fatbase |-> bsect + b.nrsv, database |-> bsect + sysect,
           csize |-> b.csize,
           n_fatent |-> (b.tsect - sysect) \div b.csize + 2,
           dirbase |-> b.root]

\* Where to look for a volume: sector 0, then br[i], 0 for none.
Start(i) == IF i = 0 THEN 0 ELSE medium.sectors[0].br[i]

\* The next entry of the partition table.
NextPartition ==
  /\ IF left < 4 THEN at' = "boot" /\ left' = left + 1
     ELSE Fatal /\ UNCHANGED left
  /\ UNCHANGED fs

NoFat == Fatal /\ UNCHANGED <<left, fs>>

\* What find_volume makes of a sector that check_fs could read.
Analysed(b, bsect) ==
  IF b.kind \in {"FAT32", "exFAT"}
  THEN IF Sound(b)
       THEN /\ fs' = FromBoot(b, bsect) /\ left' = 0
            /\ at' = IF b.kind = "exFAT" THEN "bitmap" ELSE "fsinfo"
       ELSE NoFat
  ELSE IF left = 0 /\ b.kind # "mbr" THEN NoFat ELSE NextPartition

\* check_fs invalidates the window.  A partition that cannot be read is passed
\* over like one that is not FAT.
CheckFs ==
  /\ at = "boot"
  /\ LET bsect == Start(left)
         read == [sect |-> bsect, data |-> card[bsect], dirty |-> FALSE]
     IN IF left > 0 /\ bsect = 0 THEN NextPartition /\ UNCHANGED ioVars
        ELSE \/ /\ Comes([ok |-> TRUE, win |-> read, card |-> card])
                /\ Analysed(card[bsect], bsect)
             \/ /\ Comes([ok |-> FALSE, win |-> Lost(bsect), card |-> card])
                /\ IF left = 0 THEN NoFat ELSE NextPartition
  /\ UNCHANGED <<medium, file, dirVars, fil, parts, closing, touched>>

Clusters(f) == 2..(f.n_fatent - 1)

\* The allocation bitmap is looked for in the first cluster of the root.
Bitmap ==
  /\ at = "bitmap"
  /\ IF left >= fs.csize THEN Fatal /\ UNCHANGED <<ioVars, left>>
     ELSE \E m \in move_window(clst2sect(fs, fs.dirbase) + left) :
            /\ Comes(m)
            /\ LET here == {i \in DOMAIN m.win.data.dirent :
                              m.win.data.dirent[i].type = "bitmap"}
               IN \/ ~m.ok /\ Fatal /\ UNCHANGED left
                  \/ m.ok /\ here = {} /\ left' = left + 1 /\ UNCHANGED at
                  \/ m.ok /\ \E i \in here :
                       LET bcl == m.win.data.dirent[i].sclust
                       IN IF bcl \in Clusters(fs)
                          THEN at' = "bitmapChain" /\ left' = bcl
                          ELSE Fatal /\ UNCHANGED left
  /\ UNCHANGED <<medium, fs, file, dirVars, fil, parts, closing, touched>>

FatSector(clst) == fs.fatbase + clst \div PerFat

\* At the first entry of the directory obj.
dir_sdi(obj) ==
  LET clst == IF obj.sclust = 0 THEN fs.dirbase ELSE obj.sclust
  IN [sclust |-> obj.sclust, size |-> obj.size, dptr |-> 0, clust |-> clst,
      stat |-> IF obj.sclust = 0 THEN 0 ELSE obj.stat,
      sect |-> clst2sect(fs, clst), ord |-> NoSector, sum |-> <<>>]

\* f_open of Names[k], up to the search for the first segment of its path.
Open(k) ==
  /\ at' = "entry" /\ file' = k /\ level' = 1 /\ task' = "find"
  /\ dj' = dir_sdi(Origin) /\ dirbuf' = <<>> /\ UNCHANGED blk_ofs

\* The bitmap has to be contiguous.
BitmapChain ==
  /\ at = "bitmapChain"
  /\ \E m \in move_window(FatSector(left)) :
       /\ Comes(m)
       /\ LET cv == IF m.ok THEN m.win.data.fatent[left % PerFat] ELSE 0
          IN IF cv = Eoc THEN Open(1) /\ UNCHANGED left
             ELSE /\ IF cv = left + 1 THEN left' = cv /\ UNCHANGED at
                     ELSE Fatal /\ UNCHANGED left
                  /\ UNCHANGED <<file, dirVars>>
  /\ UNCHANGED <<medium, fs, fil, parts, closing, touched>>

\* FSINFO is read if it can be.
FsInfo ==
  /\ at = "fsinfo"
  /\ \E m \in move_window(fs.volbase + 1) : Comes(m)
  /\ Open(1)
  /\ UNCHANGED <<medium, fs, left, fil, parts, closing, touched>>

-----------------------------------------------------------------------------
(* Chains                                                                  *)

\* An exFAT object that is marked contiguous has no chain in the FAT.
Contiguous(obj) == fs.fs_type = "exFAT" /\ obj.stat = 2

\* What is computed for cluster clst of a contiguous object; 1 is an error.
Computed(obj, clst) ==
  LET cofs == clst - obj.sclust
      clen == (obj.size - 1) \div fs.csize
  IN IF cofs = clen THEN Eoc ELSE IF cofs < clen THEN clst + 1 ELSE 1

\* get_fat of cluster clst of obj: the outcomes, each with its value.
get_fat(obj, clst) ==
  IF clst \notin Clusters(fs) \/ Contiguous(obj)
  THEN {[ok |-> TRUE, win |-> win, card |-> card,
         val |-> IF clst \in Clusters(fs) THEN Computed(obj, clst) ELSE 1]}
  ELSE {[ok |-> m.ok, win |-> m.win, card |-> m.card,
         val |-> IF m.ok THEN m.win.data.fatent[clst % PerFat] ELSE 0] :
          m \in move_window(FatSector(clst))}

\* It is another cluster, or the end of the chain.
IsCluster(g) == g.ok /\ g.val \in Clusters(fs)
IsEnd(g)     == g.ok /\ (g.val = Eoc \/ g.val >= fs.n_fatent)

-----------------------------------------------------------------------------
(* A card that is formatted                                                *)

Volumes(c) ==
  {b \in DOMAIN c.sectors :
     c.sectors[b].kind \in {"FAT32", "exFAT"} /\ Sound(c.sectors[b])}

VolumeOf(c, b) == FromBoot(c.sectors[b], b)

\* The entries of a cluster; where entry n of the directory with chain ch is.
PerCluster(f) == PerSect * f.csize

Entries(f, ch) == 0..(PerCluster(f) * Len(ch) - 1)

SectorOf(f, ch, n) ==
  clst2sect(f, ch[n \div PerCluster(f) + 1]) + (n % PerCluster(f)) \div PerSect

EntryOf(c, f, ch, n) == c.sectors[SectorOf(f, ch, n)].dirent[n % PerSect]

\* ch is the chain of the directory obj, in the FAT or without it.
IsChain(c, f, ch, obj) ==
  /\ ch[1] = IF obj.sclust = 0 THEN f.dirbase ELSE obj.sclust
  /\ IF f.fs_type = "exFAT" /\ obj.sclust # 0 /\ obj.stat = 2
     THEN /\ (obj.size - 1) \div f.csize = Len(ch) - 1
          /\ \A i \in 1..Len(ch) : ch[i] = obj.sclust + i - 1
     ELSE \A i \in 1..Len(ch) :
            LET s == f.fatbase + ch[i] \div PerFat
            IN /\ s \in DOMAIN c.sectors /\ c.sectors[s].kind = "fat"
               /\ c.sectors[s].fatent[ch[i] % PerFat]
                    = IF i = Len(ch) THEN Eoc ELSE ch[i + 1]

IsDirectory(c, b, obj) ==
  \E ch \in c.dirs[b] : IsChain(c, VolumeOf(c, b), ch, obj)

EntryFields ==
  {"type", "name", "ord", "last", "sum", "dir", "rdo", "sclust", "size", "stat"}

\* Entry n of a directory is in a sector of entries.  If it stands for another
\* directory, that has a chain; a block has three entries at least, and its first
\* one tells whether it is a directory's.
SoundEntry(c, b, ch, n) ==
  LET f == VolumeOf(c, b)
      s == SectorOf(f, ch, n)
      e == EntryOf(c, f, ch, n)
  IN /\ s \in DOMAIN c.sectors /\ c.sectors[s].kind = "dir"
     /\ DOMAIN c.sectors[s] = {"kind", "dirent"}
     /\ DOMAIN c.sectors[s].dirent = 0..(PerSect - 1)
     /\ \A i \in 0..(PerSect - 1) : DOMAIN c.sectors[s].dirent[i] = EntryFields
     /\ e.type = "short" /\ e.dir =>
          IsDirectory(c, b, [sclust |-> e.sclust, size |-> e.size, stat |-> 0])
     /\ e.type = "stream" => ~e.dir
     /\ e.type = "filedir" => e.ord \in Nat \ {0, 1, 2}
     /\ e.type = "filedir" /\ e.dir =>
          LET stream == EntryOf(c, f, ch, n + 1)
          IN /\ n + 1 \in Entries(f, ch)
             /\ IsDirectory(c, b, [sclust |-> stream.sclust, size |-> stream.size,
                                   stat |-> stream.stat])

\* Where the directories of a card have their entries.
Places(c) ==
  UNION {UNION {{<<b, ch, n>> : n \in Entries(VolumeOf(c, b), ch)} :
                  ch \in c.dirs[b]} : b \in Volumes(c)}

PlaceOf(c, p) ==
  <<SectorOf(VolumeOf(c, p[1]), p[2], p[3]), p[3] % PerSect>>

\* What FatFs takes for granted of a volume: the chains of its directories end,
\* and no cluster belongs to two of them.
Formatted(c) ==
  /\ DOMAIN c.sectors \subseteq Nat /\ 0 \in DOMAIN c.sectors
  /\ c.sectors[0].kind = "mbr" =>
       \A i \in 1..4 : c.sectors[0].br[i] \in DOMAIN c.sectors
  /\ \A b \in Volumes(c) :
       LET f == VolumeOf(c, b)
       IN /\ f.csize \in Nat \ {0} /\ f.database \in Nat /\ f.n_fatent \in Nat
          /\ c.dirs[b] \subseteq Seq(Nat) \ {<<>>} /\ IsDirectory(c, b, Origin)
          /\ \A ch \in c.dirs[b] : \A n \in Entries(f, ch) : SoundEntry(c, b, ch, n)
  /\ \A p, q \in Places(c) : PlaceOf(c, p) = PlaceOf(c, q) => p = q

ASSUME CardsAssumption == \A c \in Cards : Formatted(c)

-----------------------------------------------------------------------------
(* The end of a call                                                       *)

\* f_emu.parts when the file of this index is the first that does not open.
PartsAt(k) == IF k = 4 THEN 0 ELSE k - 3

\* The variables of a call are gone when it returns.
Returned ==
  /\ task' = "find" /\ level' = 1 /\ dj' = Unset /\ dirbuf' = <<>>
  /\ blk_ofs' = 0 /\ left' = 0

\* f_open fails, whatever the reason: for BOOT0, BOOT1 and 00 that is fatal, for
\* a later part the image ends there.
OpenFails ==
  /\ IF file <= 3 THEN Fatal /\ UNCHANGED parts
     ELSE at' = "idle" /\ parts' = PartsAt(file)
  /\ fil' = [fil EXCEPT ![file] = Closed] /\ file' = 1 /\ Returned

\* f_sync returns, to f_write_fast or to f_close.
SyncReturns ==
  /\ IF closing THEN at' = "close" /\ file' = file + 1
     ELSE at' = "idle" /\ file' = 1
  /\ Returned /\ UNCHANGED parts

\* A directory cannot be read, or ends.
DirFails == IF task = "find" THEN OpenFails ELSE SyncReturns /\ UNCHANGED fil

-----------------------------------------------------------------------------
(* Directories                                                             *)

\* dir_next within a cluster
Stepped(d) ==
  [d EXCEPT !.dptr = @ + 1,
            !.sect = IF (d.dptr + 1) % PerSect = 0 THEN @ + 1 ELSE @]

\* The directory goes on behind the entry that d stands at.
dir_next(d) ==
  IF (d.dptr + 1) % (PerSect * fs.csize) = 0 THEN at' = "next" /\ dj' = d
  ELSE at' = "entry" /\ dj' = Stepped(d)

\* dir_next into the next cluster
NextCluster ==
  /\ at = "next"
  /\ \E g \in get_fat(dj, dj.clust) :
       /\ Comes(g)
       /\ IF IsCluster(g)
          THEN /\ at' = "entry"
               /\ dj' = [dj EXCEPT !.dptr = @ + 1, !.clust = g.val,
                                   !.sect = clst2sect(fs, g.val)]
               /\ UNCHANGED <<file, task, level, dirbuf, blk_ofs, left, fil,
                              parts>>
          ELSE DirFails
  /\ UNCHANGED <<medium, fs, closing, touched>>

\* Segment i of the path of Names[k].
SegmentOf(i, k) == IF i <= Len(Path) THEN Path[i] ELSE Names[k]

Segment == SegmentOf(level, file)

\* follow_path goes on in the directory obj.
EnterDirectory(obj) ==
  /\ at' = "entry" /\ level' = level + 1 /\ dj' = dir_sdi(obj)
  /\ dirbuf' = <<>>
  /\ UNCHANGED <<file, task, blk_ofs, left, fil, parts>>

\* f_open has its file, with the place of its entry and its directory.
Opened(obj, sect) ==
  /\ at' = "expand" /\ left' = obj.size
  /\ fil' = [fil EXCEPT ![file] =
       [Closed EXCEPT !.open = TRUE, !.sclust = obj.sclust, !.size = obj.size,
                      !.stat = obj.stat, !.clust = obj.sclust,
                      !.dir_sect = sect, !.dir_ptr = dj.dptr % PerSect,
                      !.container = [sclust |-> dj.sclust, size |-> dj.size,
                                     stat |-> dj.stat],
                      !.c_ofs = blk_ofs]]
  /\ UNCHANGED <<file, dirVars, parts>>

\* A name of the path is that of obj, whose entry or block begins with e.  The
\* files are opened for reading and writing.
Found(obj, e, sect) ==
  IF level <= Len(Path) /\ e.dir THEN EnterDirectory(obj)
  ELSE IF level > Len(Path) /\ ~e.dir /\ ~e.rdo THEN Opened(obj, sect)
  ELSE DirFails

\* Mutant of Unordered: the sequence is not reset.
UnorderedKept(d) == d

\* ord = 0xFF: no sequence of long name entries is under way.
Unordered(d) == [d EXCEPT !.ord = NoSector]

\* A long name is that of its entries, one of which stands for them all.
cmp_lfn(e) == e.name = Segment.long

\* A checksum stands for what it sums up: that of a short name for the name,
sum_sfn(e) == <<e.name>>

\* and that of a block for its stream entry, the only one that ever changes.
xdir_sum(block) == <<block[2].sclust, block[2].size, block[2].stat>>

\* A long name entry starts a sequence, carries on with it, or breaks it.
LongNameSeen(e) ==
  LET ord == IF e.last THEN e.ord ELSE dj.ord
      sum == IF e.last THEN e.sum ELSE dj.sum
  IN [dj EXCEPT !.sum = sum,
                !.ord = IF e.ord = ord /\ e.sum = sum /\ cmp_lfn(e)
                        THEN ord - 1 ELSE NoSector]

ShortNameMatches(e) ==
  \/ dj.ord = 0 /\ dj.sum = sum_sfn(e)
  \/ ~Segment.lossy /\ e.name = Segment.short

\* dir_find on FAT32, an entry.
FatEntry ==
  /\ at = "entry" /\ fs.fs_type = "FAT32"
  /\ \E m \in move_window(dj.sect) :
       /\ Comes(m)
       /\ LET e == m.win.data.dirent[dj.dptr % PerSect]
              match == e.type = "short" /\ ShortNameMatches(e)
          IN IF ~m.ok \/ e.type = "end" THEN DirFails
             ELSE IF match
             THEN Found([sclust |-> e.sclust, size |-> e.size, stat |-> 0],
                        e, m.win.sect)
             ELSE /\ dir_next(IF e.type = "long" THEN LongNameSeen(e)
                              ELSE Unordered(dj))
                  /\ UNCHANGED <<file, task, level, dirbuf, blk_ofs, left, fil,
                                 parts>>
  /\ UNCHANGED <<medium, fs, closing, touched>>

ObjectOf(block) == [sclust |-> block[2].sclust, size |-> block[2].size,
                    stat |-> block[2].stat]

InOrder(e, n) ==
  e.type = (IF n = 1 THEN "filedir" ELSE IF n = 2 THEN "stream" ELSE "filename")

\* f_sync brings the block up to date and stores it from its beginning.
Update(block) ==
  LET new == [block EXCEPT ![2].stat = fil[file].stat,
                           ![2].sclust = fil[file].sclust,
                           ![2].size = fil[file].size]
  IN [new EXCEPT ![1].sum = xdir_sum(new)]

Restore(block) ==
  /\ dirbuf' = Update(block) /\ task' = "store" /\ left' = 1
  /\ dj' = dir_sdi(fil[file].container) /\ at' = "seek"
  /\ UNCHANGED <<file, level, blk_ofs, fil, parts>>

\* load_xdir has the whole block; dir_find compares its name, f_sync changes it.
BlockLoaded(block, sect) ==
  IF block[1].sum # xdir_sum(block) THEN DirFails
  ELSE IF task = "load" THEN Restore(block)
  ELSE IF block[3].name = Segment.long
  THEN Found(ObjectOf(block), block[1], sect)
  ELSE /\ dirbuf' = <<>> /\ dir_next(dj)
       /\ UNCHANGED <<file, task, level, blk_ofs, left, fil, parts>>

\* dir_read and load_xdir on exFAT, an entry.
ExfatEntry ==
  /\ at = "entry" /\ fs.fs_type = "exFAT" /\ task # "store"
  /\ \E m \in move_window(dj.sect) :
       /\ Comes(m)
       /\ LET e == m.win.data.dirent[dj.dptr % PerSect]
              block == Append(dirbuf, e)
              between == dirbuf = <<>> /\ task = "find" /\ e.type # "filedir"
          IN IF ~m.ok \/ (between /\ e.type = "end")
                \/ (~between /\ ~InOrder(e, Len(block))) THEN DirFails
             ELSE IF Len(block) > 1 /\ Len(block) = block[1].ord
             THEN BlockLoaded(block, m.win.sect)
             ELSE /\ dir_next(dj)
                  /\ dirbuf' = IF between THEN <<>> ELSE block
                  /\ blk_ofs' = IF dirbuf = <<>> /\ ~between THEN dj.dptr
                                ELSE blk_ofs
                  /\ UNCHANGED <<file, task, level, left, fil, parts>>
  /\ UNCHANGED <<medium, fs, closing, touched>>

\* dir_sdi on the way to the entry blk_ofs.
SeekBlock ==
  /\ at = "seek"
  /\ LET per == PerSect * fs.csize
         rest == blk_ofs - dj.dptr
     IN IF rest >= per
        THEN \E g \in get_fat(dj, dj.clust) :
               /\ Comes(g)
               /\ IF IsCluster(g)
                  THEN /\ dj' = [dj EXCEPT !.dptr = @ + per, !.clust = g.val,
                                           !.sect = clst2sect(fs, g.val)]
                       /\ UNCHANGED <<at, file, task, level, dirbuf, blk_ofs,
                                      left, fil, parts>>
                  ELSE DirFails
        ELSE /\ dj' = [dj EXCEPT !.dptr = blk_ofs, !.sect = @ + rest \div PerSect]
             /\ at' = "entry"
             /\ UNCHANGED <<ioVars, file, task, level, dirbuf, blk_ofs, left,
                            fil, parts>>
  /\ UNCHANGED <<medium, fs, closing, touched>>

-----------------------------------------------------------------------------
(* f_expand_cltbl.  A command that fails leaves the error with the FIL, and
   there is no table.                                                      *)

\* f_lseek to the end of the file follows its chain, which is long enough.
Expand ==
  /\ at = "expand"
  /\ IF left <= fs.csize
     THEN /\ at' = "linkmap" /\ UNCHANGED <<ioVars, left>>
          /\ fil' = [fil EXCEPT ![file].clust = fil[file].sclust]
     ELSE \E g \in get_fat(fil[file], fil[file].clust) :
            /\ Comes(g)
            /\ IF IsCluster(g)
               THEN /\ fil' = [fil EXCEPT ![file].clust = g.val]
                    /\ left' = left - fs.csize /\ UNCHANGED at
               ELSE Fatal /\ UNCHANGED <<fil, left>>
  /\ UNCHANGED <<medium, fs, file, dirVars, parts, closing, touched>>

\* The file in hand has its table: on to the next, if there is one.
NextFile ==
  IF file = Len(Names)
  THEN at' = "idle" /\ parts' = file - 2 /\ file' = 1 /\ Returned
  ELSE Open(file + 1) /\ UNCHANGED <<left, parts>>

Unmapped == Fatal /\ UNCHANGED <<file, dirVars, left, fil, parts>>

\* The table is complete, and short enough.
Mapped(tbl) ==
  IF 2 + 2 * Len(tbl) <= CltblSize
  THEN fil' = [fil EXCEPT ![file].cltbl = tbl] /\ NextFile
  ELSE Unmapped

\* f_lseek(fp, CREATE_LINKMAP), a cluster; an empty file has none.
CreateLinkmap ==
  /\ at = "linkmap"
  /\ LET f == fil[file]
         tbl == Extend(f.cltbl, f.clust)
     IN IF f.sclust = 0 THEN Mapped(<<>>) /\ UNCHANGED ioVars
        ELSE \E g \in get_fat(f, f.clust) :
          /\ Comes(g)
          /\ IF IsCluster(g)
             THEN /\ fil' = [fil EXCEPT ![file].cltbl = tbl,
                                        ![file].clust = g.val]
                  /\ UNCHANGED <<at, file, dirVars, left, parts>>
             ELSE IF IsEnd(g) THEN Mapped(tbl)
             ELSE Unmapped
  /\ UNCHANGED <<medium, fs, closing, touched>>

-----------------------------------------------------------------------------
(* f_write and f_sync, of f_write_fast inside a cluster; f_close           *)

\* A write may make the file longer, up to the end of its last cluster.
Full(f) == fs.csize * ((f.size + fs.csize - 1) \div fs.csize)

Write ==
  /\ at = "idle" /\ fs.fs_type # "none"
  /\ \E k \in DOMAIN Names :
       /\ fil[k].open /\ Cardinality(touched \cup {k}) <= MaxWritten
       /\ \E size \in {fil[k].size, Full(fil[k])} :
            fil' = [fil EXCEPT ![k].modified = TRUE, ![k].size = size]
       /\ file' = k /\ touched' = touched \cup {k}
  /\ at' = "sync"
  /\ UNCHANGED <<medium, ioVars, fs, dirVars, left, parts, closing>>

\* f_sync on FAT32: the entry, by its place.
SyncFat ==
  /\ at = "sync" /\ fs.fs_type = "FAT32"
  /\ \E m \in move_window(fil[file].dir_sect) :
       LET i == fil[file].dir_ptr
           e == m.win.data.dirent[i]
       IN IF m.ok
          THEN /\ Comes(Edited(m, i, [e EXCEPT !.sclust = fil[file].sclust,
                                              !.size = fil[file].size]))
               /\ at' = "syncFs" /\ UNCHANGED <<file, dirVars, left, parts>>
          ELSE Comes(m) /\ SyncReturns
  /\ UNCHANGED <<medium, fs, fil, closing, touched>>

\* On exFAT: the block is loaded, by the directory that it is in.
SyncExfat ==
  /\ at = "sync" /\ fs.fs_type = "exFAT"
  /\ at' = "seek" /\ task' = "load" /\ dj' = dir_sdi(fil[file].container)
  /\ blk_ofs' = fil[file].c_ofs /\ dirbuf' = <<>>
  /\ UNCHANGED <<medium, ioVars, fs, file, level, left, fil, parts, closing,
                 touched>>

\* store_xdir, an entry.
StoreXdir ==
  /\ at = "entry" /\ task = "store"
  /\ \E m \in move_window(dj.sect) :
       IF ~m.ok THEN Comes(m) /\ DirFails
       ELSE /\ Comes(Edited(m, dj.dptr % PerSect, dirbuf[left]))
            /\ IF left = Len(dirbuf) THEN at' = "syncFs" /\ UNCHANGED <<dj, left>>
               ELSE dir_next(dj) /\ left' = left + 1
            /\ UNCHANGED <<file, task, level, dirbuf, blk_ofs, fil, parts>>
  /\ UNCHANGED <<medium, fs, closing, touched>>

\* The file counts as unmodified even if this fails.
SyncFs ==
  /\ at = "syncFs"
  /\ \E m \in sync_window : Comes(m)
  /\ fil' = [fil EXCEPT ![file].modified = FALSE] /\ SyncReturns
  /\ UNCHANGED <<medium, fs, closing, touched>>

\* _file_based_emmc_finalize
Finalize ==
  /\ at = "idle" /\ fs.fs_type # "none"
  /\ at' = "close" /\ closing' = TRUE /\ file' = 1
  /\ UNCHANGED <<medium, ioVars, fs, dirVars, left, fil, parts, touched>>

\* f_close of BOOT0, BOOT1 and the parts; then f_mount(NULL), which makes every
\* FIL invalid.
Close ==
  /\ at = "close"
  /\ IF file <= 2 + parts
     THEN /\ UNCHANGED <<fs, fil, closing>>
          /\ IF fil[file].modified THEN at' = "sync" /\ UNCHANGED file
             ELSE file' = file + 1 /\ UNCHANGED at
     ELSE /\ fs' = NoFs /\ fil' = [k \in DOMAIN Names |-> Closed]
          /\ closing' = FALSE /\ at' = "idle" /\ file' = 1
  /\ UNCHANGED <<medium, ioVars, dirVars, left, parts, touched>>

-----------------------------------------------------------------------------
\* The console loses its power, or is switched off after a fatal_abort.
PowerLoss ==
  /\ win' = Lost(NoSector) /\ fs' = NoFs /\ at' = "idle" /\ task' = "find"
  /\ file' = 1 /\ level' = 1 /\ dj' = Unset /\ dirbuf' = <<>> /\ blk_ofs' = 0
  /\ left' = 0 /\ fil' = [k \in DOMAIN Names |-> Closed] /\ parts' = 0
  /\ closing' = FALSE /\ failed' = FALSE
  /\ UNCHANGED <<medium, card, touched>>

VolNext ==
  \/ Mount \/ CheckFs \/ Bitmap \/ BitmapChain \/ FsInfo
  \/ FatEntry \/ ExfatEntry \/ NextCluster \/ SeekBlock
  \/ Expand \/ CreateLinkmap
  \/ Write \/ SyncFat \/ SyncExfat \/ StoreXdir \/ SyncFs
  \/ Finalize \/ Close \/ PowerLoss

VolSpec == VolInit /\ [][VolNext]_volVars

-----------------------------------------------------------------------------
(* What the names on a card stand for                                      *)

PlacesOf(c, b) == {p \in Places(c) : p[1] = b}

\* The entry p of a directory has the name x: on FAT32 it has the short name, or
\* that name behind the long one; on exFAT it begins a block with the name.
HasName(c, p, x) ==
  LET e(i) == EntryOf(c, VolumeOf(c, p[1]), p[2], p[3] + i)
  IN \/ e(0).type = "short" /\ ~x.lossy /\ e(0).name = x.short
     \/ /\ e(0).type = "short" /\ p[3] > 0 /\ e(-1).type = "long"
        /\ e(-1).name = x.long /\ e(-1).sum = sum_sfn(e(0))
     \/ e(0).type = "filedir" /\ e(2).name = x.long

\* It has it in the form in which it is found: nothing before it ends the
\* directory, and a long name is complete and in order.
IsListed(c, p, x) ==
  LET f    == VolumeOf(c, p[1])
      e(i) == EntryOf(c, f, p[2], p[3] + i)
      Long(i, m) == /\ e(-i).type = "long" /\ e(-i).name = x.long
                    /\ e(-i).sum = sum_sfn(e(0))
                    /\ e(-i).ord = i /\ (e(-i).last <=> i = m)
  IN /\ \A i \in 1..p[3] : e(-i).type # "end"
     /\ IF f.fs_type = "exFAT" THEN e(0).type = "filedir" /\ e(2).name = x.long
        ELSE /\ e(0).type = "short"
             /\ \/ ~x.lossy /\ e(0).name = x.short
                \/ \E m \in 1..p[3] : \A i \in 1..m : Long(i, m)

IsDirAt(c, p) == EntryOf(c, VolumeOf(c, p[1]), p[2], p[3]).dir

IsReadOnlyAt(c, p) == EntryOf(c, VolumeOf(c, p[1]), p[2], p[3]).rdo

ObjectAt(c, p) ==
  LET e(i) == EntryOf(c, VolumeOf(c, p[1]), p[2], p[3] + i)
      stream == e(0).type = "filedir"
      of == IF stream THEN e(1) ELSE e(0)
  IN [sclust |-> of.sclust, size |-> of.size,
      stat |-> IF stream THEN of.stat ELSE 0]

\* p is in the directory obj.
IsIn(c, p, obj) == IsChain(c, VolumeOf(c, p[1]), p[2], obj)

\* The file of that name of the image im is obj.
IsFile(c, b, im, name, obj) ==
  LET f == VolumeOf(c, b)
      ch == im.chain[name]
  IN /\ name \in DOMAIN im.chain /\ ch \in Seq(Clusters(f))
     /\ obj.size = im.size[name] /\ obj.size \in 0..(f.csize * Len(ch))
     /\ IF obj.sclust = 0 THEN ch = <<>>
        ELSE ch # <<>> /\ IsChain(c, f, ch, obj)

\* The path leads along im.path, and the names to the files of the image.
LeadsTo(c, b, im) ==
  /\ Len(im.path) \in 1..(Len(Path) + 1) /\ im.path[1] = Origin
  /\ \A i \in 1..Len(im.path) : im.path[i].sclust = 0 => im.path[i].stat = 0
  /\ \A p \in PlacesOf(c, b), i \in 1..Len(im.path), k \in DOMAIN Names :
       IsIn(c, p, im.path[i]) /\ HasName(c, p, SegmentOf(i, k)) =>
         IF IsDirAt(c, p)
         THEN i <= Len(Path) =>
                i < Len(im.path) /\ im.path[i + 1] = ObjectAt(c, p)
         ELSE i > Len(Path) =>
                /\ IsFile(c, b, im, Names[k].long, ObjectAt(c, p))
                /\ IsReadOnlyAt(c, p) <=> Names[k].long \in im.readonly

\* Every file of the image is listed, and so are the directories on the way; no
\* two entries have one name.
IsComplete(c, b, im) ==
  /\ \A k \in DOMAIN Names : Names[k].long \in DOMAIN im.chain =>
       /\ Len(im.path) = Len(Path) + 1
       /\ \A i \in 1..Len(im.path) : \A ch \in c.dirs[b] :
            IsChain(c, VolumeOf(c, b), ch, im.path[i]) =>
              \E p \in PlacesOf(c, b) :
                /\ p[2] = ch /\ IsListed(c, p, SegmentOf(i, k))
                /\ IsDirAt(c, p) <=> i <= Len(Path)
  /\ \A p, q \in PlacesOf(c, b), i \in 1..Len(im.path), k \in DOMAIN Names :
       /\ p[2] = q[2]
       /\ HasName(c, p, SegmentOf(i, k)) /\ HasName(c, q, SegmentOf(i, k))
       => p = q

\* Chains consist of clusters, blocks of their entries.
IsOrderly(c, b) ==
  /\ c.dirs[b] \subseteq Seq(Clusters(VolumeOf(c, b)))
  /\ \A p \in PlacesOf(c, b) :
       LET f == VolumeOf(c, b)
           e(i) == EntryOf(c, f, p[2], p[3] + i)
       IN /\ e(0).type \in {"short", "stream"} => e(0).size \in Nat
          /\ e(0).type = "filedir" => \A i \in 1..e(0).ord :
               p[3] + i - 1 \in Entries(f, p[2]) /\ InOrder(e(i - 1), i)

\* What the image of a card is.
ASSUME ImagesAssumption ==
  \A c \in Cards : \A b \in Volumes(c) :
    /\ LeadsTo(c, b, c.images[b]) /\ IsComplete(c, b, c.images[b])
    /\ IsOrderly(c, b)

-----------------------------------------------------------------------------
(* Properties                                                              *)

Image == medium.images[fs.volbase]

\* Every block of an exFAT directory has the checksum of its entries: no part of
\* one was stored without the rest.
Whole ==
  fs.fs_type = "exFAT" =>
    \A p \in PlacesOf(medium, fs.volbase) :
      LET e(i) == EntryOf([sectors |-> card], fs, p[2], p[3] + i)
      IN e(0).type = "filedir" => e(0).sum = xdir_sum(<<e(0), e(1)>>)

\* The volume that is to be mounted: the first of the card.
FirstVolume(b) ==
  LET IsBoot(s) == medium.sectors[s].kind \in {"FAT32", "exFAT"}
      br == medium.sectors[0].br
  IN IF IsBoot(0) THEN b = 0
     ELSE \E i \in 1..4 : /\ b = br[i] /\ b # 0
                          /\ \A j \in 1..(i - 1) : br[j] # 0 => ~IsBoot(br[j])

\* Files that can be opened for writing.
Writable == DOMAIN Image.chain \ Image.readonly

\* A file that is open is the one that its name stands for on the volume that is
\* mounted, it may be written to, and its table is its chain.
IsNamed(k) ==
  LET name == Names[k].long
      f == fil[k]
  IN /\ name \in Writable
     /\ \A i \in 0..Len(Image.chain[name]) :
          clmt_clust(f.cltbl, i) =
            IF i < Len(Image.chain[name]) THEN Image.chain[name][i + 1] ELSE 0
     /\ f.size \in Image.size[name]..(fs.csize * Len(Image.chain[name]))

\* The parts from 00 on up to the first one that is missing or read-only: the code
\* takes any failure of f_open for what "stop if next doesn't exist" says
\* (emummc.c, 206 and 211).
PartsInARow ==
  {k \in 3..Len(Names) : \A j \in 3..k : Names[j].long \in Writable}

\* Whatever has failed, the files of a mounted image are the right ones of one of
\* the card's volumes; and when no command has failed since f_mount, it is the
\* first volume and, if no block of the directory is torn, no part of the row is
\* left out (emummc.c, 205 to 222; ff.c, 2455 to 2495, 3043, 3298, 3690).
MountedIsImage ==
  at = "idle" /\ fs.fs_type # "none" =>
    LET n == IF parts = 0 THEN 1 ELSE parts
    IN /\ \A k \in 1..(2 + n) : fil[k].open /\ IsNamed(k)
       /\ ~failed => FirstVolume(fs.volbase)
       /\ ~failed /\ Whole => 3..(2 + n) = PartsInARow

\* The entry p of a directory belongs to file k: it has the name or, on exFAT, is
\* the stream entry of a block with the name.
BelongsTo(c, p, k) ==
  LET e(i) == EntryOf(c, VolumeOf(c, p[1]), p[2], p[3] + i)
  IN ~e(0).dir /\
     \/ HasName(c, p, Names[k])
     \/ /\ e(0).type = "stream" /\ p[3] > 0 /\ e(-1).type = "filedir"
        /\ ~e(-1).dir /\ e(1).name = Names[k].long

\* Entry i of sector s is one of the files ks.
MayChange(c, ks, s, i) ==
  \E p \in Places(c) :
    PlaceOf(c, p) = <<s, i>> /\ \E k \in ks : BelongsTo(c, p, k)

\* But for the size or, on exFAT, the checksum, new is old.
SameFile(new, old) ==
  \/ old.type \in {"short", "stream"} /\ new = [old EXCEPT !.size = new.size]
  \/ old.type = "filedir" /\ new = [old EXCEPT !.sum = new.sum]

\* No failure and no loss of power, at whatever point, lets f_sync change
\* anything on the card but the size (and the checksum) in the entries of the
\* files that were written to (ff.c, 1081 to 1103 and 4254 to 4320).
OthersKept ==
  \A s \in DOMAIN card :
    /\ card[s].kind = medium.sectors[s].kind
    /\ card[s].kind = "dir" =>
         \A i \in 0..(PerSect - 1) :
           LET old == medium.sectors[s].dirent[i]
               new == card[s].dirent[i]
           IN \/ new = old
              \/ SameFile(new, old) /\ MayChange(medium, touched, s, i)
    /\ card[s].kind # "dir" => card[s] = medium.sectors[s]
=============================================================================
