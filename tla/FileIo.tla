-------------------------------- MODULE FileIo -------------------------------
(***************************************************************************)
(* An eMMC partition that is kept in files on the SD card: the file part   *)
(* of emummc_read_write_inner (source/emuMMC/emummc.c), over f_lseek,      *)
(* f_read_fast and f_write_fast (source/libs/fatfs/ff.c).                  *)
(*                                                                         *)
(* The partition is one file, or several parts of one size, but for the    *)
(* last; a file is a chain of clusters.  A request is cut at the parts;    *)
(* within a part clusters that follow each other on the card are gathered  *)
(* into one command.  Every command of the card may fail.                  *)
(*                                                                         *)
(* Everything is counted in sectors: offsets and, in an eMMC image, file   *)
(* sizes are multiples of 512 bytes.  The mutexes of EmummcHooks let one   *)
(* request run at a time.                                                  *)
(***************************************************************************)
EXTENDS Naturals, Sequences, Functions

CONSTANTS
  Csize,     (* Sectors of a cluster.                                      *)
  Database,  (* fs->database: the sector of the first cluster.             *)
  Images,    (* The partitions: the chain and the size of each of its files.*)
  MaxSectors (* The largest num_sectors of a request.                      *)

ASSUME CsizeAssumption == Csize \in Nat \ {0}
ASSUME BaseAssumption  == Database \in Nat
ASSUME ImageAssumption ==
  \A image \in Images :
    /\ image.chain # <<>> /\ image.chain \in Seq(Seq(Nat \ {0, 1}))
    /\ image.size \in [DOMAIN image.chain -> Nat \ {0}]
    /\ \A p \in DOMAIN image.chain :
         /\ image.size[p] > Csize * (Len(image.chain[p]) - 1)
         /\ image.size[p] <= Csize * Len(image.chain[p])
         /\ p < Len(image.chain) => image.size[p] = image.size[1]
         /\ image.size[p] <= image.size[1]
ASSUME SectorsAssumption == MaxSectors \in Nat \ {0}

VARIABLES
  chain, size,   (* The files: their clusters and their sizes.             *)
  err,           (* The parts whose FIL has its err set.                   *)
  pc,            (* Where the request is.                                  *)
  request,       (* [is_write, sector, num_sectors]                        *)
  result,        (* FALSE when the last request has failed.                *)
  part, sector, remaining,  (* What is left: fp, and where in it to begin.  *)
  buf,           (* How much of the buffer earlier parts have taken.       *)
  fptr, clust,   (* The file pointer and the cluster it was left in.       *)
  btr,           (* btr of f_read_fast, btw of f_write_fast.               *)
  wbuff, sector_base, count,  (* The command that is being gathered.       *)
  moved          (* <<place in the buffer, sector of the card>> moved.     *)

fileVars == <<chain, size>>
reqVars  == <<request, part, sector, remaining, buf>>
runVars  == <<fptr, clust, btr, wbuff, sector_base, count>>
vars     == <<fileVars, err, pc, reqVars, result, runVars, moved>>

Least(m, n) == IF m < n THEN m ELSE n

-----------------------------------------------------------------------------
(* The image                                                               *)

Split      == Len(chain) > 1       \* f_emu.parts # 0
part_size  == size[1]

total_sect ==
  LET sum[n \in 0..Len(chain)] == IF n = 0 THEN 0 ELSE sum[n - 1] + size[n]
  IN sum[Len(chain)]

\* clst2sect
Sect(clst) == Database + (clst - 2) * Csize

\* What clmt_clust finds in the table of part p (FatVolume's IsNamed), and what
\* obj.sclust is for k = 0.
Clust(p, k) == IF k < Len(chain[p]) THEN chain[p][k + 1] ELSE 0

-----------------------------------------------------------------------------
Init ==
  /\ \E image \in Images : chain = image.chain /\ size = image.size
  /\ err = {} /\ pc = "idle"
  /\ request = [is_write |-> FALSE, sector |-> 0, num_sectors |-> 0]
  /\ result = TRUE
  /\ part = 1 /\ sector = 0 /\ remaining = 0 /\ buf = 0
  /\ fptr = 0 /\ clust = 0 /\ btr = 0
  /\ wbuff = 0 /\ sector_base = 0 /\ count = 0
  /\ moved = {}

Return(r) == pc' = "idle" /\ result' = r

\* Mutant of Abort: the error is set and the loop goes on.
AbortStays ==
  err' = err \cup {part} /\ UNCHANGED <<fileVars, pc, result, reqVars, runVars, moved>>

\* ABORT: the error stays with the file object.
Abort ==
  /\ err' = err \cup {part}
  /\ Return(FALSE)
  /\ UNCHANGED <<fileVars, reqVars, runVars, moved>>

\* Only an image in parts is checked.
InBounds(s, n) == Split => s + n <= total_sect

FirstPart(s) == IF Split THEN s \div part_size + 1 ELSE 1

\* emummc_read_write_inner, as far as the choice of the file.  Nothing that an
\* earlier request has left in the FIL's pointers is read again.
Call ==
  /\ pc = "idle"
  /\ \E w \in BOOLEAN, s \in 0..total_sect, n \in 1..MaxSectors :
       /\ request' = [is_write |-> w, sector |-> s, num_sectors |-> n]
       /\ IF InBounds(s, n)
          THEN /\ part' = FirstPart(s)
               /\ sector' = IF Split THEN s % part_size ELSE s
               /\ remaining' = n
               /\ pc' = "seek" /\ result' = TRUE
          ELSE Return(FALSE) /\ part' = 1 /\ sector' = 0 /\ remaining' = 0
  /\ buf' = 0 /\ moved' = {}
  /\ fptr' = 0 /\ clust' = 0 /\ btr' = 0
  /\ wbuff' = 0 /\ sector_base' = 0 /\ count' = 0
  /\ UNCHANGED <<fileVars, err>>

-----------------------------------------------------------------------------
(* f_lseek, and the beginning of f_read_fast and f_write_fast              *)

\* The sectors to move in this part.
cur_sectors == IF Split THEN Least(remaining, part_size - sector) ELSE remaining

\* Fast seek clips the offset at the end of the file; so does a read with what
\* it reads.
Seek ==
  /\ pc = "seek"
  /\ IF part \in err
     THEN Return(FALSE) /\ UNCHANGED <<reqVars, runVars>>
     ELSE /\ fptr' = Least(sector, size[part])
          /\ clust' = IF fptr' = 0 THEN clust ELSE Clust(part, (fptr' - 1) \div Csize)
          /\ btr' = IF request.is_write THEN cur_sectors
                    ELSE Least(cur_sectors, size[part] - fptr')
          /\ wbuff' = buf
          /\ buf' = buf + cur_sectors
          /\ remaining' = remaining - cur_sectors
          /\ pc' = IF fptr' % Csize # 0 THEN "head" ELSE "first"
          /\ UNCHANGED <<request, result, part, sector, sector_base, count>>
  /\ UNCHANGED <<fileVars, err, moved>>

\* n sectors between the place b of the buffer and the sector s of the card.
Run(b, s, n) == {<<b + i, s + i>> : i \in 0..(n - 1)}

\* Mutant of NextPart: sector is not set back to 0.
NextPartKeepsSector == part' = part + 1 /\ UNCHANGED sector

\* sector = 0; ++fp
NextPart == part' = part + 1 /\ sector' = 0

\* A part is done: the next one begins at its first sector.
PartDone ==
  /\ IF remaining = 0
     THEN Return(TRUE) /\ UNCHANGED <<part, sector>>
     ELSE pc' = "seek" /\ NextPart /\ UNCHANGED result
  /\ UNCHANGED <<request, remaining, buf>>

-----------------------------------------------------------------------------
(* f_read_fast, f_write_fast                                               *)

\* Inside a cluster: f_read or f_write to the end of the cluster or of the
\* request.  A write at the end of the file makes it longer.
head_sectors == Least(btr, Csize - (fptr % Csize))

HeadMoved ==
  /\ moved' = moved \cup Run(wbuff, Sect(clust) + (fptr % Csize), head_sectors)
  /\ fptr' = fptr + head_sectors
  /\ size' = IF request.is_write /\ fptr' > size[part]
             THEN [size EXCEPT ![part] = fptr'] ELSE size
  /\ UNCHANGED err

\* A command that fails leaves the file pointer where it is.
HeadFailed ==
  /\ head_sectors > 0
  /\ err' = err \cup {part}
  /\ UNCHANGED <<moved, fptr, size>>

\* The result of f_read, or f_write, is not looked at.
HeadIo ==
  /\ pc = "head"
  /\ HeadMoved \/ HeadFailed
  /\ wbuff' = wbuff + head_sectors
  /\ btr' = btr - head_sectors
  /\ IF btr' = 0
     THEN PartDone
     ELSE pc' = "first" /\ UNCHANGED <<reqVars, result>>
  /\ UNCHANGED <<chain, clust, sector_base, count>>

\* The cluster at the file pointer, and how much of it is wanted.
next_clust   == Clust(part, fptr \div Csize)
next_sectors == Least(btr, Csize)

\* The sectors of the cluster at the file pointer are taken up.
Take ==
  /\ clust' = next_clust
  /\ fptr' = fptr + next_sectors
  /\ btr' = btr - next_sectors

\* clst < 2: past the last cluster of the file.
NoCluster ==
  /\ \/ pc = "first"
     \/ pc = "gather" /\ btr > 0
  /\ next_clust = 0
  /\ Abort

First ==
  /\ pc = "first" /\ next_clust # 0
  /\ Take
  /\ sector_base' = Sect(next_clust) /\ count' = next_sectors
  /\ pc' = "gather"
  /\ UNCHANGED <<fileVars, err, reqVars, result, wbuff, moved>>

\* Mutant of Joins: any cluster that lies behind is taken for the next.
JoinsBehind == Sect(next_clust) > sector_base

\* The cluster follows what is gathered.
Joins == Sect(next_clust) >= sector_base /\ Sect(next_clust) - sector_base = count

Join ==
  /\ pc = "gather" /\ btr > 0 /\ next_clust # 0
  /\ Joins
  /\ Take
  /\ count' = count + next_sectors
  /\ UNCHANGED <<fileVars, err, pc, reqVars, result, wbuff, sector_base, moved>>

\* Mutant of Advance: the buffer goes on by a cluster, not by the command.
AdvanceCluster == wbuff' = wbuff + Csize

\* wbuff += count * SS(fs)
Advance == wbuff' = wbuff + count

\* It does not: the gathered command is made, and a new one begun.
Flush ==
  /\ pc = "gather" /\ btr > 0 /\ next_clust # 0
  /\ ~Joins
  /\ moved' = moved \cup Run(wbuff, sector_base, count)
  /\ Advance
  /\ sector_base' = Sect(next_clust) /\ count' = next_sectors
  /\ Take
  /\ UNCHANGED <<fileVars, err, pc, reqVars, result>>

\* Nothing is left to gather: the last command of this part.
Final ==
  /\ pc = "gather" /\ btr = 0
  /\ moved' = moved \cup Run(wbuff, sector_base, count)
  /\ PartDone
  /\ UNCHANGED <<fileVars, err, runVars>>

\* Mutant of GatherFailed: a failed command is passed over.
GatherIgnored == PartDone /\ UNCHANGED <<fileVars, err, runVars, moved>>

\* The gathered command fails.
GatherFailed == Abort

Failed ==
  /\ pc = "gather"
  /\ btr = 0 \/ (next_clust # 0 /\ ~Joins)
  /\ GatherFailed

InCall == Seek \/ HeadIo \/ NoCluster \/ First \/ Join \/ Flush \/ Final \/ Failed

Next == Call \/ InCall

Spec == Init /\ [][Next]_vars

\* Every command of the card returns (SdTransfer).
FairSpec == Spec /\ WF_vars(InCall)

-----------------------------------------------------------------------------
(* Properties                                                              *)

Parts == DOMAIN chain

(* Where sector k of the partition lies on the card, by the chains alone.  *)
Place(k) ==
  LET p == IF Split THEN k \div part_size + 1 ELSE 1
      o == IF Split THEN k % part_size ELSE k
  IN Sect(chain[p][o \div Csize + 1]) + (o % Csize)

Wanted == {<<i, Place(request.sector + i)>> : i \in 0..(request.num_sectors - 1)}

InImage == request.sector + request.num_sectors <= total_sect

\* The parts that the request is about.
Touched ==
  {IF Split THEN (request.sector + i) \div part_size + 1 ELSE 1 :
     i \in 0..(request.num_sectors - 1)}

(* However a request is cut at parts and gathered over clusters, no sector
   goes to the wrong place, in the buffer or on the card, as long as no
   f_read or f_write has failed unseen.                                    *)
NothingMisplaced == InImage /\ Touched \cap err = {} => moved \subseteq Wanted

(* A request that reports success has moved each of its sectors.           *)
SuccessIsComplete ==
  pc = "idle" /\ result /\ InImage /\ Touched \cap err = {} /\ request.num_sectors > 0
    => moved = Wanted

(* Even a request past the end, or one with an error that went unseen,
   keeps to the clusters of the partition's own files.                     *)
OwnClustersOnly ==
  \A m \in moved : \E p \in Parts : \E k \in 1..Len(chain[p]) :
     m[2] - Sect(chain[p][k]) \in 0..(Csize - 1)

(* Every request returns.                                                  *)
CallsReturn == pc # "idle" ~> pc = "idle"

-----------------------------------------------------------------------------
(* Properties that comments state and the code does not have.              *)

(* ff.c:3931: "If inside a cluster, read the sectors and align to cluster."
   After the head the file pointer is at the beginning of a cluster.       *)
AlignedAfterHead == pc = "first" => fptr % Csize = 0
=============================================================================
