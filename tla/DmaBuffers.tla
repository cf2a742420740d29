----------------------------- MODULE DmaBuffers ------------------------------
(***************************************************************************)
(* The buffers that a transfer goes through (source/emmc/sdmmc.c, 48 to    *)
(* 161 and 361 to 467; source/emmc/sdmmc_driver.c, 882 to 1043).  FS gives *)
(* each of its accessors up to three buffers that the controller can       *)
(* reach.  A caller's buffer may lie in one of them, or in one of the      *)
(* other accessor, or on a heap; hekate's driver and, after the swap, FS's *)
(* driver must get the data to it all the same.                            *)
(*                                                                         *)
(* Addresses count in sectors.  What a cell of memory or of the card holds *)
(* is named afresh by each call: a cell of memory holds its address, the   *)
(* i-th sector of the request -i.  Splitting a request into commands and   *)
(* trying them again is SdTransfer's.                                      *)
(***************************************************************************)
EXTENDS Integers

CONSTANTS
  SdLists,     (* The lists of buffers that FS may have made for its SD    *)
  NandLists,   (* accessor and for its eMMC accessor.                      *)
  Heap,        (* The addresses in none of them.                           *)
  MaxSectors   (* The longest request.                                     *)

\* device_addr_buffer, device_addr_buffer_size, device_addr_buffer_masked
Buffer == [addr : Nat, size : Nat, masked : Nat]

Unused == [addr |-> 0, size |-> 0, masked |-> 0]

\* Behind the array lies memory of FS's, which is not a buffer.
Foreign == [addr |-> 0, size |-> 0, masked |-> 1]

\* What the code takes for granted of FS: a request fits some buffer, and in the
\* list of the SD accessor the next entry is free.  Elsewhere the code reads and
\* writes past a buffer, or past the array, or makes FS lose a buffer.
ASSUME ListsAssumption ==
  /\ SdLists \subseteq [0..2 -> Buffer] /\ NandLists \subseteq [0..2 -> Buffer]
  /\ \A l \in SdLists, n \in 1..MaxSectors : \E i \in 0..1 :
       /\ l[i].size >= n /\ l[i + 1] = Unused
       /\ \A j \in 0..(i - 1) : l[j].size < n
  /\ \A l \in NandLists, n \in 1..MaxSectors : \E i \in 0..2 : l[i].size >= n

\* Where the controller sees the i-th cell of a buffer it sees no other cell.
ASSUME PlacesAssumption ==
  /\ Heap \subseteq Nat /\ MaxSectors \in Nat
  /\ \A l \in SdLists, m \in NandLists :
       \A b, c \in {l[i] : i \in 0..2} \cup {m[i] : i \in 0..2} :
         (b.masked..(b.masked + b.size - 1))
           \cap (c.masked..(c.masked + c.size - 1)) # {}
           => b.addr - b.masked = c.addr - c.masked

VARIABLES
  given,       (* The list that FS has made for the SD accessor.           *)
  sd,          (* That list as it is now, and the entry behind it.         *)
  nand,        (* The list of the eMMC accessor.                           *)
  custom_driver, sdmmc_memcpy_buf, last_dma_idx,
  at,          (* Where the call is: "idle", "choose", "fsDriver",         *)
               (* "fsReturn", "command" or "copyOut".                      *)
  req,         (* The call: [is_write, current, buf, num_sectors], where   *)
               (* current names _current_accessor.                         *)
  through,     (* dma_buf or admaaddr: where the driver is sent.           *)
  dma_idx,     (* The slot lent to FS's driver, or -1.                     *)
  mem, disk,   (* The memory, and the sectors of the request.              *)
  done         (* What the last call has returned.                         *)

listVars == <<given, nand, custom_driver>>
dmaVars == <<listVars, sd, sdmmc_memcpy_buf, last_dma_idx, at, req, through,
             dma_idx, mem, disk, done>>

Cells(b) == b.addr..(b.addr + b.size - 1)
BufferCells(list) == UNION {Cells(list[i]) : i \in 0..2}
Memory == Heap \cup BufferCells(given) \cup BufferCells(nand)

\* device_addr_buffer_masked is where the controller sees the buffer.
OfDevice(d) ==
  LET b == CHOOSE c \in {given[i] : i \in 0..2} \cup {nand[i] : i \in 0..2} :
             c.size > 0 /\ d \in c.masked..(c.masked + c.size - 1)
  IN b.addr + (d - b.masked)

Span(buf) == buf..(buf + req.num_sectors - 1)

\* n cells from address b on, into those from address a on.
Copied(a, b) ==
  [x \in DOMAIN mem |-> IF x \in Span(a) THEN mem[b + (x - a)] ELSE mem[x]]

FromCard(a) ==
  [x \in DOMAIN mem |-> IF x \in Span(a) THEN disk[x - a + 1] ELSE mem[x]]

ToCard(a) == [i \in DOMAIN disk |-> mem[a + i - 1]]

-----------------------------------------------------------------------------
(* The choice of a buffer                                                  *)

\* A comparison with the end of the buffer.
Inside(b, buf, n) == b.addr <= buf /\ buf + n <= b.addr + b.size

Holding(list, buf, n) == {i \in 0..2 : Inside(list[i], buf, n)}

Least(S) == CHOOSE i \in S : \A j \in S : i <= j

\* -1 for a buffer on some heap
sdmmc_calculate_dma_index(list, buf, n) ==
  IF Holding(list, buf, n) = {} THEN -1 ELSE Least(Holding(list, buf, n))

\* 0 for a buffer on some heap
sdmmc_calculate_dma_addr(list, buf, n) ==
  IF Holding(list, buf, n) = {} THEN 0
  ELSE LET b == list[sdmmc_calculate_dma_index(list, buf, n)]
       IN b.masked + (buf - b.addr)

Fitting(list, n) == {i \in 0..2 : list[i].size >= n}

sdmmc_calculate_fitting_dma_index(list, n) ==
  IF Fitting(list, n) = {} THEN 0 ELSE Least(Fitting(list, n))

\* Mutant of MemcpyBuf: the choice of a fitting buffer leaves the flag alone.
MemcpyBufKept(list, n) == sdmmc_memcpy_buf

\* sdmmc_memcpy_buf behind the choice of a fitting buffer
MemcpyBuf(list, n) == Fitting(list, n) # {} \/ sdmmc_memcpy_buf

-----------------------------------------------------------------------------
(* Calls                                                                   *)

DmaInit ==
  /\ given \in SdLists /\ nand \in NandLists
  /\ sd = [i \in 0..3 |-> IF i = 3 THEN Foreign ELSE given[i]]
  /\ custom_driver = TRUE /\ sdmmc_memcpy_buf = FALSE /\ last_dma_idx = 0
  /\ at = "idle" /\ through = 0 /\ dma_idx = -1
  /\ req = [is_write |-> FALSE, current |-> "sd", buf |-> 0, num_sectors |-> 0]
  /\ mem = [a \in Memory |-> a] /\ disk = <<>>
  /\ done = FALSE

Current == IF req.current = "sd" THEN sd ELSE nand

\* The caller's buffer lies in one of FS's buffers or on a heap.
Request ==
  /\ at = "idle" /\ at' = "choose"
  /\ \E w \in BOOLEAN, c \in {"sd", "nand"}, n \in 1..MaxSectors, b \in Memory :
       /\ \/ b..(b + n - 1) \subseteq Heap
          \/ Holding(given, b, n) \cup Holding(nand, b, n) # {}
       /\ req' = [is_write |-> w, current |-> c, buf |-> b, num_sectors |-> n]
       /\ disk' = [i \in 1..n |-> -i]
  /\ mem' = [a \in Memory |-> a]
  /\ UNCHANGED <<listVars, sd, sdmmc_memcpy_buf, last_dma_idx, through, dma_idx,
                 done>>

\* The first SD read of a raw emuMMC goes over to FS's driver.
Swap ==
  /\ at = "choose" /\ ~req.is_write /\ req.current = "sd" /\ custom_driver
  /\ custom_driver' = FALSE
  /\ UNCHANGED <<given, nand, sd, sdmmc_memcpy_buf, last_dma_idx, at, req,
                 through, dma_idx, mem, disk, done>>

-----------------------------------------------------------------------------
(* FS's driver: sdmmc_storage_read and sdmmc_storage_write                 *)

OnSd   == sdmmc_calculate_dma_addr(sd, req.buf, req.num_sectors) # 0
OnNand == sdmmc_calculate_dma_addr(nand, req.buf, req.num_sectors) # 0

FsChoose ==
  /\ at = "choose" /\ ~custom_driver /\ at' = "fsDriver"
  /\ UNCHANGED <<listVars, last_dma_idx, req, disk, done>>

Direct ==
  /\ FsChoose /\ OnSd
  /\ through' = req.buf /\ sdmmc_memcpy_buf' = FALSE
  /\ UNCHANGED <<sd, dma_idx, mem>>

\* The SD accessor gets the buffer of the eMMC accessor, in the next entry.
Lend ==
  /\ FsChoose /\ ~OnSd /\ OnNand
  /\ LET original == sdmmc_calculate_dma_index(nand, req.buf, req.num_sectors)
     IN /\ dma_idx' = sdmmc_calculate_fitting_dma_index(sd, req.num_sectors) + 1
        /\ sd' = [sd EXCEPT ![dma_idx'] = nand[original]]
  /\ through' = req.buf
  /\ sdmmc_memcpy_buf' = (Fitting(sd, req.num_sectors) # {})
  /\ UNCHANGED mem

\* Through a buffer of the SD accessor; a write copies first.
HeapBuffer ==
  /\ FsChoose /\ ~OnSd /\ ~OnNand
  /\ through' = sd[sdmmc_calculate_fitting_dma_index(sd, req.num_sectors)].addr
  /\ sdmmc_memcpy_buf' = MemcpyBuf(sd, req.num_sectors)
  /\ mem' = IF req.is_write THEN Copied(through', req.buf) ELSE mem
  /\ UNCHANGED <<sd, dma_idx>>

\* External: FS's driver finds the buffer among those of its accessor, and moves
\* the data, or fails.
FsDriver ==
  /\ at = "fsDriver" /\ at' = "fsReturn"
  /\ \/ /\ Holding(sd, through, req.num_sectors) # {}
        /\ IF req.is_write THEN disk' = ToCard(through) /\ UNCHANGED mem
                           ELSE mem' = FromCard(through) /\ UNCHANGED disk
        /\ done' = TRUE
     \/ done' = FALSE /\ UNCHANGED <<mem, disk>>
  /\ UNCHANGED <<listVars, sd, sdmmc_memcpy_buf, last_dma_idx, req, through,
                 dma_idx>>

\* Mutant of TakenBack: the slot before the lent one is cleared.
TakenBackFitting == [sd EXCEPT ![dma_idx - 1] = Unused]

\* The lent entry is zeroed.
TakenBack == [sd EXCEPT ![dma_idx] = Unused]

\* A read through a buffer of the SD accessor is copied, failed or not.
FsReturn ==
  /\ at = "fsReturn" /\ at' = "idle"
  /\ sd' = IF dma_idx = -1 THEN sd ELSE TakenBack
  /\ dma_idx' = -1
  /\ mem' = IF ~req.is_write /\ through # req.buf
            THEN Copied(req.buf, through) ELSE mem
  /\ UNCHANGED <<listVars, sdmmc_memcpy_buf, last_dma_idx, req, through, disk,
                 done>>

-----------------------------------------------------------------------------
(* hekate's driver: _sdmmc_config_dma and _sdmmc_execute_cmd_inner         *)

Config ==
  /\ at = "choose" /\ custom_driver /\ at' = "command"
  /\ LET admaaddr == sdmmc_calculate_dma_addr(Current, req.buf, req.num_sectors)
         idx == sdmmc_calculate_fitting_dma_index(Current, req.num_sectors)
     IN IF admaaddr # 0
        THEN /\ through' = admaaddr /\ sdmmc_memcpy_buf' = FALSE
             /\ UNCHANGED <<last_dma_idx, mem>>
        ELSE /\ through' = Current[idx].masked /\ last_dma_idx' = idx
             /\ sdmmc_memcpy_buf' = MemcpyBuf(Current, req.num_sectors)
             /\ mem' = IF sdmmc_memcpy_buf' /\ req.is_write
                       THEN Copied(Current[idx].addr, req.buf) ELSE mem
  /\ UNCHANGED <<listVars, sd, req, dma_idx, disk, done>>

\* The controller moves the data; a command that fails may have moved it.
Command ==
  /\ at = "command"
  /\ \/ IF req.is_write THEN disk' = ToCard(OfDevice(through)) /\ UNCHANGED mem
        ELSE mem' = FromCard(OfDevice(through)) /\ UNCHANGED disk
     \/ UNCHANGED <<mem, disk>> /\ done' = FALSE
  /\ \/ done' = TRUE /\ at' = "copyOut"
     \/ done' = FALSE /\ at' = "idle"
  /\ UNCHANGED <<listVars, sd, sdmmc_memcpy_buf, last_dma_idx, req, through,
                 dma_idx>>

CopyOut ==
  /\ at = "copyOut" /\ at' = "idle"
  /\ mem' = IF sdmmc_memcpy_buf /\ ~req.is_write
            THEN Copied(req.buf, Current[last_dma_idx].addr) ELSE mem
  /\ UNCHANGED <<listVars, sd, sdmmc_memcpy_buf, last_dma_idx, req, through,
                 dma_idx, disk, done>>

DmaNext ==
  \/ Request \/ Swap \/ Direct \/ Lend \/ HeapBuffer \/ FsDriver \/ FsReturn
  \/ Config \/ Command \/ CopyOut

DmaSpec == DmaInit /\ [][DmaNext]_dmaVars

-----------------------------------------------------------------------------
(* Properties                                                              *)

\* The memory that a call may change: what a read is for, and the buffers of
\* the accessor that it goes through.
Own ==
  (IF req.is_write THEN {} ELSE Span(req.buf))
    \cup BufferCells(IF custom_driver /\ req.current = "nand"
                     THEN nand ELSE given)

\* Whichever driver, wherever the caller's buffer lies and whatever was done
\* before: a transfer that succeeds has moved each sector between its place on
\* the card and its place in the caller's buffer, and none, failed or not, has
\* changed memory of anyone else (sdmmc.c, 155 and 383; sdmmc_driver.c, 980).
Delivered ==
  /\ at = "idle" /\ done =>
       \A i \in DOMAIN disk :
         IF req.is_write THEN disk[i] = req.buf + i - 1
                         ELSE mem[req.buf + i - 1] = -i
  /\ \A a \in Memory \ Own : mem[a] = a

\* Between calls FS finds the list of its SD accessor as it made it, and what
\* lies behind it untouched, though a slot of it was lent (sdmmc.c, 381 to 395).
ListRestored ==
  at = "idle" => /\ \A i \in 0..2 : sd[i] = given[i]
                 /\ sd[3] = Foreign
=============================================================================
