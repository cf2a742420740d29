-------------------------- MODULE DmaBuffersProofs --------------------------
(***************************************************************************)
(* Proofs about DmaBuffers, for every lists of buffers that meet           *)
(* ListsAssumption and PlacesAssumption, every heap and every length of a  *)
(* request: FS gets its list of buffers back, and a transfer that succeeds *)
(* has moved the data and touched nothing else.                            *)
(***************************************************************************)
EXTENDS DmaBuffers, TLAPS

-----------------------------------------------------------------------------
(* The invariant                                                           *)

Entries(list) == {list[i] : i \in 0..2}

\* Where the data of the current command is: what OfDevice(through) comes to in
\* hekate's driver.
Target == IF sdmmc_memcpy_buf THEN Current[last_dma_idx].addr ELSE req.buf

Whole(a) == \A i \in 1..req.num_sectors : mem[a + i - 1] = req.buf + i - 1

\* What a read puts into cells a to a + n - 1, a write into the sectors.
Moved(a) ==
  IF req.is_write THEN \A i \in 1..req.num_sectors : disk[i] = req.buf + i - 1
                  ELSE \A i \in 1..req.num_sectors : mem[a + i - 1] = -i

Typed ==
  /\ given \in SdLists /\ nand \in NandLists
  /\ DOMAIN sd = 0..3
  /\ custom_driver \in BOOLEAN /\ sdmmc_memcpy_buf \in BOOLEAN
  /\ done \in BOOLEAN
  /\ at \in {"idle", "choose", "fsDriver", "fsReturn", "command", "copyOut"}
  /\ req.is_write \in BOOLEAN /\ req.current \in {"sd", "nand"}
  /\ req.buf \in Nat /\ req.num_sectors \in 0..MaxSectors
  /\ at # "idle" => req.num_sectors \in 1..MaxSectors
  /\ DOMAIN mem = Memory /\ DOMAIN disk = 1..req.num_sectors
  /\ Span(req.buf) \subseteq Memory

\* The list is FS's, but for the entry lent to FS's driver, which was free.
Restorable ==
  /\ sd[3] = Foreign
  /\ \A i \in 0..2 : i # dma_idx => sd[i] = given[i]
  /\ \/ dma_idx = -1
     \/ /\ dma_idx \in 1..2 /\ given[dma_idx] = Unused
        /\ at \in {"fsDriver", "fsReturn"}

\* A buffer of the accessor that the driver may go through.
Bounce(a) ==
  /\ a \in Nat
  /\ Span(a) \subseteq
       BufferCells(IF custom_driver /\ req.current = "nand" THEN nand ELSE given)

Choosing == at = "choose" => mem = [a \in Memory |-> a]

\* The sectors hold what they held at first.
Fresh ==
  at \in {"choose", "fsDriver", "command"} =>
    \A i \in 1..req.num_sectors : disk[i] = -i

InFs ==
  /\ at = "fsDriver" /\ req.is_write => Whole(through)
  /\ at \in {"fsDriver", "fsReturn"} =>
       /\ ~custom_driver
       /\ through = req.buf \/ Bounce(through)
  /\ at = "fsReturn" /\ done => Moved(through)

InHekate ==
  /\ at \in {"command", "copyOut"} =>
       /\ custom_driver
       /\ Target = req.buf \/ Bounce(Target)
  /\ at = "command" =>
       /\ OfDevice(through) = Target
       /\ req.is_write => Whole(Target)
  /\ at = "copyOut" => Moved(Target)

Finished == at = "idle" /\ done => Moved(req.buf)

Untouched == \A a \in Memory \ Own : mem[a] = a

DmaInv ==
  /\ Typed /\ Restorable /\ Choosing /\ Fresh /\ InFs /\ InHekate /\ Finished
  /\ Untouched

-----------------------------------------------------------------------------
(* The choice of a buffer                                                  *)

\* The least slot of a choice is one of them.
LEMMA LeastIn ==
  ASSUME NEW S \in SUBSET (0..2), S # {}
  PROVE  Least(S) \in S /\ \A j \in S : Least(S) <= j
<1>1. \E i \in S : \A j \in S : i <= j
  <2>1. CASE 0 \in S
    BY <2>1
  <2>2. CASE 0 \notin S /\ 1 \in S
    BY <2>2
  <2>3. CASE 0 \notin S /\ 1 \notin S
    <3>1. \A i \in S : i = 2
      BY <2>3
    <3>2. 2 \in S
      BY <3>1
    <3> QED BY <3>1, <3>2
  <2> QED BY <2>1, <2>2, <2>3
<1> QED BY <1>1 DEF Least

\* A list of FS's is one of buffers.
LEMMA ListEntries ==
  ASSUME NEW l \in SdLists \cup NandLists, NEW i \in 0..2
  PROVE  l[i] \in Buffer
BY ListsAssumption

\* The slot that fits a request in a list like FS's for its SD accessor: it is
\* not the last, and the next is free.
LEMMA SdFits ==
  ASSUME NEW l \in SdLists, NEW list, \A i \in 0..2 : list[i] = l[i],
         NEW n \in 1..MaxSectors
  PROVE  LET f == sdmmc_calculate_fitting_dma_index(list, n)
         IN /\ f \in 0..1 /\ Fitting(list, n) # {}
            /\ list[f] \in Buffer /\ list[f].size >= n
            /\ list[f + 1] = Unused
<1> DEFINE f == sdmmc_calculate_fitting_dma_index(list, n)
<1>1. PICK i \in 0..1 : /\ l[i].size >= n /\ l[i + 1] = Unused
                        /\ \A j \in 0..(i - 1) : l[j].size < n
  BY ListsAssumption
<1>2. i \in Fitting(list, n) /\ Fitting(list, n) \in SUBSET (0..2)
  BY <1>1 DEF Fitting
<1>3. f \in Fitting(list, n) /\ f <= i
  BY <1>2, LeastIn DEF sdmmc_calculate_fitting_dma_index
<1>4. l[f] \in Buffer /\ l[f].size >= n /\ f \in 0..2
  BY <1>2, <1>3, ListEntries DEF Fitting
<1>5. f \notin 0..(i - 1)
  <2>1. l[f].size \in Nat /\ n \in Nat
    BY <1>4, PlacesAssumption DEF Buffer
  <2> QED BY <1>1, <1>4, <2>1
<1>6. f = i
  BY <1>3, <1>4, <1>5
<1> QED BY <1>1, <1>2, <1>4, <1>6

\* Some buffer of the eMMC accessor fits every request.
LEMMA NandFits ==
  ASSUME NEW l \in NandLists, NEW n \in 1..MaxSectors
  PROVE  LET f == sdmmc_calculate_fitting_dma_index(l, n)
         IN f \in 0..2 /\ Fitting(l, n) # {} /\ l[f] \in Buffer /\ l[f].size >= n
<1>1. PICK i \in 0..2 : l[i].size >= n
  BY ListsAssumption
<1>2. i \in Fitting(l, n) /\ Fitting(l, n) \in SUBSET (0..2)
  BY <1>1 DEF Fitting
<1> QED
  BY <1>2, LeastIn, ListEntries DEF sdmmc_calculate_fitting_dma_index, Fitting

\* A buffer's cells are numbers.
LEMMA CellsInNat ==
  ASSUME NEW b \in Buffer
  PROVE  Cells(b) \subseteq Nat
BY DEF Cells, Buffer

LEMMA MemoryInNat ==
  ASSUME Typed
  PROVE  /\ Memory \subseteq Nat
         /\ BufferCells(given) \subseteq Memory
         /\ BufferCells(nand) \subseteq Memory
<1>1. \A i \in 0..2 : Cells(given[i]) \subseteq Nat /\ Cells(nand[i]) \subseteq Nat
  BY ListEntries, CellsInNat DEF Typed
<1>2. BufferCells(given) \subseteq Nat /\ BufferCells(nand) \subseteq Nat
  BY <1>1 DEF BufferCells
<1> QED BY <1>2, PlacesAssumption DEF Memory

\* A buffer as long as the request holds a span of it.
LEMMA SpanInCells ==
  ASSUME NEW b \in Buffer, NEW n \in Nat, b.size >= n
  PROVE  b.addr \in Nat /\ b.addr..(b.addr + n - 1) \subseteq Cells(b)
BY DEF Cells, Buffer

LEMMA InsideCells ==
  ASSUME NEW b \in Buffer, NEW n \in Nat, NEW a \in Nat, Inside(b, a, n)
  PROVE  a..(a + n - 1) \subseteq Cells(b)
BY DEF Cells, Buffer, Inside

-----------------------------------------------------------------------------
(* The steps of a call                                                     *)

LEMMA DmaInvInit == DmaInit => DmaInv
<1> SUFFICES ASSUME DmaInit PROVE DmaInv
  OBVIOUS
<1> USE DEF DmaInit
<1>1. Typed
  <2>1. DOMAIN disk = 1..0
    OBVIOUS
  <2>2. DOMAIN sd = 0..3 /\ DOMAIN mem = Memory
    OBVIOUS
  <2>3. req.num_sectors = 0 /\ req.buf = 0 /\ Span(0) = {}
    BY DEF Span
  <2>4. /\ req.is_write \in BOOLEAN /\ req.current \in {"sd", "nand"}
        /\ given \in SdLists /\ nand \in NandLists /\ at = "idle"
        /\ custom_driver \in BOOLEAN /\ sdmmc_memcpy_buf \in BOOLEAN
        /\ done \in BOOLEAN
    OBVIOUS
  <2> HIDE DEF DmaInit
  <2> QED BY <2>1, <2>2, <2>3, <2>4, PlacesAssumption DEF Typed
<1>2. Restorable
  BY DEF Restorable
<1> QED
  BY <1>1, <1>2 DEF DmaInv, Choosing, Fresh, InFs, InHekate, Finished, Untouched

\* Of a caller's buffer all cells are memory.
LEMMA RequestPlace ==
  ASSUME Typed, NEW n \in 1..MaxSectors, NEW b \in Memory,
         \/ b..(b + n - 1) \subseteq Heap
         \/ Holding(given, b, n) \cup Holding(nand, b, n) # {}
  PROVE  b \in Nat /\ b..(b + n - 1) \subseteq Memory
<1>1. b \in Nat /\ n \in Nat
  BY MemoryInNat, PlacesAssumption
<1>2. CASE b..(b + n - 1) \subseteq Heap
  BY <1>1, <1>2 DEF Memory
<1>3. ASSUME NEW l \in {given, nand}, NEW i \in Holding(l, b, n)
      PROVE  b..(b + n - 1) \subseteq Memory
  <2>1. i \in 0..2 /\ Inside(l[i], b, n) /\ l[i] \in Buffer
    BY <1>3, ListEntries DEF Holding, Typed
  <2>2. b..(b + n - 1) \subseteq Cells(l[i])
    BY <1>1, <2>1, InsideCells
  <2> QED BY <2>1, <2>2, MemoryInNat DEF BufferCells
<1> QED BY <1>1, <1>2, <1>3

LEMMA RequestInv == DmaInv /\ Request => DmaInv'
<1> SUFFICES ASSUME DmaInv, Request PROVE DmaInv'
  OBVIOUS
<1> USE DEF DmaInv
<1>1. PICK w \in BOOLEAN, c \in {"sd", "nand"}, n \in 1..MaxSectors, b \in Memory :
        /\ \/ b..(b + n - 1) \subseteq Heap
           \/ Holding(given, b, n) \cup Holding(nand, b, n) # {}
        /\ req' = [is_write |-> w, current |-> c, buf |-> b, num_sectors |-> n]
        /\ disk' = [i \in 1..n |-> -i]
  BY DEF Request
<1>2. b \in Nat /\ b..(b + n - 1) \subseteq Memory
  BY <1>1, RequestPlace
<1>3. Memory' = Memory /\ at' = "choose" /\ mem' = [a \in Memory |-> a]
  BY DEF Request, Memory, BufferCells, listVars
<1>4. Typed'
  BY <1>1, <1>2, <1>3, PlacesAssumption DEF Typed, Request, Span, listVars
<1>5. Restorable'
  BY <1>3 DEF Restorable, Request, listVars
<1> QED
  BY <1>1, <1>3, <1>4, <1>5 DEF Choosing, Fresh, InFs, InHekate, Finished, Untouched

LEMMA SwapInv == DmaInv /\ Swap => DmaInv'
<1> SUFFICES ASSUME DmaInv, Swap PROVE DmaInv'
  OBVIOUS
<1> USE DEF DmaInv, Swap
<1>1. Memory' = Memory
  BY DEF Memory, BufferCells
<1>2. Own' = Own
  BY DEF Own, BufferCells, Span
<1>3. Typed'
  BY <1>1 DEF Typed, Span
<1>4. Restorable'
  BY DEF Restorable
<1> QED
  BY <1>1, <1>2, <1>3, <1>4
     DEF Choosing, Fresh, InFs, InHekate, Finished, Untouched

\* What a copy and the two directions of a transfer do.
LEMMA CopiedIs ==
  ASSUME Typed, NEW a \in Nat, NEW b \in Nat, Span(a) \subseteq Memory
  PROVE  /\ DOMAIN Copied(a, b) = Memory
         /\ \A i \in 1..req.num_sectors :
              Copied(a, b)[a + i - 1] = mem[b + i - 1]
         /\ \A x \in Memory \ Span(a) : Copied(a, b)[x] = mem[x]
<1>1. DOMAIN mem = Memory /\ req.num_sectors \in Nat
  BY PlacesAssumption DEF Typed
<1>2. ASSUME NEW i \in 1..req.num_sectors
      PROVE  Copied(a, b)[a + i - 1] = mem[b + i - 1]
  <2>1. a + i - 1 \in Span(a) /\ b + ((a + i - 1) - a) = b + i - 1
    BY <1>1 DEF Span
  <2> QED BY <1>1, <2>1 DEF Copied
<1> QED BY <1>1, <1>2 DEF Copied

LEMMA FromCardIs ==
  ASSUME Typed, NEW a \in Nat, Span(a) \subseteq Memory
  PROVE  /\ DOMAIN FromCard(a) = Memory
         /\ \A i \in 1..req.num_sectors : FromCard(a)[a + i - 1] = disk[i]
         /\ \A x \in Memory \ Span(a) : FromCard(a)[x] = mem[x]
<1>1. DOMAIN mem = Memory /\ req.num_sectors \in Nat
  BY PlacesAssumption DEF Typed
<1>2. ASSUME NEW i \in 1..req.num_sectors
      PROVE  FromCard(a)[a + i - 1] = disk[i]
  <2>1. a + i - 1 \in Span(a) /\ (a + i - 1) - a + 1 = i
    BY <1>1 DEF Span
  <2> QED BY <1>1, <2>1 DEF FromCard
<1> QED BY <1>1, <1>2 DEF FromCard

\* A step that leaves the request and the lists alone, and of memory what is
\* not the call's own.
LEMMA UntouchedKept ==
  ASSUME Typed, Untouched,
         UNCHANGED <<given, nand, custom_driver, req>>,
         NEW S, S \subseteq Own,
         \A x \in Memory \ S : mem'[x] = mem[x]
  PROVE  Untouched'
<1>1. Memory' = Memory
  BY DEF Memory, BufferCells
<1>2. Own' = Own
  BY DEF Own, BufferCells, Span
<1> QED BY <1>1, <1>2 DEF Untouched

\* A buffer that the driver goes through is its own, and memory.
LEMMA BounceOwn ==
  ASSUME Typed, NEW a, Bounce(a)
  PROVE  a \in Nat /\ Span(a) \subseteq Own /\ Span(a) \subseteq Memory
BY MemoryInNat DEF Bounce, Own

LEMMA SpanOwn ==
  ASSUME Typed, ~req.is_write
  PROVE  Span(req.buf) \subseteq Own
BY DEF Own

-----------------------------------------------------------------------------
(* FS's driver                                                             *)

LEMMA FsCalls ==
  ASSUME DmaInv, FsChoose
  PROVE  /\ at = "choose" /\ at' = "fsDriver" /\ ~custom_driver
         /\ UNCHANGED <<given, nand, custom_driver, req, disk, done>>
         /\ req.num_sectors \in 1..MaxSectors /\ req.num_sectors \in Nat
         /\ req.buf \in Nat /\ Span(req.buf) \subseteq Memory
         /\ Memory' = Memory /\ Own' = Own
         /\ mem = [a \in Memory |-> a] /\ dma_idx = -1
         /\ \A i \in 0..2 : sd[i] = given[i]
<1>1. Memory' = Memory /\ Own' = Own
  BY DEF FsChoose, listVars, Memory, Own, BufferCells, Span
<1>2. at = "choose" /\ dma_idx = -1 /\ mem = [a \in Memory |-> a]
  BY DEF DmaInv, FsChoose, Restorable, Choosing
<1>3. \A i \in 0..2 : sd[i] = given[i]
  BY <1>2 DEF DmaInv, Restorable
<1>4. req.num_sectors \in 1..MaxSectors /\ req.num_sectors \in Nat
  BY <1>2, PlacesAssumption DEF DmaInv, Typed
<1> QED BY <1>1, <1>2, <1>3, <1>4 DEF FsChoose, listVars, DmaInv, Typed

\* A call that goes straight to the caller's buffer.
LEMMA StraightInv ==
  ASSUME DmaInv, FsChoose, through' = req.buf, UNCHANGED mem,
         DOMAIN sd' = 0..3, sdmmc_memcpy_buf' \in BOOLEAN, Restorable'
  PROVE  DmaInv'
<1>1. Typed'
  BY FsCalls DEF DmaInv, Typed, Span
<1>2. Whole(req.buf)
  BY FsCalls DEF Whole, Span
<1>3. InFs'
  BY <1>2, FsCalls DEF InFs, Whole
<1>4. Untouched'
  BY FsCalls DEF Untouched, DmaInv
<1> QED
  BY <1>1, <1>3, <1>4, FsCalls DEF DmaInv, Choosing, Fresh, InHekate, Finished

LEMMA DirectInv == DmaInv /\ Direct => DmaInv'
<1> SUFFICES ASSUME DmaInv, Direct PROVE DmaInv'
  OBVIOUS
<1>1. DOMAIN sd' = 0..3 /\ Restorable'
  BY FsCalls DEF Direct, Restorable, DmaInv, Typed
<1> QED BY <1>1, StraightInv DEF Direct

\* The entry that is lent is free.
LEMMA LendInv == DmaInv /\ Lend => DmaInv'
<1> SUFFICES ASSUME DmaInv, Lend PROVE DmaInv'
  OBVIOUS
<1> DEFINE f == sdmmc_calculate_fitting_dma_index(sd, req.num_sectors)
<1>1. f \in 0..1 /\ sd[f + 1] = Unused
  BY SdFits, FsCalls DEF Lend, DmaInv, Typed
<1>2. PICK b : sd' = [sd EXCEPT ![f + 1] = b] /\ dma_idx' = f + 1
  BY DEF Lend
<1>3. DOMAIN sd' = 0..3 /\ f + 1 \in 1..2 /\ given[f + 1] = Unused
  BY <1>1, <1>2, FsCalls DEF Lend, DmaInv, Typed
<1>4. Restorable'
  <2>1. \A i \in 0..3 : i # f + 1 => sd'[i] = sd[i]
    BY <1>2, <1>3 DEF DmaInv, Typed
  <2>2. sd'[3] = Foreign
    BY <1>3, <2>1 DEF DmaInv, Restorable
  <2> QED BY <1>2, <1>3, <2>1, <2>2, FsCalls DEF Restorable, Lend
<1> QED BY <1>3, <1>4, StraightInv DEF Lend

LEMMA HeapBufferInv == DmaInv /\ HeapBuffer => DmaInv'
<1> SUFFICES ASSUME DmaInv, HeapBuffer PROVE DmaInv'
  OBVIOUS
<1> DEFINE f == sdmmc_calculate_fitting_dma_index(sd, req.num_sectors)
<1>1. FsChoose
  BY DEF HeapBuffer
<1>2. f \in 0..1 /\ sd[f] \in Buffer /\ sd[f].size >= req.num_sectors
      /\ sd[f] = given[f]
  BY <1>1, SdFits, FsCalls DEF DmaInv, Typed
<1>3. through' = sd[f].addr /\ through' \in Nat /\ Bounce(through')
  BY <1>1, <1>2, FsCalls, SpanInCells
     DEF HeapBuffer, Bounce, Span, BufferCells
<1>4. Span(through') \subseteq Own /\ Span(through') \subseteq Memory
  BY <1>3, BounceOwn DEF DmaInv
<1>5. /\ DOMAIN mem' = Memory
      /\ \A x \in Memory \ Span(through') : mem'[x] = mem[x]
      /\ req.is_write => Whole(through)'
  <2>1. CASE req.is_write
    <3>1. mem' = Copied(through', req.buf)
      BY <2>1 DEF HeapBuffer
    <3>2. \A i \in 1..req.num_sectors : req.buf + i - 1 \in Memory
      BY <1>1, FsCalls DEF Span
    <3>3. \A i \in 1..req.num_sectors : mem[req.buf + i - 1] = req.buf + i - 1
      BY <1>1, <3>2, FsCalls
    <3>4. /\ DOMAIN mem' = Memory
          /\ \A x \in Memory \ Span(through') : mem'[x] = mem[x]
          /\ \A i \in 1..req.num_sectors :
               mem'[through' + i - 1] = mem[req.buf + i - 1]
      BY <1>1, <1>3, <1>4, <3>1, CopiedIs, FsCalls DEF DmaInv
    <3>5. Whole(through)'
      BY <1>1, <3>3, <3>4, FsCalls DEF Whole
    <3> QED BY <3>4, <3>5
  <2>2. CASE ~req.is_write
    BY <2>2 DEF HeapBuffer, DmaInv, Typed
  <2> QED BY <2>1, <2>2
<1>6. Typed'
  BY <1>1, <1>5, FsCalls DEF DmaInv, Typed, Span, HeapBuffer, MemcpyBuf
<1>7. Restorable'
  BY <1>1, FsCalls DEF DmaInv, Restorable, HeapBuffer
<1>8. Bounce(through)'
  BY <1>1, <1>3, FsCalls DEF Bounce, Span, BufferCells
<1>9. InFs'
  BY <1>1, <1>5, <1>8, FsCalls DEF InFs, Whole
<1>10. Untouched'
  BY <1>1, <1>4, <1>5, FsCalls, UntouchedKept DEF DmaInv
<1> QED
  BY <1>1, <1>6, <1>7, <1>9, <1>10, FsCalls
     DEF DmaInv, Choosing, Fresh, InHekate, Finished

LEMMA FsDriverInv == DmaInv /\ FsDriver => DmaInv'
<1> SUFFICES ASSUME DmaInv, FsDriver PROVE DmaInv'
  OBVIOUS
<1>1. /\ at = "fsDriver" /\ at' = "fsReturn" /\ ~custom_driver
      /\ UNCHANGED <<given, nand, custom_driver, sd, sdmmc_memcpy_buf, req,
                     through, dma_idx>>
  BY DEF FsDriver, listVars, DmaInv, InFs
<1>2. Memory' = Memory
  BY <1>1 DEF Memory, BufferCells
<1>3. through = req.buf \/ Bounce(through)
  BY <1>1 DEF DmaInv, InFs
<1>4. through \in Nat /\ Span(through) \subseteq Memory
  BY <1>3, BounceOwn DEF DmaInv, Typed
<1>5. ~req.is_write => Span(through) \subseteq Own
  BY <1>3, BounceOwn, SpanOwn DEF DmaInv
<1>6. CASE /\ ~req.is_write /\ mem' = FromCard(through) /\ UNCHANGED disk
           /\ done' = TRUE
  <2>1. /\ DOMAIN mem' = Memory
        /\ \A i \in 1..req.num_sectors : mem'[through + i - 1] = -i
        /\ \A x \in Memory \ Span(through) : mem'[x] = mem[x]
    BY <1>1, <1>4, <1>6, FromCardIs DEF DmaInv, Fresh
  <2>2. Typed'
    BY <1>1, <1>2, <1>6, <2>1 DEF DmaInv, Typed, Span
  <2>3. Moved(through)'
    BY <1>1, <1>6, <2>1 DEF Moved
  <2>4. Untouched'
    BY <1>1, <1>5, <1>6, <2>1, UntouchedKept DEF DmaInv
  <2> QED
    BY <1>1, <1>3, <1>6, <2>2, <2>3, <2>4
       DEF DmaInv, Restorable, Choosing, Fresh, InFs, InHekate, Finished,
           Bounce, Span, BufferCells
<1>7. CASE /\ req.is_write /\ disk' = ToCard(through) /\ UNCHANGED mem
           /\ done' = TRUE
  <2>1. Typed'
    BY <1>1, <1>2, <1>7 DEF DmaInv, Typed, Span, ToCard
  <2>2. Moved(through)'
    BY <1>1, <1>7 DEF Moved, ToCard, DmaInv, Typed, InFs, Whole
  <2>3. Untouched'
    BY <1>1, <1>2, <1>7 DEF DmaInv, Untouched, Own, Span, BufferCells
  <2> QED
    BY <1>1, <1>3, <1>7, <2>1, <2>2, <2>3
       DEF DmaInv, Restorable, Choosing, Fresh, InFs, InHekate, Finished,
           Bounce, Span, BufferCells
<1>8. CASE done' = FALSE /\ UNCHANGED <<mem, disk>>
  <2>1. Typed'
    BY <1>1, <1>2, <1>8 DEF DmaInv, Typed, Span
  <2>2. Untouched'
    BY <1>1, <1>2, <1>8 DEF DmaInv, Untouched, Own, Span, BufferCells
  <2> QED
    BY <1>1, <1>3, <1>8, <2>1, <2>2
       DEF DmaInv, Restorable, Choosing, Fresh, InFs, InHekate, Finished,
           Bounce, Span, BufferCells
<1> QED
  BY <1>6, <1>7, <1>8 DEF FsDriver, DmaInv, Typed

\* The entry that was lent is free again.
LEMMA FsReturnInv == DmaInv /\ FsReturn => DmaInv'
<1> SUFFICES ASSUME DmaInv, FsReturn PROVE DmaInv'
  OBVIOUS
<1>1. /\ at = "fsReturn" /\ at' = "idle" /\ dma_idx' = -1
      /\ UNCHANGED <<given, nand, custom_driver, sdmmc_memcpy_buf, req, through,
                     disk, done>>
  BY DEF FsReturn, listVars
<1>2. Memory' = Memory
  BY <1>1 DEF Memory, BufferCells
<1>3. through = req.buf \/ Bounce(through)
  BY <1>1 DEF DmaInv, InFs
<1>4. through \in Nat /\ req.buf \in Nat /\ Span(req.buf) \subseteq Memory
  BY <1>3, BounceOwn DEF DmaInv, Typed
<1>5. DOMAIN sd' = 0..3 /\ Restorable'
  <2>1. CASE dma_idx = -1
    BY <1>1, <2>1 DEF FsReturn, DmaInv, Typed, Restorable
  <2>2. CASE dma_idx # -1
    <3>1. sd' = [sd EXCEPT ![dma_idx] = Unused] /\ DOMAIN sd = 0..3
      BY <2>2 DEF FsReturn, TakenBack, DmaInv, Typed
    <3>2. dma_idx \in 1..2 /\ given[dma_idx] = Unused
      BY <2>2 DEF DmaInv, Restorable
    <3>3. \A i \in 0..3 : sd'[i] = IF i = dma_idx THEN Unused ELSE sd[i]
      BY <3>1, <3>2
    <3>4. sd'[3] = Foreign /\ \A i \in 0..2 : sd'[i] = given[i]
      BY <3>2, <3>3 DEF DmaInv, Restorable
    <3> QED BY <1>1, <3>1, <3>4 DEF Restorable
  <2> QED BY <2>1, <2>2
<1>6. CASE ~req.is_write /\ through # req.buf
  <2>1. mem' = Copied(req.buf, through)
    BY <1>6 DEF FsReturn
  <2>2. /\ DOMAIN mem' = Memory
        /\ \A i \in 1..req.num_sectors :
             mem'[req.buf + i - 1] = mem[through + i - 1]
        /\ \A x \in Memory \ Span(req.buf) : mem'[x] = mem[x]
    BY <1>4, <2>1, CopiedIs DEF DmaInv
  <2>3. Typed'
    BY <1>1, <1>2, <1>5, <2>2 DEF DmaInv, Typed, Span
  <2>4. Finished'
    BY <1>1, <1>6, <2>2 DEF Finished, Moved, DmaInv, InFs
  <2>5. Untouched'
    BY <1>1, <1>6, <2>2, SpanOwn, UntouchedKept DEF DmaInv
  <2> QED
    BY <1>1, <1>5, <2>3, <2>4, <2>5 DEF DmaInv, Choosing, Fresh, InFs, InHekate
<1>7. CASE req.is_write \/ through = req.buf
  <2>1. UNCHANGED mem
    BY <1>7 DEF FsReturn
  <2>2. Typed'
    BY <1>1, <1>2, <1>5, <2>1 DEF DmaInv, Typed, Span
  <2>3. Finished'
    BY <1>1, <1>7, <2>1 DEF Finished, Moved, DmaInv, InFs
  <2>4. Untouched'
    BY <1>1, <1>2, <2>1 DEF DmaInv, Untouched, Own, Span, BufferCells
  <2> QED
    BY <1>1, <1>5, <2>2, <2>3, <2>4 DEF DmaInv, Choosing, Fresh, InFs, InHekate
<1> QED BY <1>6, <1>7

-----------------------------------------------------------------------------
(* hekate's driver                                                         *)

\* What FS made of the list that the request goes by.
Made == IF req.current = "sd" THEN given ELSE nand

\* A device address within a buffer is that of a cell of the buffer.
LEMMA OfDeviceIs ==
  ASSUME Typed, NEW b \in Entries(given) \cup Entries(nand),
         NEW o \in Nat, o < b.size
  PROVE  OfDevice(b.masked + o) = b.addr + o
<1> DEFINE d == b.masked + o
           Seen(c) == c.masked..(c.masked + c.size - 1)
           c == CHOOSE c \in Entries(given) \cup Entries(nand) :
                  c.size > 0 /\ d \in Seen(c)
<1>1. \A e \in Entries(given) \cup Entries(nand) : e \in Buffer
  BY ListEntries DEF Entries, Typed
<1>2. b.size > 0 /\ d \in Seen(b)
  BY <1>1 DEF Buffer
<1>3. c \in Entries(given) \cup Entries(nand) /\ c.size > 0 /\ d \in Seen(c)
  BY <1>2
<1>4. b.addr - b.masked = c.addr - c.masked
  <2>1. Seen(b) \cap Seen(c) # {}
    BY <1>2, <1>3
  <2> QED BY <1>3, <2>1, PlacesAssumption DEF Entries, Typed
<1>5. OfDevice(d) = c.addr + (d - c.masked)
  BY DEF OfDevice, Entries
<1> HIDE DEF c
<1> QED
  BY <1>1, <1>3, <1>4, <1>5 DEF Buffer

LEMMA CurrentIsMade ==
  ASSUME DmaInv, at \in {"idle", "choose", "command", "copyOut"}
  PROVE  /\ \A i \in 0..2 : Current[i] = Made[i] /\ Made[i] \in Buffer
         /\ Entries(Made) \subseteq Entries(given) \cup Entries(nand)
<1>1. dma_idx = -1
  BY DEF DmaInv, Restorable
<1>2. \A i \in 0..2 : Current[i] = Made[i]
  BY <1>1 DEF DmaInv, Restorable, Current, Made
<1>3. Made \in SdLists \cup NandLists
  BY DEF DmaInv, Typed, Made
<1> QED BY <1>2, <1>3, ListEntries DEF Entries, Made

LEMMA CurrentFits ==
  ASSUME DmaInv, at = "choose"
  PROVE  LET f == sdmmc_calculate_fitting_dma_index(Current, req.num_sectors)
         IN /\ f \in 0..2 /\ Fitting(Current, req.num_sectors) # {}
            /\ Current[f] \in Buffer /\ Current[f].size >= req.num_sectors
            /\ Current[f] = Made[f]
<1>1. req.num_sectors \in 1..MaxSectors
  BY DEF DmaInv, Typed
<1>2. CASE req.current = "sd"
  BY <1>1, <1>2, SdFits, CurrentIsMade DEF Current, Made, DmaInv, Typed
<1>3. CASE req.current # "sd"
  BY <1>1, <1>3, NandFits, CurrentIsMade DEF Current, Made, DmaInv, Typed
<1> QED BY <1>2, <1>3

\* The address that the controller is given for a buffer that it can reach.
LEMMA ReachedDirectly ==
  ASSUME DmaInv, at = "choose",
         sdmmc_calculate_dma_addr(Current, req.buf, req.num_sectors) # 0
  PROVE  OfDevice(sdmmc_calculate_dma_addr(Current, req.buf, req.num_sectors))
           = req.buf
<1> DEFINE S == Holding(Current, req.buf, req.num_sectors)
           i == Least(S)
           b == Current[i]
<1>1. S # {} /\ S \in SUBSET (0..2)
  BY DEF sdmmc_calculate_dma_addr, Holding
<1>2. i \in S
  BY <1>1, LeastIn
<1>3. i \in 0..2 /\ Inside(b, req.buf, req.num_sectors)
  BY <1>1, <1>2 DEF Holding
<1>4. b \in Entries(given) \cup Entries(nand) /\ b \in Buffer
  BY <1>3, CurrentIsMade DEF Entries
<1>5. sdmmc_calculate_dma_addr(Current, req.buf, req.num_sectors)
        = b.masked + (req.buf - b.addr)
  BY <1>1 DEF sdmmc_calculate_dma_addr, sdmmc_calculate_dma_index
<1>6. req.num_sectors \in Nat \ {0} /\ req.buf \in Nat
  BY PlacesAssumption DEF DmaInv, Typed
<1> HIDE DEF b
<1>7. req.buf - b.addr \in Nat /\ req.buf - b.addr < b.size
  BY <1>3, <1>4, <1>6 DEF Inside, Buffer
<1>8. OfDevice(b.masked + (req.buf - b.addr)) = b.addr + (req.buf - b.addr)
  BY <1>4, <1>7, OfDeviceIs DEF DmaInv
<1> QED BY <1>4, <1>5, <1>6, <1>8 DEF Buffer

LEMMA OfDeviceKept ==
  ASSUME UNCHANGED <<given, nand>>
  PROVE  OfDevice(through)' = OfDevice(through')
BY DEF OfDevice

LEMMA ConfigInv == DmaInv /\ Config => DmaInv'
<1> SUFFICES ASSUME DmaInv, Config PROVE DmaInv'
  OBVIOUS
<1> DEFINE admaaddr ==
             sdmmc_calculate_dma_addr(Current, req.buf, req.num_sectors)
           f == sdmmc_calculate_fitting_dma_index(Current, req.num_sectors)
<1>1. /\ at = "choose" /\ at' = "command" /\ custom_driver
      /\ UNCHANGED <<given, nand, custom_driver, sd, req, dma_idx, disk, done>>
  BY DEF Config, listVars
<1>2. /\ mem = [a \in Memory |-> a] /\ req.num_sectors \in Nat \ {0}
      /\ req.buf \in Nat /\ Span(req.buf) \subseteq Memory
  BY <1>1, PlacesAssumption DEF DmaInv, Choosing, Typed
<1>3. \A i \in 1..req.num_sectors : mem[req.buf + i - 1] = req.buf + i - 1
  BY <1>2 DEF Span
<1>4. Memory' = Memory /\ Own' = Own /\ Current' = Current
  BY <1>1 DEF Memory, Own, BufferCells, Span, Current
<1>5. Restorable' /\ Fresh'
  BY <1>1 DEF DmaInv, Restorable, Fresh
<1>6. CASE admaaddr # 0
  <2>1. through' = admaaddr /\ sdmmc_memcpy_buf' = FALSE /\ UNCHANGED mem
    BY <1>6 DEF Config
  <2>2. Target' = req.buf /\ OfDevice(through)' = req.buf
    BY <1>1, <1>6, <2>1, ReachedDirectly, OfDeviceKept DEF Target
  <2>3. Typed'
    BY <1>1, <1>4, <2>1 DEF DmaInv, Typed, Span
  <2>4. InHekate'
    BY <1>1, <1>3, <2>1, <2>2 DEF InHekate, Whole
  <2>5. Untouched'
    BY <1>4, <2>1 DEF DmaInv, Untouched
  <2> QED
    BY <1>1, <1>5, <2>3, <2>4, <2>5 DEF DmaInv, Choosing, InFs, Finished
<1>7. CASE admaaddr = 0
  <2>1. /\ f \in 0..2 /\ Current[f] \in Buffer
        /\ Current[f].size >= req.num_sectors
        /\ Fitting(Current, req.num_sectors) # {}
        /\ Current[f] = Made[f]
    BY <1>1, CurrentFits
  <2>2. /\ through' = Current[f].masked /\ last_dma_idx' = f
        /\ sdmmc_memcpy_buf' = TRUE
        /\ mem' = IF req.is_write THEN Copied(Current[f].addr, req.buf) ELSE mem
    BY <1>7, <2>1 DEF Config, MemcpyBuf
  <2>3. Target' = Current[f].addr
    BY <1>4, <2>2 DEF Target
  <2>4. OfDevice(through)' = Current[f].addr
    <3>1. Current[f] \in Entries(given) \cup Entries(nand)
      BY <1>1, <2>1, CurrentIsMade DEF Entries
    <3>2. OfDevice(Current[f].masked + 0) = Current[f].addr + 0
      BY <1>2, <2>1, <3>1, OfDeviceIs DEF DmaInv, Buffer
    <3>3. OfDevice(through') = Current[f].addr
      BY <2>1, <2>2, <3>2 DEF Buffer
    <3> QED BY <1>1, <3>3, OfDeviceKept
  <2>5. Bounce(Current[f].addr)
    BY <1>1, <1>2, <2>1, SpanInCells
       DEF Bounce, Span, BufferCells, Made, DmaInv, Typed
  <2>6. /\ Span(Current[f].addr) \subseteq Own
        /\ Span(Current[f].addr) \subseteq Memory /\ Current[f].addr \in Nat
    BY <2>5, BounceOwn DEF DmaInv
  <2>7. /\ DOMAIN mem' = Memory
        /\ \A x \in Memory \ Span(Current[f].addr) : mem'[x] = mem[x]
        /\ req.is_write =>
             \A i \in 1..req.num_sectors :
               mem'[Current[f].addr + i - 1] = req.buf + i - 1
    <3>1. CASE req.is_write
      <4>1. mem' = Copied(Current[f].addr, req.buf)
        BY <2>2, <3>1
      <4>2. /\ DOMAIN mem' = Memory
            /\ \A x \in Memory \ Span(Current[f].addr) : mem'[x] = mem[x]
            /\ \A i \in 1..req.num_sectors :
                 mem'[Current[f].addr + i - 1] = mem[req.buf + i - 1]
        BY <1>2, <2>6, <4>1, CopiedIs DEF DmaInv
      <4> QED BY <1>3, <4>2
    <3>2. CASE ~req.is_write
      BY <2>2, <3>2 DEF DmaInv, Typed
    <3> QED BY <3>1, <3>2
  <2>8. Typed'
    BY <1>1, <1>4, <2>2, <2>7 DEF DmaInv, Typed, Span
  <2>9. Bounce(Target)'
    BY <1>1, <2>3, <2>5 DEF Bounce, Span, BufferCells
  <2>10. req.is_write' => Whole(Target)'
    BY <1>1, <2>3, <2>7 DEF Whole
  <2>11. InHekate'
    BY <1>1, <2>3, <2>4, <2>9, <2>10 DEF InHekate
  <2>12. Untouched'
    BY <1>1, <2>6, <2>7, UntouchedKept DEF DmaInv
  <2> QED
    BY <1>1, <1>5, <2>8, <2>11, <2>12 DEF DmaInv, Choosing, InFs, Finished
<1> QED BY <1>6, <1>7

LEMMA CommandInv == DmaInv /\ Command => DmaInv'
<1> SUFFICES ASSUME DmaInv, Command PROVE DmaInv'
  OBVIOUS
<1>1. /\ at = "command" /\ custom_driver
      /\ UNCHANGED <<given, nand, custom_driver, sd, sdmmc_memcpy_buf,
                     last_dma_idx, req, through, dma_idx>>
      /\ \/ done' = TRUE /\ at' = "copyOut"
         \/ done' = FALSE /\ at' = "idle"
  BY DEF Command, listVars, DmaInv, InHekate
<1>2. Memory' = Memory /\ Own' = Own /\ Target' = Target
  BY <1>1 DEF Memory, Own, BufferCells, Span, Target, Current
<1>3. OfDevice(through) = Target /\ (Target = req.buf \/ Bounce(Target))
  BY <1>1 DEF DmaInv, InHekate
<1>4. Target \in Nat /\ Span(Target) \subseteq Memory
  BY <1>3, BounceOwn DEF DmaInv, Typed
<1>5. ~req.is_write => Span(Target) \subseteq Own
  BY <1>3, BounceOwn, SpanOwn DEF DmaInv
<1>6. Restorable' /\ (Target = req.buf \/ Bounce(Target))'
  BY <1>1, <1>2, <1>3 DEF DmaInv, Restorable, Bounce, Span, BufferCells
<1>7. CASE ~req.is_write /\ mem' = FromCard(Target) /\ UNCHANGED disk
  <2>1. /\ DOMAIN mem' = Memory
        /\ \A i \in 1..req.num_sectors : mem'[Target + i - 1] = -i
        /\ \A x \in Memory \ Span(Target) : mem'[x] = mem[x]
    BY <1>1, <1>4, <1>7, FromCardIs DEF DmaInv, Fresh
  <2>2. Typed'
    BY <1>1, <1>2, <1>7, <2>1 DEF DmaInv, Typed, Span
  <2>3. Moved(Target)'
    BY <1>1, <1>2, <1>7, <2>1 DEF Moved
  <2>4. Untouched'
    BY <1>1, <1>5, <1>7, <2>1, UntouchedKept DEF DmaInv
  <2> QED
    BY <1>1, <1>6, <2>2, <2>3, <2>4
       DEF DmaInv, Choosing, Fresh, InFs, InHekate, Finished
<1>8. CASE req.is_write /\ disk' = ToCard(Target) /\ UNCHANGED mem
  <2>1. Typed'
    BY <1>1, <1>2, <1>8 DEF DmaInv, Typed, Span, ToCard
  <2>2. Moved(Target)'
    BY <1>1, <1>2, <1>8 DEF Moved, ToCard, DmaInv, Typed, InHekate, Whole
  <2>3. Untouched'
    BY <1>2, <1>8 DEF DmaInv, Untouched
  <2> QED
    BY <1>1, <1>6, <2>1, <2>2, <2>3
       DEF DmaInv, Choosing, Fresh, InFs, InHekate, Finished
<1>9. CASE done' = FALSE /\ UNCHANGED <<mem, disk>>
  <2>1. Typed'
    BY <1>1, <1>2, <1>9 DEF DmaInv, Typed, Span
  <2>2. Untouched'
    BY <1>2, <1>9 DEF DmaInv, Untouched
  <2> QED
    BY <1>1, <1>6, <1>9, <2>1, <2>2
       DEF DmaInv, Choosing, Fresh, InFs, InHekate, Finished
<1> QED
  BY <1>3, <1>7, <1>8, <1>9 DEF Command, DmaInv, Typed

LEMMA CopyOutInv == DmaInv /\ CopyOut => DmaInv'
<1> SUFFICES ASSUME DmaInv, CopyOut PROVE DmaInv'
  OBVIOUS
<1>1. /\ at = "copyOut" /\ at' = "idle" /\ custom_driver
      /\ UNCHANGED <<given, nand, custom_driver, sd, sdmmc_memcpy_buf,
                     last_dma_idx, req, through, dma_idx, disk, done>>
  BY DEF CopyOut, listVars, DmaInv, InHekate
<1>2. Memory' = Memory /\ Own' = Own
  BY <1>1 DEF Memory, Own, BufferCells, Span
<1>3. Moved(Target) /\ (Target = req.buf \/ Bounce(Target))
  BY <1>1 DEF DmaInv, InHekate
<1>4. Target \in Nat /\ req.buf \in Nat /\ Span(req.buf) \subseteq Memory
  BY <1>3, BounceOwn DEF DmaInv, Typed
<1>5. Restorable'
  BY <1>1 DEF DmaInv, Restorable
<1>6. CASE sdmmc_memcpy_buf /\ ~req.is_write
  <2>1. mem' = Copied(req.buf, Target)
    BY <1>6 DEF CopyOut, Target
  <2>2. /\ DOMAIN mem' = Memory
        /\ \A i \in 1..req.num_sectors :
             mem'[req.buf + i - 1] = mem[Target + i - 1]
        /\ \A x \in Memory \ Span(req.buf) : mem'[x] = mem[x]
    BY <1>4, <2>1, CopiedIs DEF DmaInv
  <2>3. Typed'
    BY <1>1, <1>2, <2>2 DEF DmaInv, Typed, Span
  <2>4. Finished'
    BY <1>1, <1>3, <1>6, <2>2 DEF Finished, Moved
  <2>5. Untouched'
    BY <1>1, <1>6, <2>2, SpanOwn, UntouchedKept DEF DmaInv
  <2> QED
    BY <1>1, <1>5, <2>3, <2>4, <2>5 DEF DmaInv, Choosing, Fresh, InFs, InHekate
<1>7. CASE ~sdmmc_memcpy_buf \/ req.is_write
  <2>1. UNCHANGED mem
    BY <1>7 DEF CopyOut
  <2>2. Typed'
    BY <1>1, <1>2, <2>1 DEF DmaInv, Typed, Span
  <2>3. Finished'
    BY <1>1, <1>3, <1>7, <2>1 DEF Finished, Moved, Target
  <2>4. Untouched'
    BY <1>2, <2>1 DEF DmaInv, Untouched
  <2> QED
    BY <1>1, <1>5, <2>2, <2>3, <2>4 DEF DmaInv, Choosing, Fresh, InFs, InHekate
<1> QED BY <1>6, <1>7

-----------------------------------------------------------------------------
(* Theorems                                                                *)

LEMMA DmaInvNext == DmaInv /\ [DmaNext]_dmaVars => DmaInv'
<1> SUFFICES ASSUME DmaInv, [DmaNext]_dmaVars PROVE DmaInv'
  OBVIOUS
<1>1. CASE UNCHANGED dmaVars
  <2> USE <1>1 DEF dmaVars, listVars
  <2>1. Memory' = Memory /\ Own' = Own /\ Target' = Target
    BY DEF Memory, Own, BufferCells, Span, Target, Current
  <2>2. OfDevice(through)' = OfDevice(through)
    BY OfDeviceKept
  <2>3. Typed' /\ Restorable' /\ Choosing' /\ Fresh' /\ Untouched'
    BY <2>1
       DEF DmaInv, Typed, Span, Restorable, Choosing, Fresh, Untouched
  <2>4. InFs'
    BY DEF DmaInv, InFs, Whole, Moved, Bounce, Span, BufferCells
  <2>5. InHekate' /\ Finished'
    BY <2>1, <2>2
       DEF DmaInv, InHekate, Finished, Whole, Moved, Bounce, Span, BufferCells
  <2> QED BY <2>3, <2>4, <2>5 DEF DmaInv
<1>2. CASE DmaNext
  BY <1>2, RequestInv, SwapInv, DirectInv, LendInv, HeapBufferInv, FsDriverInv,
     FsReturnInv, ConfigInv, CommandInv, CopyOutInv DEF DmaNext
<1> QED BY <1>1, <1>2

LEMMA DmaInvariant == DmaSpec => []DmaInv
BY DmaInvInit, DmaInvNext, PTL DEF DmaSpec

\* Between calls FS finds its list of buffers as it made it, whatever lists it
\* made: what a call lends to the SD accessor goes into a free entry and is
\* taken back, failed or not (sdmmc.c, 381 to 395).
THEOREM ListsAreRestored == DmaSpec => []ListRestored
<1>1. DmaInv => ListRestored
  BY DEF DmaInv, Restorable, ListRestored
<1> QED BY <1>1, DmaInvariant, PTL

\* A transfer that succeeds has moved each sector between the card and the
\* caller's buffer, by either driver, directly, through a buffer lent or through
\* a bounce buffer; and no call changes memory of anyone else (sdmmc.c, 155 and
\* 383; sdmmc_driver.c, 980).
THEOREM DataIsDelivered == DmaSpec => []Delivered
<1>1. DmaInv => Delivered
  BY DEF DmaInv, Finished, Moved, Untouched, Delivered, Typed
<1> QED BY <1>1, DmaInvariant, PTL

\* FS's driver knows the buffers of the SD accessor only (external): wherever the
\* caller's buffer lies, one of FS's eMMC accessor or a heap, it is sent to cells
\* that it finds in a single entry of its list (sdmmc.c, 371 to 404, 424 to 457).
Reachable == at = "fsDriver" => Holding(sd, through, req.num_sectors) # {}

THEOREM FsDriverFindsTheBuffer == DmaSpec => []Reachable
<1>1. DmaInit => Reachable
  BY DEF DmaInit, Reachable
<1>2. ASSUME DmaInv, Reachable, [DmaNext]_dmaVars PROVE Reachable'
  <2> USE <1>2 DEF Reachable
  <2>1. CASE Direct
    <3>1. Holding(sd, req.buf, req.num_sectors) # {}
      BY <2>1 DEF Direct, OnSd, sdmmc_calculate_dma_addr
    <3> QED BY <2>1, <3>1, FsCalls DEF Direct
  <2>2. CASE Lend
    <3> DEFINE original == sdmmc_calculate_dma_index(nand, req.buf, req.num_sectors)
    <3>1. Inside(nand[original], req.buf, req.num_sectors)
      <4>1. Holding(nand, req.buf, req.num_sectors) # {}
        BY <2>2 DEF Lend, OnNand, sdmmc_calculate_dma_addr
      <4>2. Holding(nand, req.buf, req.num_sectors) \in SUBSET (0..2)
        BY DEF Holding
      <4>3. original \in Holding(nand, req.buf, req.num_sectors)
        BY <4>1, <4>2, LeastIn DEF sdmmc_calculate_dma_index
      <4> QED BY <4>3 DEF Holding
    <3>2. /\ dma_idx' \in 1..2 /\ sd' = [sd EXCEPT ![dma_idx'] = nand[original]]
          /\ through' = req.buf /\ req' = req
      BY <2>2, FsCalls, SdFits DEF Lend, DmaInv, Typed
    <3>3. sd'[dma_idx'] = nand[original]
      BY <3>2 DEF DmaInv, Typed
    <3> QED BY <3>1, <3>2, <3>3 DEF Holding
  <2>3. CASE HeapBuffer
    <3> DEFINE f == sdmmc_calculate_fitting_dma_index(sd, req.num_sectors)
    <3>1. /\ f \in 0..1 /\ sd[f] \in Buffer /\ sd[f].size >= req.num_sectors
          /\ req.num_sectors \in Nat /\ req' = req
      BY <2>3, FsCalls, SdFits DEF HeapBuffer, DmaInv, Typed
    <3>2. through' = sd[f].addr /\ sd' = sd
      BY <2>3 DEF HeapBuffer
    <3>3. Inside(sd[f], sd[f].addr, req.num_sectors)
      BY <3>1 DEF Inside, Buffer
    <3> QED BY <3>1, <3>2, <3>3 DEF Holding
  <2>4. CASE Request \/ Swap \/ FsDriver \/ FsReturn
    BY <2>4 DEF Request, Swap, FsDriver, FsReturn
  <2>5. CASE Config \/ Command \/ CopyOut
    BY <2>5 DEF Config, Command, CopyOut
  <2>6. CASE UNCHANGED dmaVars
    BY <2>6 DEF dmaVars
  <2> QED BY <2>1, <2>2, <2>3, <2>4, <2>5, <2>6 DEF DmaNext
<1> QED BY DmaInvariant, <1>1, <1>2, PTL DEF DmaSpec
=============================================================================
