----------------------------- MODULE MCSdAccess ------------------------------
(***************************************************************************)
(* The two halves of the way to the SD card below SdTransfer: the bring-up *)
(* of the card, and the buffers of a transfer.  They share no variable, so *)
(* that every interleaving of them is covered by each of them alone: a     *)
(* behaviour here is one of the two.                                       *)
(***************************************************************************)
EXTENDS SdInit, DmaBuffers

VARIABLE half   (* "bring-up" or "buffers"                                 *)

MCConsole(soc, v2, hc, s18, functions) ==
  [soc |-> soc, v2 |-> v2, hc |-> hc, s18 |-> s18, functions |-> functions,
   w4 |-> TRUE]

\* A card of version 1, one that stays at 3.3 V, a fast one, and two that lack
\* the fastest access modes; on both SoCs.
MCConsoles ==
  {MCConsole("Erista", FALSE, FALSE, FALSE, {12}),
   MCConsole("Erista", TRUE,  TRUE,  FALSE, {12, 25}),
   MCConsole("Mariko", TRUE,  TRUE,  TRUE,  {12, 25, 50, 104}),
   MCConsole("Erista", TRUE,  TRUE,  TRUE,  {12, 25, 50}),
   MCConsole("Mariko", TRUE,  TRUE,  TRUE,  {12, 25})}

MCBuffer(addr, size) == [addr |-> addr, size |-> size, masked |-> 100 + addr]
MCUnused == [addr |-> 0, size |-> 0, masked |-> 0]
MCList(a, b, c) == [i \in 0..2 |-> <<a, b, c>>[i + 1]]

\* The SD accessor's only buffer is its first or its second; the eMMC
\* accessor's are three, of which the first may be too small.
MCSdLists ==
  {MCList(MCBuffer(1, 3), MCUnused, MCUnused),
   MCList(MCUnused, MCBuffer(1, 3), MCUnused),
   MCList(MCBuffer(1, 3), MCUnused, MCBuffer(4, 2))}
MCNandLists ==
  {MCList(MCBuffer(6, 2), MCUnused, MCUnused),
   MCList(MCBuffer(6, 1), MCBuffer(8, 2), MCBuffer(10, 2))}
MCHeap == 12..14

\* The half that stands still has one initial state.
MCInit ==
  /\ half \in {"bring-up", "buffers"} /\ Init /\ DmaInit
  /\ half = "bring-up" =>
       /\ given = CHOOSE l \in SdLists : TRUE
       /\ nand = CHOOSE l \in NandLists : TRUE
  /\ half = "buffers" =>
       /\ console = CHOOSE c \in Consoles : TRUE
       /\ ~h.pin /\ h.source = HostClock(25000)

MCNext ==
  /\ UNCHANGED half
  /\ \/ half = "bring-up" /\ Next /\ UNCHANGED dmaVars
     \/ half = "buffers" /\ DmaNext /\ UNCHANGED vars

MCSpec == MCInit /\ [][MCNext]_<<half, vars, dmaVars>>
=============================================================================
