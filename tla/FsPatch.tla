------------------------------- MODULE FsPatch ------------------------------
(***************************************************************************)
(* The AArch64 instructions that emuMMC writes over FS's code              *)
(* (source/main.c, GENERATE_* and write_adrp_add), and what the processor  *)
(* makes of them (external).                                               *)
(*                                                                         *)
(* An address is its distance in bytes from text_base, the page-aligned    *)
(* start of the injected image, which lies directly before FS's code; an   *)
(* instruction is its operation and its fields.                            *)
(***************************************************************************)
EXTENDS Integers

PageSize == 4096
Imm26 == 67108864     \* 2^26
Imm21 == 2097152      \* 2^21
Window == 1048576     \* 2^20 pages, 4 GB

\* Mutant of GENERATE_BRANCH: the distance in bytes, not in words.
GENERATE_BRANCH_Bytes(source, destination) ==
  [op |-> "b", imm |-> (destination - source) % Imm26]

GENERATE_BRANCH(source, destination) ==
  [op |-> "b", imm |-> ((destination - source) \div 4) % Imm26]

GENERATE_NOP == [op |-> "nop"]

\* page_addr, an offset in pages, is cut to 21 bits.
GENERATE_ADRP(register, page_addr) ==
  [op |-> "adrp", reg |-> register, imm |-> page_addr % Imm21]

GENERATE_ADD(register, register_target, value) ==
  [op |-> "add", reg |-> register, target |-> register_target, imm |-> value]

\* Mutant of PageOffset: the destination's page alone.
PageOffsetAbsolute(pc, destination) == destination % Window

\* (destination & 0xFFFFF000) - (pc & 0xFFFFF000), of the pages of the two: the
\* mask is 32 bits wide, and what lies above 4 GB is dropped.
PageOffset(pc, destination) == (destination % Window) - (pc % Window)

-----------------------------------------------------------------------------
(* The processor                                                           *)

Signed(imm, n) == IF imm < n \div 2 THEN imm ELSE imm - n

\* Where the branch b at address at goes.
BranchTarget(b, at) == at + 4 * Signed(b.imm, Imm26)

\* The page that the ADRP a leaves in its register, executed in page pc.
AdrpPage(a, pc) == pc + Signed(a.imm, Imm21)
=============================================================================
