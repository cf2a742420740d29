-------------------------- MODULE SdCommandProofs --------------------------
(***************************************************************************)
(* Proofs about SdCommand, for every size of blocks, of the stretches that *)
(* the DMA goes by itself and of the commands, and any buffer.             *)
(***************************************************************************)
EXTENDS SdCommand, TLAPS

(* The commands of the driver; those with data wait for the data line.     *)
LEMMA CommandShape ==
  ASSUME NEW c \in Commands
  PROVE  /\ c.blocks \in Nat /\ c.check_busy \in BOOLEAN /\ c.wait_dat \in BOOLEAN
         /\ c.blocks > 0 => c.wait_dat /\ ~c.check_busy
<1> USE BlocksAssumption
<1>1. CASE c \in {[blocks |-> n, check_busy |-> FALSE, wait_dat |-> n > 0] : n \in 0..MaxBlocks}
  <2>1. PICK n \in 0..MaxBlocks : c = [blocks |-> n, check_busy |-> FALSE, wait_dat |-> n > 0]
    BY <1>1
  <2>2. CASE n > 0
    <3>1. c = [blocks |-> n, check_busy |-> FALSE, wait_dat |-> TRUE]
      BY <2>1, <2>2
    <3> QED BY <3>1
  <2>3. CASE ~(n > 0)
    <3>0. (n > 0) = FALSE
      BY <2>3
    <3>1. c = [blocks |-> n, check_busy |-> FALSE, wait_dat |-> FALSE]
      BY <2>1, <3>0
    <3> QED BY <3>1, <2>3
  <2> QED BY <2>2, <2>3
<1>2. CASE c \in {[blocks |-> 0, check_busy |-> TRUE, wait_dat |-> w] : w \in BOOLEAN}
  <2>1. PICK w \in BOOLEAN : c = [blocks |-> 0, check_busy |-> TRUE, wait_dat |-> w]
    BY <1>2
  <2>2. c.blocks = 0 /\ c.check_busy = TRUE /\ c.wait_dat = w
    BY <2>1
  <2>3. /\ c.blocks \in Nat /\ ~(c.blocks > 0)
    BY <2>2
  <2>4. c.check_busy \in BOOLEAN /\ c.wait_dat \in BOOLEAN
    BY <2>2
  <2> QED BY <2>3, <2>4
<1> QED BY <1>1, <1>2 DEF Commands

CmdLines  == [st : {"free", "sent", "lost"}, own : BOOLEAN]
DataLines == [st : {"free", "waiting", "moving", "stopped", "busy", "lost"},
              own : BOOLEAN, moved : Nat]

(* What the controller does to its two lines leaves them lines.            *)
LEMMA LineShapes ==
  /\ FreeCmd \in CmdLines /\ FreeData \in DataLines
  /\ [FreeData EXCEPT !.st = "busy"] \in DataLines
  /\ \A c \in CmdLines : [c EXCEPT !.st = "lost"] \in CmdLines
  /\ \A d \in DataLines, s \in {"free", "moving", "stopped", "lost"} :
       [d EXCEPT !.st = s] \in DataLines
  /\ \A d \in DataLines, n \in Nat :
       /\ [d EXCEPT !.moved = n] \in DataLines
       /\ [d EXCEPT !.st = "free", !.moved = n] \in DataLines
       /\ [d EXCEPT !.st = "stopped", !.moved = n] \in DataLines
<1>1. FreeCmd \in CmdLines /\ FreeData \in DataLines
  BY DEF FreeCmd, FreeData, CmdLines, DataLines
<1>2. [FreeData EXCEPT !.st = "busy"] \in DataLines
  BY DEF FreeData, DataLines
<1>3. \A c \in CmdLines : [c EXCEPT !.st = "lost"] \in CmdLines
  BY DEF CmdLines
<1>4. \A d \in DataLines, s \in {"free", "moving", "stopped", "lost"} :
        [d EXCEPT !.st = s] \in DataLines
  BY DEF DataLines
<1>5. \A d \in DataLines, n \in Nat :
        /\ [d EXCEPT !.moved = n] \in DataLines
        /\ [d EXCEPT !.st = "free", !.moved = n] \in DataLines
        /\ [d EXCEPT !.st = "stopped", !.moved = n] \in DataLines
  BY DEF DataLines
<1> QED BY <1>1, <1>2, <1>3, <1>4, <1>5

-----------------------------------------------------------------------------
(* Addresses, blocks and commands                                          *)

(* The boundary that dma_addr_next is set to lies above the address, at most
   one stretch away.                                                       *)
LEMMA NextBoundaryMeets ==
  ASSUME NEW a \in Nat
  PROVE  /\ NextBoundary(a) \in Nat
         /\ NextBoundary(a) % Boundary = 0
         /\ a < NextBoundary(a) /\ NextBoundary(a) <= a + Boundary
<1> USE BoundaryAssumption
<1> DEFINE q == (a + Boundary) \div Boundary
<1>1. /\ q \in Int /\ a + Boundary = q * Boundary + ((a + Boundary) % Boundary)
      /\ (a + Boundary) % Boundary \in 0..(Boundary - 1)
  OBVIOUS
<1>2. (q * Boundary) % Boundary = 0 /\ q * Boundary \in Int
  BY <1>1
<1> QED BY <1>1, <1>2 DEF NextBoundary

(* A command with data has units to move, as many as fill its blocks.      *)
LEMMA UnitsType ==
  ASSUME TypeOK
  PROVE  cmd.blocks \in Nat /\ Units \in Nat /\ (HasData => Units > 0)
         /\ Units \div BlkSize = cmd.blocks
<1>1. cmd.blocks \in Nat
  BY BlocksAssumption DEF TypeOK, Commands
<1> QED BY <1>1, BlkAssumption DEF Units, HasData

(* The blocks that have moved only grow more.                              *)
LEMMA BlocksMonotone ==
  ASSUME NEW m \in Nat, NEW n \in Nat, m <= n
  PROVE  m \div BlkSize \in Nat /\ m \div BlkSize <= n \div BlkSize
BY BlkAssumption

(* A DMA below such a boundary that comes to a boundary has come to it.    *)
LEMMA BoundaryMet ==
  ASSUME NEW a \in Nat, NEW n \in Nat, n % Boundary = 0, a < n, n <= a + Boundary,
         (a + 1) % Boundary = 0
  PROVE  a + 1 = n
<1> USE BoundaryAssumption
<1> DEFINE p == n \div Boundary
           q == (a + 1) \div Boundary
<1>1. p \in Int /\ q \in Int /\ n = p * Boundary /\ a + 1 = q * Boundary
  OBVIOUS
<1>2. (p - q) * Boundary = p * Boundary - q * Boundary
  BY <1>1
<1>3. (p - q) * Boundary >= 0 /\ (p - q) * Boundary < Boundary
  BY <1>1, <1>2
<1>4. p - q = 0
  BY <1>1, <1>3
<1> QED BY <1>1, <1>4

(* A boundary further is a boundary.                                       *)
LEMMA BoundaryAfter ==
  ASSUME NEW n \in Nat, n % Boundary = 0
  PROVE  (n + Boundary) % Boundary = 0
<1> USE BoundaryAssumption
<1> DEFINE p == n \div Boundary
<1>1. p \in Int /\ n = p * Boundary
  OBVIOUS
<1>2. n + Boundary = (p + 1) * Boundary
  BY <1>1
<1> HIDE DEF p
<1>3. \A k \in Int : (k * Boundary) % Boundary = 0
  OBVIOUS
<1> QED BY <1>1, <1>2, <1>3

(* The next unit is placed next to those before.                           *)
LEMMA FirstUnitsNext ==
  ASSUME NEW n \in Nat
  PROVE  FirstUnits(n + 1) = FirstUnits(n) \cup {<<n, start + n>>}
<1>1. 0..(n + 1 - 1) = 0..(n - 1) \cup {n}
  OBVIOUS
<1> QED BY <1>1 DEF FirstUnits

-----------------------------------------------------------------------------
(* The data line is its command's own                                      *)

(* A command with data has the data line to itself.                        *)
LEMMA LineNext ==
  TypeOK /\ CmdInv /\ LineInv /\ [Next]_vars => LineInv'
<1> SUFFICES ASSUME TypeOK, CmdInv, LineInv, [Next]_vars
             PROVE  LineInv'
  OBVIOUS
<1> USE DEF TypeOK, CmdInv, LineInv, Success, Before, Waiting, Done, HasData,
            drvVars, clkVars, intVars, dmaVars, ctlVars
<1>1. CASE Powersave
  BY <1>1 DEF Powersave
<1>2. CASE Call
  <2>1. cmd'.blocks > 0 => cmd'.wait_dat /\ ~cmd'.check_busy
    BY <1>2, CommandShape DEF Call
  <2>2. ~data_line'.own /\ pc' = "waitCmd"
    BY <1>2 DEF Call
  <2> QED BY <2>1, <2>2
<1>3. CASE WaitCmd
  <2>1. CASE Reset("idle")
    BY <1>3, <2>1 DEF WaitCmd, Reset, ResetLines, Return, FreeCmd, FreeData
  <2>2. CASE ~Reset("idle")
    BY <1>3, <2>2 DEF WaitCmd, WaitsData
  <2> QED BY <2>1, <2>2
<1>4. CASE WaitData
  <2>1. CASE Reset("idle")
    BY <1>4, <2>1 DEF WaitData, Reset, ResetLines, Return, FreeCmd, FreeData
  <2>2. CASE ~Reset("idle")
    BY <1>4, <2>2 DEF WaitData
  <2> QED BY <2>1, <2>2
<1>5. CASE Config
  BY <1>5 DEF Config, ClearInterrupts
<1>6. CASE Send
  BY <1>6 DEF Send
<1>7. CASE WaitResponse
  BY <1>7 DEF WaitResponse, Sees, AckResponse, Reset, ResetLines, Return, FreeCmd,
     FreeData
<1>8. CASE DataEnd
  BY <1>8 DEF DataEnd, Sees
<1>9. CASE DmaEnd
  BY <1>9 DEF DmaEnd, Sees
<1>10. CASE UpdateDma
  BY <1>10 DEF UpdateDma
<1>11. CASE DataError
  BY <1>11 DEF DataError, SeesError, Reset, ResetLines, Return, FreeCmd, FreeData
<1>12. CASE DataLate
  BY <1>12 DEF DataLate
<1>13. CASE DataRound
  <2>1. CASE Reset("maskFailed")
    BY <1>13, <2>1 DEF DataRound, Reset, ResetLines, Return, FreeCmd, FreeData
  <2>2. CASE ~Reset("maskFailed")
    BY <1>13, <2>2 DEF DataRound
  <2> QED BY <2>1, <2>2
<1>14. CASE Mask
  BY <1>14 DEF Mask, Return
<1>15. CASE WaitBusy
  <2>1. CASE Reset("idle")
    BY <1>15, <2>1 DEF WaitBusy, Reset, ResetLines, Return, FreeCmd, FreeData
  <2>2. CASE ~Reset("idle")
    BY <1>15, <2>2 DEF WaitBusy, Return
  <2> QED BY <2>1, <2>2
<1>16. CASE Respond
  BY <1>16 DEF Respond, Raise, FreeCmd, FreeData
<1>17. CASE Move
  <2>1. /\ data_line.st = "moving" /\ data_line'.own = data_line.own
        /\ UNCHANGED <<pc, cmd, result>>
    BY <1>17 DEF Move
  <2>2. \/ data_line'.st = "free" /\ intsts' \in {intsts, intsts \cup {"dataEnd"}}
        \/ data_line'.st = "stopped" /\ intsts' \in {intsts, intsts \cup {"dmaEnd"}}
        \/ data_line'.st = "moving" /\ intsts' = intsts
    BY <1>17 DEF Move, Raise
  <2> QED BY <2>1, <2>2
<1>18. CASE Unbusy
  <2>1. UNCHANGED <<pc, cmd, result>>
    BY <1>18 DEF Unbusy
  <2>2. \/ UNCHANGED <<data_line, intsts>>
        \/ /\ data_line.st = "busy" /\ data_line'.st = "free" /\ ~data_line'.own
           /\ intsts' \in {intsts, intsts \cup {"dataEnd"}}
    BY <1>18 DEF Unbusy, Raise, FreeData
  <2> QED BY <2>1, <2>2
<1>19. CASE Break
  BY <1>19 DEF Break, Raise
<1>20. CASE UNCHANGED vars
  BY <1>20 DEF vars
<1> QED
  BY <1>1, <1>2, <1>3, <1>4, <1>5, <1>6, <1>7, <1>8, <1>9,
     <1>10, <1>11, <1>12, <1>13, <1>14, <1>15, <1>16, <1>17, <1>18,
     <1>19, <1>20
  DEF Next, Driver, Controller

(* The controller's reset, done or not, and what it leaves alone.          *)
LEMMA ResetType ==
  ASSUME TypeOK, NEW to \in {"idle", "maskFailed"}, Reset(to)
  PROVE  TypeOK'
<1>1. pc' = to /\ result' \in BOOLEAN /\ clkcon' \in BOOLEAN /\ fault' \in BOOLEAN
  BY DEF Reset, Return, ClockBack, TypeOK, CanAct
<1>2. /\ intsts' \subseteq {"response", "dataEnd", "dmaEnd", "error"}
      /\ cmd_line' \in CmdLines /\ data_line' \in DataLines
  <2>0. /\ intsts \subseteq {"response", "dataEnd", "dmaEnd", "error"}
        /\ cmd_line \in CmdLines /\ data_line \in DataLines
    BY DEF TypeOK, CmdLines, DataLines
  <2> QED BY <2>0, LineShapes DEF Reset, ResetLines
<1>3. UNCHANGED <<drvVars, enabled, dmaVars, dat0_low, rspreg_own, rsp_own, placed>>
  BY DEF Reset
<1> QED BY <1>1, <1>2, <1>3 DEF TypeOK, drvVars, dmaVars, CmdLines, DataLines

(* blkcnt is a number: the transfer never overruns.                        *)
LEMMA BlkcntType ==
  ASSUME TypeOK, PlacedInv, pc \in Waiting, HasData, data_line.own
  PROVE  blkcnt \in Nat
<1>1. data_line.moved \in Nat /\ Units \in Nat
  BY UnitsType DEF TypeOK
<1>0. data_line.moved <= Units
  BY <1>1 DEF PlacedInv
<1>2. data_line.moved \div BlkSize <= Units \div BlkSize
  BY <1>0, <1>1, BlocksMonotone
<1> QED BY <1>1, <1>2, UnitsType, BlocksMonotone DEF blkcnt

-----------------------------------------------------------------------------
(* Types                                                                   *)

(* Every step keeps the types.                                             *)
LEMMA TypeNext ==
  TypeOK /\ LineInv /\ PlacedInv /\ [Next]_vars => TypeOK'
<1> SUFFICES ASSUME TypeOK, LineInv, PlacedInv, [Next]_vars
             PROVE  TypeOK'
  OBVIOUS
<1> USE BlkAssumption, BoundaryAssumption, BlocksAssumption, StartsAssumption
        DEF TypeOK, drvVars, clkVars, intVars, dmaVars, ctlVars
<1>1. CASE Powersave
  BY <1>1 DEF Powersave
<1>2. CASE Call
  BY <1>2 DEF Call
<1>3. CASE WaitCmd
  <2>1. CASE Reset("idle")
    BY <2>1, ResetType
  <2>2. CASE ~Reset("idle")
    BY <1>3, <2>2 DEF WaitCmd
  <2> QED BY <2>1, <2>2
<1>4. CASE WaitData
  <2>1. CASE Reset("idle")
    BY <2>1, ResetType
  <2>2. CASE ~Reset("idle")
    BY <1>4, <2>2 DEF WaitData
  <2> QED BY <2>1, <2>2
<1>5. CASE Config
  <2>1. start \in Nat
    OBVIOUS
  <2>2. admaaddr' \in Nat /\ dma_addr_next' \in Nat
    BY <1>5, <2>1, NextBoundaryMeets DEF Config
  <2>3. pc' = "send" /\ enabled' = TRUE /\ intsts' = {}
    BY <1>5 DEF Config, ClearInterrupts
  <2> QED BY <1>5, <2>2, <2>3 DEF Config
<1>6. CASE Send
  <2>1. /\ cmd_line' \in [st : {"free", "sent", "lost"}, own : BOOLEAN]
        /\ data_line' \in [st : {"free", "waiting", "moving", "stopped", "busy", "lost"},
                           own : BOOLEAN, moved : Nat]
    BY <1>6 DEF Send
  <2> QED BY <1>6, <2>1 DEF Send
<1>7. CASE WaitResponse
  <2>1. CASE Reset("maskFailed")
    BY <2>1, ResetType
  <2>2. CASE ~Reset("maskFailed")
    <3>1. round_blkcnt' \in Nat
      <4>1. CASE HasData
        <5>1. pc \in Waiting /\ data_line.own
          BY <1>7, <2>2, <4>1 DEF WaitResponse, LineInv, Waiting
        <5>2. blkcnt \in Nat
          BY <4>1, <5>1, BlkcntType
        <5> QED BY <1>7, <2>2, <4>1, <5>2 DEF WaitResponse
      <4>2. CASE ~HasData
        BY <1>7, <2>2, <4>2 DEF WaitResponse
      <4> QED BY <4>1, <4>2
    <3> QED BY <1>7, <2>2, <3>1 DEF WaitResponse, AckResponse
  <2> QED BY <2>1, <2>2
<1>8. CASE DataEnd
  BY <1>8 DEF DataEnd
<1>9. CASE DmaEnd
  BY <1>9 DEF DmaEnd
<1>10. CASE UpdateDma
  BY <1>10 DEF UpdateDma, AdvanceNext
<1>11. CASE DataError
  <2>1. CASE Reset("maskFailed")
    BY <2>1, ResetType
  <2>2. CASE ~Reset("maskFailed")
    BY <1>11, <2>2 DEF DataError
  <2> QED BY <2>1, <2>2
<1>12. CASE DataLate
  BY <1>12 DEF DataLate
<1>13. CASE DataRound
  <2>1. CASE Reset("maskFailed")
    BY <2>1, ResetType
  <2>2. CASE ~Reset("maskFailed")
    <3>1. pc \in Waiting /\ HasData /\ data_line.own
      BY <1>13 DEF DataRound, LineInv, Waiting
    <3>3. blkcnt \in Nat
      BY <3>1, BlkcntType
    <3> QED BY <1>13, <2>2, <3>3 DEF DataRound
  <2> QED BY <2>1, <2>2
<1>14. CASE Mask
  BY <1>14 DEF Mask, Return, ClockBack
<1>15. CASE WaitBusy
  <2>1. CASE Reset("idle")
    BY <2>1, ResetType
  <2>2. CASE ~Reset("idle")
    BY <1>15, <2>2 DEF WaitBusy, Return, ClockBack
  <2> QED BY <2>1, <2>2
<1>16. CASE Respond
  <2>1. /\ intsts' \subseteq {"response", "dataEnd", "dmaEnd", "error"}
        /\ dat0_low' \in BOOLEAN /\ rspreg_own' \in BOOLEAN
    BY <1>16 DEF Respond, Raise
  <2>2. cmd_line \in CmdLines /\ data_line \in DataLines
    BY DEF CmdLines, DataLines
  <2>3. /\ cmd_line' \in {FreeCmd}
        /\ data_line' \in {[data_line EXCEPT !.st = "moving"], [FreeData EXCEPT !.st = "busy"],
                          FreeData, data_line}
    BY <1>16 DEF Respond
  <2>4. cmd_line' \in CmdLines
    BY ONLY <2>2, <2>3, LineShapes
  <2>5. data_line' \in DataLines
    BY ONLY <2>2, <2>3, LineShapes
  <2> QED BY <1>16, <2>1, <2>4, <2>5 DEF Respond, CmdLines, DataLines
<1>17. CASE Move
  <2>1. /\ intsts' \subseteq {"response", "dataEnd", "dmaEnd", "error"}
        /\ dat0_low' \in BOOLEAN
    BY <1>17 DEF Move, Raise
  <2>0. data_line \in DataLines /\ data_line.moved + 1 \in Nat
    BY DEF DataLines
  <2>4. data_line' \in {[data_line EXCEPT !.st = "free", !.moved = data_line.moved + 1],
                        [data_line EXCEPT !.st = "stopped", !.moved = data_line.moved + 1],
                        [data_line EXCEPT !.moved = data_line.moved + 1]}
    BY <1>17 DEF Move
  <2>2. data_line' \in DataLines
    <3> DEFINE n == data_line.moved + 1
    <3>1. n \in Nat
      BY <2>0
    <3>2. data_line' \in {[data_line EXCEPT !.st = "free", !.moved = n],
                          [data_line EXCEPT !.st = "stopped", !.moved = n],
                          [data_line EXCEPT !.moved = n]}
      BY <2>4
    <3> HIDE DEF n
    <3>3. /\ [data_line EXCEPT !.st = "free", !.moved = n] \in DataLines
          /\ [data_line EXCEPT !.st = "stopped", !.moved = n] \in DataLines
          /\ [data_line EXCEPT !.moved = n] \in DataLines
      BY ONLY <2>0, <3>1, LineShapes, Zenon
    <3> QED BY ONLY <3>2, <3>3
  <2>3. placed' \subseteq Nat \X Nat /\ admaaddr' \in Nat
    BY <1>17 DEF Move
  <2> QED BY <1>17, <2>1, <2>2, <2>3 DEF Move, DataLines
<1>18. CASE Unbusy
  <2>1. /\ intsts' \subseteq {"response", "dataEnd", "dmaEnd", "error"}
        /\ dat0_low' \in BOOLEAN /\ rspreg_own' \in BOOLEAN
    BY <1>18 DEF Unbusy, Raise
  <2>2. cmd_line \in CmdLines /\ data_line \in DataLines
    BY DEF CmdLines, DataLines
  <2>3. /\ cmd_line' \in {cmd_line}
        /\ data_line' \in {FreeData, data_line}
    BY <1>18 DEF Unbusy
  <2>4. cmd_line' \in CmdLines
    BY ONLY <2>2, <2>3, LineShapes
  <2>5. data_line' \in DataLines
    BY ONLY <2>2, <2>3, LineShapes
  <2> QED BY <1>18, <2>1, <2>4, <2>5 DEF Unbusy, CmdLines, DataLines
<1>19. CASE Break
  <2>1. /\ intsts' \subseteq {"response", "dataEnd", "dmaEnd", "error"}
        /\ dat0_low' \in BOOLEAN /\ rspreg_own' \in BOOLEAN
    BY <1>19 DEF Break, Raise
  <2>2. cmd_line \in CmdLines /\ data_line \in DataLines
    BY DEF CmdLines, DataLines
  <2>3. /\ cmd_line' \in {cmd_line, [cmd_line EXCEPT !.st = "lost"]}
        /\ data_line' \in {data_line, [data_line EXCEPT !.st = "lost"]}
    BY <1>19 DEF Break
  <2>4. cmd_line' \in CmdLines
    BY ONLY <2>2, <2>3, LineShapes
  <2>5. data_line' \in DataLines
    BY ONLY <2>2, <2>3, LineShapes
  <2> QED BY <1>19, <2>1, <2>4, <2>5 DEF Break, CmdLines, DataLines
<1>20. CASE UNCHANGED vars
  BY <1>20 DEF vars
<1> QED
  BY <1>1, <1>2, <1>3, <1>4, <1>5, <1>6, <1>7, <1>8, <1>9,
     <1>10, <1>11, <1>12, <1>13, <1>14, <1>15, <1>16, <1>17, <1>18,
     <1>19, <1>20
  DEF Next, Driver, Controller

(* What a reset changes, and what it leaves.                               *)
LEMMA ResetFrame ==
  ASSUME NEW to \in {"idle", "maskFailed"}, Reset(to)
  PROVE  /\ pc' = to /\ (to = "idle" => ~result')
         /\ UNCHANGED <<cmd, start, enabled, admaaddr, dma_addr_next, round_blkcnt, dat0_low,
                        rspreg_own, rsp_own, placed>>
         /\ \/ cmd_line' = FreeCmd /\ data_line' = FreeData /\ intsts' = {}
               /\ fault' = (fault \/ CanAct)
            \/ UNCHANGED <<cmd_line, data_line, intsts>> /\ fault' = TRUE
         /\ data_line' = data_line \/ ~data_line'.own
<1>1. /\ \/ ResetLines /\ fault' = (fault \/ CanAct)
         \/ UNCHANGED <<cmd_line, data_line, intsts>> /\ fault' = TRUE
      /\ pc' = to /\ (to = "idle" => result' = FALSE)
      /\ UNCHANGED <<drvVars, enabled, dmaVars, dat0_low, rspreg_own, rsp_own, placed>>
  BY DEF Reset, Return
<1>2. ~FreeData.own
  BY DEF FreeData
<1> QED BY <1>1, <1>2 DEF ResetLines, drvVars, dmaVars

-----------------------------------------------------------------------------
(* The address of the DMA                                                  *)

(* The DMA stays where the moved data ends.                                *)
LEMMA AddrNext ==
  TypeOK /\ LineInv /\ AddrInv /\ [Next]_vars => AddrInv'
<1> SUFFICES ASSUME TypeOK, LineInv, AddrInv, [Next]_vars
             PROVE  AddrInv'
  OBVIOUS
<1> USE BoundaryAssumption, StartsAssumption
        DEF TypeOK, LineInv, AddrInv, Before, Waiting, HasData, drvVars,
                clkVars, intVars, dmaVars, ctlVars
<1>1. CASE Powersave
  BY <1>1 DEF Powersave
<1>2. CASE Call
  BY <1>2 DEF Call
<1>3. CASE WaitCmd
  <2>1. CASE Reset("idle")
    BY <2>1, ResetFrame
  <2>2. CASE ~Reset("idle")
    BY <1>3, <2>2 DEF WaitCmd
  <2> QED BY <2>1, <2>2
<1>4. CASE WaitData
  <2>1. CASE Reset("idle")
    BY <2>1, ResetFrame
  <2>2. CASE ~Reset("idle")
    BY <1>4, <2>2 DEF WaitData
  <2> QED BY <2>1, <2>2
<1>5. CASE Config
  <2>1. start \in Nat /\ ~data_line'.own
    BY <1>5, StartsAssumption DEF Config
  <2>2. HasData' => admaaddr' = start /\ dma_addr_next' = NextBoundary(start)
    BY <1>5 DEF Config
  <2> QED BY <1>5, <2>1, <2>2, NextBoundaryMeets DEF Config
<1>6. CASE Send
  BY <1>6 DEF Send
<1>7. CASE WaitResponse
  BY <1>7 DEF WaitResponse, Reset, ResetLines, Return, FreeCmd, FreeData
<1>8. CASE DataEnd
  BY <1>8 DEF DataEnd
<1>9. CASE DmaEnd
  BY <1>9 DEF DmaEnd
<1>10. CASE UpdateDma
  <2>1. /\ data_line.own /\ data_line.st = "stopped" /\ admaaddr = dma_addr_next
        /\ dma_addr_next % Boundary = 0
    BY <1>10 DEF UpdateDma
  <2>2. (dma_addr_next + Boundary) % Boundary = 0
    BY <2>1, BoundaryAfter
  <2>3. /\ admaaddr' = admaaddr /\ dma_addr_next' = dma_addr_next + Boundary
        /\ data_line'.st = "moving" /\ data_line'.moved = data_line.moved
        /\ start' = start /\ pc' = "data"
    BY <1>10, <2>1 DEF UpdateDma, AdvanceNext
  <2> QED BY <2>1, <2>2, <2>3, BoundaryAssumption
<1>11. CASE DataError
  BY <1>11 DEF DataError, Reset, ResetLines, Return, FreeCmd, FreeData
<1>12. CASE DataLate
  BY <1>12 DEF DataLate
<1>13. CASE DataRound
  BY <1>13 DEF DataRound, Reset, ResetLines, Return, FreeCmd, FreeData
<1>14. CASE Mask
  BY <1>14 DEF Mask, Return
<1>15. CASE WaitBusy
  <2>1. CASE Reset("idle")
    BY <2>1, ResetFrame
  <2>2. CASE ~Reset("idle")
    BY <1>15, <2>2 DEF WaitBusy, Return
  <2> QED BY <2>1, <2>2
<1>16. CASE Respond
  BY <1>16 DEF Respond, FreeCmd, FreeData
<1>17. CASE Move
  <2>1. CASE ~data_line.own
    BY <1>17, <2>1 DEF Move
  <2>2. CASE data_line.own
    <3>1. /\ admaaddr = start + data_line.moved /\ dma_addr_next % Boundary = 0
          /\ admaaddr < dma_addr_next /\ dma_addr_next <= admaaddr + Boundary
          /\ pc # "send"
      BY <1>17, <2>2 DEF Move
    <3>2. UNCHANGED <<pc, start, dma_addr_next>> /\ admaaddr' = admaaddr + 1
      BY <1>17 DEF Move
    <3>3. \/ data_line'.st = "free"
          \/ /\ data_line'.st = "stopped" /\ admaaddr' % Boundary = 0
             /\ data_line'.moved = data_line.moved + 1
          \/ /\ data_line'.st = "moving" /\ admaaddr' % Boundary # 0
             /\ data_line'.moved = data_line.moved + 1
      BY <1>17 DEF Move
    <3>4. admaaddr' % Boundary = 0 => admaaddr' = dma_addr_next
      BY <3>1, <3>2, BoundaryMet
    <3>5. start \in Nat /\ admaaddr \in Nat /\ dma_addr_next \in Nat /\ data_line.moved \in Nat
      BY StartsAssumption
    <3>6. /\ admaaddr' % Boundary # 0 =>
               admaaddr' < dma_addr_next /\ dma_addr_next <= admaaddr' + Boundary
          /\ admaaddr' = start + (data_line.moved + 1)
      BY <3>1, <3>2, <3>5, BoundaryAssumption
    <3> HIDE DEF TypeOK, LineInv
    <3> QED BY <3>1, <3>2, <3>3, <3>4, <3>6
  <2> QED BY <2>1, <2>2
<1>18. CASE Unbusy
  BY <1>18 DEF Unbusy, FreeData
<1>19. CASE Break
  BY <1>19 DEF Break
<1>20. CASE UNCHANGED vars
  BY <1>20 DEF vars
<1> QED
  BY <1>1, <1>2, <1>3, <1>4, <1>5, <1>6, <1>7, <1>8, <1>9,
     <1>10, <1>11, <1>12, <1>13, <1>14, <1>15, <1>16, <1>17, <1>18,
     <1>19, <1>20
  DEF Next, Driver, Controller

(* What is to be moved and where is settled when the command is issued.    *)
LEMMA FrameUnits ==
  ASSUME UNCHANGED <<start, cmd>>
  PROVE  /\ Units' = Units /\ HasData' = HasData
         /\ data_line'.moved = data_line.moved =>
              FirstUnits(data_line.moved)' = FirstUnits(data_line.moved)
BY DEF Units, HasData, FirstUnits

-----------------------------------------------------------------------------
(* The data that is placed                                                 *)

(* What is placed stays what has moved.                                    *)
LEMMA PlacedNext ==
  TypeOK /\ LineInv /\ AddrInv /\ PlacedInv /\ [Next]_vars => PlacedInv'
<1> SUFFICES ASSUME TypeOK, LineInv, AddrInv, PlacedInv, [Next]_vars
             PROVE  PlacedInv'
  OBVIOUS
<1> USE DEF TypeOK, LineInv, PlacedInv, Before, Waiting, HasData, drvVars,
            clkVars, intVars, dmaVars, ctlVars
<1>1. CASE Powersave
  <2>1. UNCHANGED <<start, cmd, placed>>
    BY <1>1 DEF Powersave
  <2>2. pc' \in Before => pc \in Before
    BY <1>1 DEF Powersave
  <2>3. \/ ~data_line'.own
        \/ data_line' = data_line
        \/ /\ data_line'.moved = data_line.moved /\ data_line'.own = data_line.own
           /\ (data_line'.st = "free") = (data_line.st = "free")
    BY <1>1 DEF Powersave
  <2> QED BY <2>1, <2>2, <2>3, FrameUnits
<1>2. CASE Call
  <2>1. ~data_line'.own /\ placed' = {}
    BY <1>2 DEF Call
  <2> QED BY <2>1
<1>3. CASE WaitCmd
  <2>1. CASE Reset("idle")
    <3>1. UNCHANGED <<start, cmd, placed>> /\ pc' \notin Before
      BY <2>1, ResetFrame
    <3>2. data_line' = data_line \/ ~data_line'.own
      BY <2>1, ResetFrame
    <3> QED BY <3>1, <3>2, FrameUnits
  <2>2. CASE ~Reset("idle")
    <3>1. UNCHANGED <<start, cmd, placed, data_line>>
      BY <1>3, <2>2 DEF WaitCmd
    <3>2. pc' \in Before => pc \in Before
      BY <1>3, <2>2 DEF WaitCmd
    <3> QED BY <3>1, <3>2, FrameUnits
  <2> QED BY <2>1, <2>2
<1>4. CASE WaitData
  <2>1. CASE Reset("idle")
    <3>1. UNCHANGED <<start, cmd, placed>> /\ pc' \notin Before
      BY <2>1, ResetFrame
    <3>2. data_line' = data_line \/ ~data_line'.own
      BY <2>1, ResetFrame
    <3> QED BY <3>1, <3>2, FrameUnits
  <2>2. CASE ~Reset("idle")
    <3>1. UNCHANGED <<start, cmd, placed, data_line>>
      BY <1>4, <2>2 DEF WaitData
    <3>2. pc' \in Before => pc \in Before
      BY <1>4, <2>2 DEF WaitData
    <3> QED BY <3>1, <3>2, FrameUnits
  <2> QED BY <2>1, <2>2
<1>5. CASE Config
  <2>1. UNCHANGED <<start, cmd, placed>>
    BY <1>5 DEF Config
  <2>2. pc' \in Before => pc \in Before
    BY <1>5 DEF Config
  <2>3. \/ ~data_line'.own
        \/ data_line' = data_line
        \/ /\ data_line'.moved = data_line.moved /\ data_line'.own = data_line.own
           /\ (data_line'.st = "free") = (data_line.st = "free")
    BY <1>5 DEF Config
  <2> QED BY <2>1, <2>2, <2>3, FrameUnits
<1>6. CASE Send
  <2>1. UNCHANGED <<start, cmd, placed>> /\ placed = {}
    BY <1>6 DEF Send
  <2>2. data_line'.own => HasData /\ data_line'.st = "waiting" /\ data_line'.moved = 0
    BY <1>6 DEF Send
  <2>3. data_line'.moved = 0 => FirstUnits(data_line.moved)' = {}
    BY DEF FirstUnits
  <2> QED BY <1>6, <2>1, <2>2, <2>3, FrameUnits, UnitsType DEF Send
<1>7. CASE WaitResponse
  <2>1. CASE Reset("maskFailed")
    <3>1. UNCHANGED <<start, cmd, placed>> /\ pc' \notin Before
      BY <2>1, ResetFrame
    <3>2. data_line' = data_line \/ ~data_line'.own
      BY <2>1, ResetFrame
    <3> QED BY <3>1, <3>2, FrameUnits
  <2>2. CASE ~Reset("maskFailed")
    <3>1. UNCHANGED <<start, cmd, placed, data_line>>
      BY <1>7, <2>2 DEF WaitResponse
    <3>2. pc' \in Before => pc \in Before
      BY <1>7, <2>2 DEF WaitResponse
    <3> QED BY <3>1, <3>2, FrameUnits
  <2> QED BY <2>1, <2>2
<1>8. CASE DataEnd
  <2>1. UNCHANGED <<start, cmd, placed>>
    BY <1>8 DEF DataEnd
  <2>2. pc' \in Before => pc \in Before
    BY <1>8 DEF DataEnd
  <2>3. \/ ~data_line'.own
        \/ data_line' = data_line
        \/ /\ data_line'.moved = data_line.moved /\ data_line'.own = data_line.own
           /\ (data_line'.st = "free") = (data_line.st = "free")
    BY <1>8 DEF DataEnd
  <2> QED BY <2>1, <2>2, <2>3, FrameUnits
<1>9. CASE DmaEnd
  <2>1. UNCHANGED <<start, cmd, placed>>
    BY <1>9 DEF DmaEnd
  <2>2. pc' \in Before => pc \in Before
    BY <1>9 DEF DmaEnd
  <2>3. \/ ~data_line'.own
        \/ data_line' = data_line
        \/ /\ data_line'.moved = data_line.moved /\ data_line'.own = data_line.own
           /\ (data_line'.st = "free") = (data_line.st = "free")
    BY <1>9 DEF DmaEnd
  <2> QED BY <2>1, <2>2, <2>3, FrameUnits
<1>10. CASE UpdateDma
  <2>1. UNCHANGED <<start, cmd, placed>>
    BY <1>10 DEF UpdateDma
  <2>2. pc' \in Before => pc \in Before
    BY <1>10 DEF UpdateDma
  <2>3. \/ ~data_line'.own
        \/ data_line' = data_line
        \/ /\ data_line'.moved = data_line.moved /\ data_line'.own = data_line.own
           /\ (data_line'.st = "free") = (data_line.st = "free")
    BY <1>10 DEF UpdateDma
  <2> QED BY <2>1, <2>2, <2>3, FrameUnits
<1>11. CASE DataError
  <2>1. CASE Reset("maskFailed")
    <3>1. UNCHANGED <<start, cmd, placed>> /\ pc' \notin Before
      BY <2>1, ResetFrame
    <3>2. data_line' = data_line \/ ~data_line'.own
      BY <2>1, ResetFrame
    <3> QED BY <3>1, <3>2, FrameUnits
  <2>2. CASE ~Reset("maskFailed")
    <3>1. UNCHANGED <<start, cmd, placed, data_line>>
      BY <1>11, <2>2 DEF DataError
    <3>2. pc' \in Before => pc \in Before
      BY <1>11, <2>2 DEF DataError
    <3> QED BY <3>1, <3>2, FrameUnits
  <2> QED BY <2>1, <2>2
<1>12. CASE DataLate
  <2>1. UNCHANGED <<start, cmd, placed>>
    BY <1>12 DEF DataLate
  <2>2. pc' \in Before => pc \in Before
    BY <1>12 DEF DataLate
  <2>3. \/ ~data_line'.own
        \/ data_line' = data_line
        \/ /\ data_line'.moved = data_line.moved /\ data_line'.own = data_line.own
           /\ (data_line'.st = "free") = (data_line.st = "free")
    BY <1>12 DEF DataLate
  <2> QED BY <2>1, <2>2, <2>3, FrameUnits
<1>13. CASE DataRound
  <2>1. CASE Reset("maskFailed")
    <3>1. UNCHANGED <<start, cmd, placed>> /\ pc' \notin Before
      BY <2>1, ResetFrame
    <3>2. data_line' = data_line \/ ~data_line'.own
      BY <2>1, ResetFrame
    <3> QED BY <3>1, <3>2, FrameUnits
  <2>2. CASE ~Reset("maskFailed")
    <3>1. UNCHANGED <<start, cmd, placed, data_line>>
      BY <1>13, <2>2 DEF DataRound
    <3>2. pc' \in Before => pc \in Before
      BY <1>13, <2>2 DEF DataRound
    <3> QED BY <3>1, <3>2, FrameUnits
  <2> QED BY <2>1, <2>2
<1>14. CASE Mask
  <2>1. UNCHANGED <<start, cmd, placed>>
    BY <1>14 DEF Mask
  <2>2. pc' \in Before => pc \in Before
    BY <1>14 DEF Mask, Return
  <2>3. \/ ~data_line'.own
        \/ data_line' = data_line
        \/ /\ data_line'.moved = data_line.moved /\ data_line'.own = data_line.own
           /\ (data_line'.st = "free") = (data_line.st = "free")
    BY <1>14 DEF Mask
  <2> QED BY <2>1, <2>2, <2>3, FrameUnits
<1>15. CASE WaitBusy
  <2>1. CASE Reset("idle")
    <3>1. UNCHANGED <<start, cmd, placed>> /\ pc' \notin Before
      BY <2>1, ResetFrame
    <3>2. data_line' = data_line \/ ~data_line'.own
      BY <2>1, ResetFrame
    <3> QED BY <3>1, <3>2, FrameUnits
  <2>2. CASE ~Reset("idle")
    <3>1. UNCHANGED <<start, cmd, placed, data_line>>
      BY <1>15, <2>2 DEF WaitBusy
    <3>2. pc' \in Before => pc \in Before
      BY <1>15, <2>2 DEF WaitBusy, Return
    <3> QED BY <3>1, <3>2, FrameUnits
  <2> QED BY <2>1, <2>2
<1>16. CASE Respond
  <2>1. UNCHANGED <<start, cmd, placed>>
    BY <1>16 DEF Respond
  <2>2. pc' \in Before => pc \in Before
    BY <1>16 DEF Respond
  <2>3. \/ ~data_line'.own
        \/ data_line' = data_line
        \/ /\ data_line'.moved = data_line.moved /\ data_line'.own = data_line.own
           /\ (data_line'.st = "free") = (data_line.st = "free")
    BY <1>16 DEF Respond, FreeData
  <2> QED BY <2>1, <2>2, <2>3, FrameUnits
<1>17. CASE Move
  <2>1. UNCHANGED <<pc, start, cmd>> /\ data_line'.own = data_line.own
    BY <1>17 DEF Move
  <2>2. CASE ~data_line.own
    BY <1>17, <2>1, <2>2 DEF Move
  <2>3. CASE data_line.own
    <3>1. admaaddr = start + data_line.moved /\ data_line.moved < Units
      BY <1>17, <2>3 DEF Move, AddrInv
    <3>2. placed' = FirstUnits(data_line.moved) \cup {<<data_line.moved, admaaddr>>}
      BY <1>17, <2>3 DEF Move
    <3>3. FirstUnits(data_line.moved + 1) = placed'
      BY <3>1, <3>2, FirstUnitsNext
    <3>4. FirstUnits(data_line.moved)' = placed'
      <4>1. data_line'.moved = data_line.moved + 1
        BY <1>17 DEF Move
      <4>2. FirstUnits(data_line.moved)' = FirstUnits(data_line.moved + 1)
        BY <2>1, <4>1 DEF FirstUnits
      <4> QED BY <3>3, <4>2
    <3>5. data_line'.moved = data_line.moved + 1
      BY <1>17 DEF Move
    <3>6. IF data_line'.st = "free" THEN data_line'.moved >= Units ELSE data_line'.moved < Units
      BY <1>17 DEF Move
    <3> QED BY <2>1, <2>3, <3>1, <3>4, <3>5, <3>6, FrameUnits, UnitsType
  <2> QED BY <2>2, <2>3
<1>18. CASE Unbusy
  <2>1. UNCHANGED <<start, cmd, placed>>
    BY <1>18 DEF Unbusy
  <2>2. pc' \in Before => pc \in Before
    BY <1>18 DEF Unbusy
  <2>3. \/ ~data_line'.own
        \/ data_line' = data_line
        \/ /\ data_line'.moved = data_line.moved /\ data_line'.own = data_line.own
           /\ (data_line'.st = "free") = (data_line.st = "free")
    BY <1>18 DEF Unbusy, FreeData
  <2> QED BY <2>1, <2>2, <2>3, FrameUnits
<1>19. CASE Break
  <2>1. UNCHANGED <<start, cmd, placed>>
    BY <1>19 DEF Break
  <2>2. pc' \in Before => pc \in Before
    BY <1>19 DEF Break
  <2>3. \/ ~data_line'.own
        \/ data_line' = data_line
        \/ /\ data_line'.moved = data_line.moved /\ data_line'.own = data_line.own
           /\ (data_line'.st = "free") = (data_line.st = "free")
    BY <1>19 DEF Break
  <2> QED BY <2>1, <2>2, <2>3, FrameUnits
<1>20. CASE UNCHANGED vars
  BY <1>20, FrameUnits DEF vars
<1> QED
  BY <1>1, <1>2, <1>3, <1>4, <1>5, <1>6, <1>7, <1>8, <1>9,
     <1>10, <1>11, <1>12, <1>13, <1>14, <1>15, <1>16, <1>17, <1>18,
     <1>19, <1>20
  DEF Next, Driver, Controller

-----------------------------------------------------------------------------
(* The card clock, the response, the rounds, the faults                    *)

(* The clock stays as power save mode has it.                              *)
LEMMA ClockNext ==
  TypeOK /\ ClockInv /\ [Next]_vars => ClockInv'
<1> SUFFICES ASSUME TypeOK, ClockInv, [Next]_vars
             PROVE  ClockInv'
  OBVIOUS
<1> USE DEF TypeOK, ClockInv, drvVars, clkVars, intVars, dmaVars, ctlVars
<1>1. CASE Powersave
  BY <1>1 DEF Powersave
<1>2. CASE Call
  BY <1>2 DEF Call
<1>3. CASE WaitCmd
  <2>1. UNCHANGED <<powersave_enabled, should_disable>>
    BY <1>3 DEF WaitCmd, Reset
  <2>2. \/ pc' # "idle" /\ clkcon' = clkcon
        \/ pc' = "idle" /\ clkcon' = IF should_disable THEN FALSE ELSE clkcon
    BY <1>3 DEF WaitCmd, Reset, Return, ClockBack, WaitsData
  <2>3. clkcon = TRUE /\ should_disable = powersave_enabled
    BY <1>3 DEF WaitCmd
  <2> QED BY <2>1, <2>2, <2>3
<1>4. CASE WaitData
  <2>1. UNCHANGED <<powersave_enabled, should_disable>>
    BY <1>4 DEF WaitData, Reset
  <2>2. \/ pc' # "idle" /\ clkcon' = clkcon
        \/ pc' = "idle" /\ clkcon' = IF should_disable THEN FALSE ELSE clkcon
    BY <1>4 DEF WaitData, Reset, Return, ClockBack
  <2>3. clkcon = TRUE /\ should_disable = powersave_enabled
    BY <1>4 DEF WaitData
  <2> QED BY <2>1, <2>2, <2>3
<1>5. CASE Config
  BY <1>5 DEF Config
<1>6. CASE Send
  BY <1>6 DEF Send
<1>7. CASE WaitResponse
  BY <1>7 DEF WaitResponse, Reset, Return, ClockBack
<1>8. CASE DataEnd
  BY <1>8 DEF DataEnd
<1>9. CASE DmaEnd
  BY <1>9 DEF DmaEnd
<1>10. CASE UpdateDma
  BY <1>10 DEF UpdateDma
<1>11. CASE DataError
  BY <1>11 DEF DataError, Reset, Return, ClockBack
<1>12. CASE DataLate
  BY <1>12 DEF DataLate
<1>13. CASE DataRound
  BY <1>13 DEF DataRound, Reset, Return, ClockBack
<1>14. CASE Mask
  BY <1>14 DEF Mask, Return, ClockBack
<1>15. CASE WaitBusy
  <2>1. UNCHANGED <<powersave_enabled, should_disable>>
    BY <1>15 DEF WaitBusy, Reset
  <2>2. \/ pc' # "idle" /\ clkcon' = clkcon
        \/ pc' = "idle" /\ clkcon' = IF should_disable THEN FALSE ELSE clkcon
    BY <1>15 DEF WaitBusy, Reset, Return, ClockBack
  <2>3. clkcon = TRUE /\ should_disable = powersave_enabled
    BY <1>15 DEF WaitBusy
  <2> QED BY <2>1, <2>2, <2>3
<1>16. CASE Respond
  BY <1>16 DEF Respond
<1>17. CASE Move
  BY <1>17 DEF Move
<1>18. CASE Unbusy
  BY <1>18 DEF Unbusy
<1>19. CASE Break
  BY <1>19 DEF Break
<1>20. CASE UNCHANGED vars
  BY <1>20 DEF vars
<1> QED
  BY <1>1, <1>2, <1>3, <1>4, <1>5, <1>6, <1>7, <1>8, <1>9,
     <1>10, <1>11, <1>12, <1>13, <1>14, <1>15, <1>16, <1>17, <1>18,
     <1>19, <1>20
  DEF Next, Driver, Controller

(* The response stays that of the command.                                 *)
LEMMA CmdNext ==
  TypeOK /\ CmdInv /\ LineInv /\ [Next]_vars => CmdInv'
<1> SUFFICES ASSUME TypeOK, CmdInv, LineInv, [Next]_vars
             PROVE  CmdInv'
  OBVIOUS
<1> USE DEF TypeOK, CmdInv, LineInv, Success, Before, Waiting, Done, HasData,
            drvVars, clkVars, intVars, dmaVars, ctlVars
<1>1. CASE Powersave
  BY <1>1 DEF Powersave
<1>2. CASE Call
  BY <1>2 DEF Call
<1>3. CASE WaitCmd
  BY <1>3 DEF WaitCmd, Reset, ResetLines, Return, WaitsData, FreeCmd, FreeData
<1>4. CASE WaitData
  BY <1>4 DEF WaitData, Reset, ResetLines, Return, FreeCmd, FreeData
<1>5. CASE Config
  BY <1>5 DEF Config, ClearInterrupts
<1>6. CASE Send
  BY <1>6 DEF Send
<1>7. CASE WaitResponse
  BY <1>7 DEF WaitResponse, Sees, AckResponse, Reset, ResetLines, Return, FreeCmd,
     FreeData
<1>8. CASE DataEnd
  BY <1>8 DEF DataEnd, Sees
<1>9. CASE DmaEnd
  BY <1>9 DEF DmaEnd, Sees
<1>10. CASE UpdateDma
  BY <1>10 DEF UpdateDma
<1>11. CASE DataError
  BY <1>11 DEF DataError, SeesError, Reset, ResetLines, Return, FreeCmd, FreeData
<1>12. CASE DataLate
  BY <1>12 DEF DataLate
<1>13. CASE DataRound
  BY <1>13 DEF DataRound, Reset, ResetLines, Return, FreeCmd, FreeData
<1>14. CASE Mask
  BY <1>14 DEF Mask, Return
<1>15. CASE WaitBusy
  BY <1>15 DEF WaitBusy, Reset, ResetLines, Return, FreeCmd, FreeData
<1>16. CASE Respond
  BY <1>16 DEF Respond, Raise, FreeCmd, FreeData
<1>17. CASE Move
  BY <1>17 DEF Move, Raise
<1>18. CASE Unbusy
  BY <1>18 DEF Unbusy, Raise, FreeData
<1>19. CASE Break
  BY <1>19 DEF Break, Raise
<1>20. CASE UNCHANGED vars
  BY <1>20 DEF vars
<1> QED
  BY <1>1, <1>2, <1>3, <1>4, <1>5, <1>6, <1>7, <1>8, <1>9,
     <1>10, <1>11, <1>12, <1>13, <1>14, <1>15, <1>16, <1>17, <1>18,
     <1>19, <1>20
  DEF Next, Driver, Controller

(* The blocks left stay no more than when the round began.                 *)
LEMMA RoundNext ==
  TypeOK /\ LineInv /\ RoundInv /\ [Next]_vars => RoundInv'
<1> SUFFICES ASSUME TypeOK, LineInv, RoundInv, [Next]_vars
             PROVE  RoundInv'
  OBVIOUS
<1> USE DEF TypeOK, LineInv, RoundInv, Before, Waiting, drvVars, clkVars,
            intVars, dmaVars, ctlVars
<1> DEFINE Receiving == Waiting \ {"response"}
<1>1. CASE Powersave
  <2>1. pc' \in Receiving => pc \in Receiving
    BY <1>1 DEF Powersave
  <2>2. pc' \in Receiving => UNCHANGED <<cmd, data_line, round_blkcnt>>
    BY <1>1 DEF Powersave
  <2> QED BY <2>1, <2>2 DEF blkcnt, HasData
<1>2. CASE Call
  <2>1. pc' \in Receiving => pc \in Receiving
    BY <1>2 DEF Call
  <2>2. pc' \in Receiving => UNCHANGED <<cmd, data_line, round_blkcnt>>
    BY <1>2 DEF Call
  <2> QED BY <2>1, <2>2 DEF blkcnt, HasData
<1>3. CASE WaitCmd
  <2>1. pc' \notin Receiving
    BY <1>3, ResetFrame DEF WaitCmd, Return
  <2> QED BY <2>1
<1>4. CASE WaitData
  <2>1. pc' \notin Receiving
    BY <1>4, ResetFrame DEF WaitData, Return
  <2> QED BY <2>1
<1>5. CASE Config
  <2>1. pc' \in Receiving => pc \in Receiving
    BY <1>5 DEF Config
  <2>2. pc' \in Receiving => UNCHANGED <<cmd, data_line, round_blkcnt>>
    BY <1>5 DEF Config
  <2> QED BY <2>1, <2>2 DEF blkcnt, HasData
<1>6. CASE Send
  <2>1. pc' \notin Receiving
    BY <1>6 DEF Send
  <2> QED BY <2>1
<1>7. CASE WaitResponse
  <2>1. CASE Reset("maskFailed")
    BY <2>1, ResetFrame
  <2>2. CASE ~Reset("maskFailed")
    <3>1. HasData => round_blkcnt' = blkcnt
      BY <1>7, <2>2 DEF WaitResponse
    <3>2. UNCHANGED <<cmd, data_line>>
      BY <1>7, <2>2 DEF WaitResponse
    <3>3. blkcnt' = blkcnt /\ HasData' = HasData
      BY <3>2 DEF blkcnt, HasData
    <3>4. blkcnt \in Int
      BY BlkAssumption, UnitsType DEF blkcnt
    <3> QED BY <3>1, <3>3, <3>4
  <2> QED BY <2>1, <2>2
<1>8. CASE DataEnd
  <2>1. pc' \in Receiving => pc \in Receiving
    BY <1>8 DEF DataEnd
  <2>2. pc' \in Receiving => UNCHANGED <<cmd, data_line, round_blkcnt>>
    BY <1>8 DEF DataEnd
  <2> QED BY <2>1, <2>2 DEF blkcnt, HasData
<1>9. CASE DmaEnd
  <2>1. pc' \in Receiving => pc \in Receiving
    BY <1>9 DEF DmaEnd
  <2>2. pc' \in Receiving => UNCHANGED <<cmd, data_line, round_blkcnt>>
    BY <1>9 DEF DmaEnd
  <2> QED BY <2>1, <2>2 DEF blkcnt, HasData
<1>10. CASE UpdateDma
  <2>1. UNCHANGED <<cmd, round_blkcnt>> /\ pc \in Receiving
    BY <1>10 DEF UpdateDma
  <2>2. data_line'.moved = data_line.moved
    BY <1>10 DEF UpdateDma
  <2> QED BY <2>1, <2>2 DEF blkcnt, HasData
<1>11. CASE DataError
  <2>1. pc' \notin Receiving
    BY <1>11, ResetFrame DEF DataError
  <2> QED BY <2>1
<1>12. CASE DataLate
  <2>1. pc' \in Receiving => pc \in Receiving
    BY <1>12 DEF DataLate
  <2>2. pc' \in Receiving => UNCHANGED <<cmd, data_line, round_blkcnt>>
    BY <1>12 DEF DataLate
  <2> QED BY <2>1, <2>2 DEF blkcnt, HasData
<1>13. CASE DataRound
  <2>1. CASE Reset("maskFailed")
    BY <2>1, ResetFrame
  <2>2. CASE ~Reset("maskFailed")
    <3>1. round_blkcnt' = blkcnt /\ blkcnt' = blkcnt
      BY <1>13, <2>2 DEF DataRound, blkcnt
    <3>2. blkcnt \in Int
      BY BlkAssumption, UnitsType DEF blkcnt
    <3> QED BY <3>1, <3>2
  <2> QED BY <2>1, <2>2
<1>14. CASE Mask
  <2>1. pc' \in Receiving => pc \in Receiving
    BY <1>14 DEF Mask, Return
  <2>2. pc' \in Receiving => UNCHANGED <<cmd, data_line, round_blkcnt>>
    BY <1>14 DEF Mask, Return
  <2> QED BY <2>1, <2>2 DEF blkcnt, HasData
<1>15. CASE WaitBusy
  <2>1. pc' \notin Receiving
    BY <1>15, ResetFrame DEF WaitBusy, Return
  <2> QED BY <2>1
<1>16. CASE Respond
  <2>1. UNCHANGED <<pc, cmd, round_blkcnt>>
    BY <1>16 DEF Respond
  <2>2. pc \in Receiving /\ HasData => data_line'.moved = data_line.moved
    BY <1>16 DEF Respond
  <2> QED BY <2>1, <2>2 DEF blkcnt, HasData
<1>17. CASE Move
  <2>1. UNCHANGED <<pc, cmd, round_blkcnt>> /\ data_line'.moved = data_line.moved + 1
    BY <1>17 DEF Move
  <2>2. data_line.moved \in Nat /\ cmd.blocks \in Nat /\ round_blkcnt \in Nat
    BY UnitsType
  <2>3. /\ blkcnt = cmd.blocks - data_line.moved \div BlkSize
        /\ blkcnt' = cmd.blocks - (data_line.moved + 1) \div BlkSize
    BY <2>1 DEF blkcnt
  <2>4. /\ data_line.moved \div BlkSize \in Nat /\ (data_line.moved + 1) \div BlkSize \in Nat
        /\ data_line.moved \div BlkSize <= (data_line.moved + 1) \div BlkSize
    BY <2>2, BlocksMonotone
  <2> QED BY <2>1, <2>2, <2>3, <2>4 DEF HasData
<1>18. CASE Unbusy
  <2>1. UNCHANGED <<pc, cmd, round_blkcnt>>
    BY <1>18 DEF Unbusy
  <2>2. pc \in Receiving /\ HasData => data_line'.moved = data_line.moved
    BY <1>18 DEF Unbusy
  <2> QED BY <2>1, <2>2 DEF blkcnt, HasData
<1>19. CASE Break
  <2>1. UNCHANGED <<pc, cmd, round_blkcnt>>
    BY <1>19 DEF Break
  <2>2. pc \in Receiving /\ HasData => data_line'.moved = data_line.moved
    BY <1>19 DEF Break
  <2> QED BY <2>1, <2>2 DEF blkcnt, HasData
<1>20. CASE UNCHANGED vars
  BY <1>20 DEF vars, blkcnt, HasData
<1> QED
  BY <1>1, <1>2, <1>3, <1>4, <1>5, <1>6, <1>7, <1>8, <1>9,
     <1>10, <1>11, <1>12, <1>13, <1>14, <1>15, <1>16, <1>17, <1>18,
     <1>19, <1>20
  DEF Next, Driver, Controller

(* Without a fault there stays something to wait for.                      *)
LEMMA FaultNext ==
  TypeOK /\ CmdInv /\ LineInv /\ PlacedInv /\ RoundInv /\ FaultInv /\ [Next]_vars => FaultInv'
<1> SUFFICES ASSUME TypeOK, CmdInv, LineInv, PlacedInv, RoundInv, FaultInv, [Next]_vars
             PROVE  FaultInv'
  OBVIOUS
<1> USE DEF TypeOK, CmdInv, LineInv, FaultInv, Success, Before, Waiting, Done,
            HasData, Progress, drvVars, clkVars, intVars, dmaVars, ctlVars
<1>1. CASE Powersave
  BY <1>1 DEF Powersave
<1>2. CASE Call
  BY <1>2 DEF Call
<1>3. CASE WaitCmd
  <2>1. CASE Reset("idle")
    <3>1. fault
      BY <1>3, <2>1, ResetFrame DEF WaitCmd, CanAct
    <3>2. fault' /\ pc' = "idle"
      BY <2>1, <3>1, ResetFrame
    <3> QED BY <3>2
  <2>2. CASE ~Reset("idle")
    <3>1. UNCHANGED <<cmd_line, data_line, dat0_low, intsts, enabled, fault>>
      BY <1>3, <2>2 DEF WaitCmd
    <3>2. pc' \in {"waitData", "config"} /\ pc \in Before
      BY <1>3, <2>2 DEF WaitCmd, WaitsData
    <3> QED BY <3>1, <3>2
  <2> QED BY <2>1, <2>2
<1>4. CASE WaitData
  <2>1. CASE Reset("idle")
    <3>1. fault
      BY <1>4, <2>1, ResetFrame DEF WaitData, CanAct
    <3>2. fault' /\ pc' = "idle"
      BY <2>1, <3>1, ResetFrame
    <3> QED BY <3>2
  <2>2. CASE ~Reset("idle")
    <3>1. UNCHANGED <<cmd_line, data_line, dat0_low, intsts, enabled, fault>>
      BY <1>4, <2>2 DEF WaitData
    <3>2. pc' \in {"waitData", "config"} /\ pc \in Before
      BY <1>4, <2>2 DEF WaitData
    <3> QED BY <3>1, <3>2
  <2> QED BY <2>1, <2>2
<1>5. CASE Config
  BY <1>5 DEF Config, ClearInterrupts
<1>6. CASE Send
  BY <1>6 DEF Send
<1>7. CASE WaitResponse
  BY <1>7 DEF WaitResponse, Sees, AckResponse, Reset, ResetLines, Return, FreeCmd,
     FreeData, CanAct
<1>8. CASE DataEnd
  BY <1>8 DEF DataEnd, Sees
<1>9. CASE DmaEnd
  BY <1>9 DEF DmaEnd, Sees
<1>10. CASE UpdateDma
  BY <1>10 DEF UpdateDma
<1>11. CASE DataError
  BY <1>11 DEF DataError, SeesError, Reset, ResetLines, Return, FreeCmd, FreeData,
     CanAct
<1>12. CASE DataLate
  <2>1. UNCHANGED <<cmd, cmd_line, data_line, dat0_low, intsts, enabled, round_blkcnt>>
    BY <1>12 DEF DataLate
  <2>2. pc = "data" /\ pc' = "progress" /\ intsts \cap {"dataEnd", "dmaEnd"} = {}
    BY <1>12 DEF DataLate
  <2>3. ~fault' => ~fault /\ (~CanAct \/ Progress)
    BY <1>12 DEF DataLate
  <2>4. HasData /\ cmd_line.st = "free" /\ enabled
    BY <2>2
  <2>5. ~fault => data_line.st = "moving" /\ "error" \notin intsts
    BY <2>2, <2>4
  <2>6. ~fault' => Progress'
    BY <2>1, <2>3, <2>5 DEF CanAct, blkcnt
  <2>7. HasData' = HasData
    BY <2>1
  <2> HIDE DEF Progress, HasData
  <2> QED BY <2>1, <2>2, <2>3, <2>4, <2>5, <2>6, <2>7
<1>13. CASE DataRound
  BY <1>13 DEF DataRound, Reset, ResetLines, Return, FreeCmd, FreeData, CanAct
<1>14. CASE Mask
  BY <1>14 DEF Mask, Return
<1>15. CASE WaitBusy
  BY <1>15 DEF WaitBusy, Reset, ResetLines, Return, FreeCmd, FreeData, CanAct
<1>16. CASE Respond
  BY <1>16 DEF Respond, Raise, FreeCmd, FreeData
<1>17. CASE Move
  <2>1. /\ data_line.st = "moving" /\ data_line'.own = data_line.own
        /\ UNCHANGED <<pc, cmd, result, enabled, cmd_line, round_blkcnt, fault>>
    BY <1>17 DEF Move
  <2>2. \/ data_line'.st = "free" /\ intsts' = IF enabled THEN intsts \cup {"dataEnd"} ELSE intsts
        \/ data_line'.st = "stopped" /\ intsts' = IF enabled THEN intsts \cup {"dmaEnd"} ELSE intsts
        \/ data_line'.st = "moving" /\ intsts' = intsts
    BY <1>17 DEF Move, Raise
  <2>3. HasData' = HasData
    BY <2>1
  <2>4. ~fault /\ pc = "progress" => Progress'
    <3>1. SUFFICES ASSUME ~fault, pc = "progress"
                   PROVE  Progress'
      OBVIOUS
    <3>2. data_line.moved \in Nat /\ cmd.blocks \in Nat /\ round_blkcnt \in Nat
      BY UnitsType
    <3>3. /\ blkcnt = cmd.blocks - data_line.moved \div BlkSize
          /\ blkcnt' = cmd.blocks - (data_line.moved + 1) \div BlkSize
      BY <1>17, <2>1 DEF blkcnt, Move
    <3>4. /\ data_line.moved \div BlkSize \in Nat /\ (data_line.moved + 1) \div BlkSize \in Nat
          /\ data_line.moved \div BlkSize <= (data_line.moved + 1) \div BlkSize
      BY <3>2, BlocksMonotone
    <3>5. blkcnt <= round_blkcnt /\ blkcnt # round_blkcnt
      BY <3>1 DEF RoundInv
    <3> QED BY <2>1, <3>2, <3>3, <3>4, <3>5
  <2> HIDE DEF Progress, HasData
  <2> QED BY <2>1, <2>2, <2>3, <2>4
<1>18. CASE Unbusy
  <2>1. UNCHANGED <<pc, cmd, result, enabled, cmd_line, round_blkcnt, fault>> /\ dat0_low
    BY <1>18 DEF Unbusy
  <2>2. \/ UNCHANGED <<data_line, intsts>>
        \/ /\ data_line.st = "busy" /\ data_line'.st = "free" /\ ~data_line'.own
           /\ intsts' \in {intsts, intsts \cup {"dataEnd"}}
    BY <1>18 DEF Unbusy, Raise, FreeData
  <2>3. HasData' = HasData /\ (data_line' = data_line => Progress' = Progress)
    BY <2>1 DEF blkcnt
  <2> HIDE DEF Progress
  <2> QED BY <2>1, <2>2, <2>3
<1>19. CASE Break
  BY <1>19 DEF Break, Raise
<1>20. CASE UNCHANGED vars
  <2>1. Progress' = Progress
    BY <1>20 DEF vars, blkcnt
  <2> HIDE DEF Progress
  <2> QED BY <1>20, <2>1 DEF vars
<1> QED
  BY <1>1, <1>2, <1>3, <1>4, <1>5, <1>6, <1>7, <1>8, <1>9,
     <1>10, <1>11, <1>12, <1>13, <1>14, <1>15, <1>16, <1>17, <1>18,
     <1>19, <1>20
  DEF Next, Driver, Controller

-----------------------------------------------------------------------------
(* Data in place                                                           *)

(* No step puts a unit out of its place.                                   *)
LEMMA PlaceNext ==
  TypeOK /\ AddrInv /\ DataInPlace /\ [Next]_vars => DataInPlace'
<1> SUFFICES ASSUME TypeOK, AddrInv, DataInPlace, [Next]_vars
             PROVE  DataInPlace'
  OBVIOUS
<1> USE DEF DataInPlace, drvVars, clkVars, intVars, dmaVars, ctlVars
<1>1. CASE Powersave
  <2>1. UNCHANGED <<placed, start>>
    BY <1>1, ResetFrame DEF Powersave
  <2> QED BY <2>1
<1>2. CASE Call
  <2>1. placed' = {}
    BY <1>2 DEF Call
  <2> QED BY <2>1
<1>3. CASE WaitCmd
  <2>1. UNCHANGED <<placed, start>>
    BY <1>3, ResetFrame DEF WaitCmd
  <2> QED BY <2>1
<1>4. CASE WaitData
  <2>1. UNCHANGED <<placed, start>>
    BY <1>4, ResetFrame DEF WaitData
  <2> QED BY <2>1
<1>5. CASE Config
  <2>1. UNCHANGED <<placed, start>>
    BY <1>5, ResetFrame DEF Config
  <2> QED BY <2>1
<1>6. CASE Send
  <2>1. UNCHANGED <<placed, start>>
    BY <1>6, ResetFrame DEF Send
  <2> QED BY <2>1
<1>7. CASE WaitResponse
  <2>1. UNCHANGED <<placed, start>>
    BY <1>7, ResetFrame DEF WaitResponse
  <2> QED BY <2>1
<1>8. CASE DataEnd
  <2>1. UNCHANGED <<placed, start>>
    BY <1>8, ResetFrame DEF DataEnd
  <2> QED BY <2>1
<1>9. CASE DmaEnd
  <2>1. UNCHANGED <<placed, start>>
    BY <1>9, ResetFrame DEF DmaEnd
  <2> QED BY <2>1
<1>10. CASE UpdateDma
  <2>1. UNCHANGED <<placed, start>>
    BY <1>10, ResetFrame DEF UpdateDma
  <2> QED BY <2>1
<1>11. CASE DataError
  <2>1. UNCHANGED <<placed, start>>
    BY <1>11, ResetFrame DEF DataError
  <2> QED BY <2>1
<1>12. CASE DataLate
  <2>1. UNCHANGED <<placed, start>>
    BY <1>12, ResetFrame DEF DataLate
  <2> QED BY <2>1
<1>13. CASE DataRound
  <2>1. UNCHANGED <<placed, start>>
    BY <1>13, ResetFrame DEF DataRound
  <2> QED BY <2>1
<1>14. CASE Mask
  <2>1. UNCHANGED <<placed, start>>
    BY <1>14, ResetFrame DEF Mask
  <2> QED BY <2>1
<1>15. CASE WaitBusy
  <2>1. UNCHANGED <<placed, start>>
    BY <1>15, ResetFrame DEF WaitBusy
  <2> QED BY <2>1
<1>16. CASE Respond
  <2>1. UNCHANGED <<placed, start>>
    BY <1>16, ResetFrame DEF Respond
  <2> QED BY <2>1
<1>17. CASE Move
  <2>1. start' = start
    BY <1>17 DEF Move
  <2>2. placed' # placed => placed' = placed \cup {<<data_line.moved, start + data_line.moved>>}
    BY <1>17 DEF Move, AddrInv, TypeOK
  <2> QED BY <2>1, <2>2
<1>18. CASE Unbusy
  <2>1. UNCHANGED <<placed, start>>
    BY <1>18, ResetFrame DEF Unbusy
  <2> QED BY <2>1
<1>19. CASE Break
  <2>1. UNCHANGED <<placed, start>>
    BY <1>19, ResetFrame DEF Break
  <2> QED BY <2>1
<1>20. CASE UNCHANGED vars
  <2>1. UNCHANGED <<placed, start>>
    BY <1>20 DEF vars
  <2> QED BY <2>1
<1> QED
  BY <1>1, <1>2, <1>3, <1>4, <1>5, <1>6, <1>7, <1>8, <1>9,
     <1>10, <1>11, <1>12, <1>13, <1>14, <1>15, <1>16, <1>17, <1>18,
     <1>19, <1>20
  DEF Next, Driver, Controller

-----------------------------------------------------------------------------
(* The theorems                                                            *)

(* The inductive invariant.                                                *)
IInv ==
  /\ TypeOK /\ ClockInv /\ CmdInv /\ LineInv
  /\ AddrInv /\ PlacedInv /\ RoundInv /\ FaultInv

(* It all holds at the start.                                              *)
LEMMA InitIInv == Init => IInv /\ DataInPlace
<1> SUFFICES ASSUME Init
             PROVE  IInv /\ DataInPlace
  OBVIOUS
<1> USE BlocksAssumption DEF Init, FreeCmd, FreeData
<1>1. cmd \in Commands
  <2>1. (0 > 0) = FALSE /\ 0 \in 0..MaxBlocks
    OBVIOUS
  <2>2. cmd = [blocks |-> 0, check_busy |-> FALSE, wait_dat |-> 0 > 0]
    BY <2>1
  <2> QED BY <2>1, <2>2 DEF Commands
<1>2. TypeOK
  <2>1. cmd_line \in CmdLines /\ data_line \in DataLines
    BY LineShapes
  <2>2. {result, powersave_enabled, clkcon, should_disable, enabled, dat0_low,
         rspreg_own, rsp_own, fault} \subseteq BOOLEAN
    <3>1. {result, powersave_enabled, clkcon, should_disable, enabled, dat0_low,
           rspreg_own, rsp_own, fault} \subseteq {TRUE, FALSE}
      BY Zenon
    <3> QED BY <3>1
  <2>3. {admaaddr, dma_addr_next, round_blkcnt} \subseteq Nat
    OBVIOUS
  <2>4. /\ pc \in {"idle", "waitCmd", "waitData", "config", "send", "response", "data",
                  "update", "progress", "mask", "maskFailed", "waitBusy"}
        /\ start \in Starts \cup {0}
        /\ intsts \subseteq {"response", "dataEnd", "dmaEnd", "error"}
        /\ placed \subseteq Nat \X Nat
    OBVIOUS
  <2>5. /\ cmd_line \in [st : {"free", "sent", "lost"}, own : BOOLEAN]
        /\ data_line \in [st : {"free", "waiting", "moving", "stopped", "busy", "lost"},
                          own : BOOLEAN, moved : Nat]
    BY ONLY <2>1 DEF CmdLines, DataLines
  <2> HIDE DEF Init
  <2> QED BY <1>1, <2>2, <2>3, <2>4, <2>5 DEF TypeOK
<1>6. ClockInv
  BY DEF ClockInv
<1>3. CmdInv /\ LineInv
  BY DEF CmdInv, LineInv, HasData, Before, Waiting, Done, Success
<1>4. AddrInv /\ PlacedInv /\ RoundInv
  BY DEF AddrInv, PlacedInv, RoundInv, HasData, Before, Waiting
<1>5. FaultInv /\ DataInPlace
  BY DEF FaultInv, DataInPlace, Before, Waiting
<1> QED BY <1>2, <1>3, <1>4, <1>5, <1>6 DEF IInv

(* The inductive invariant holds throughout.                               *)
THEOREM Invariance == Spec => []IInv
<1>1. Init => IInv
  BY InitIInv
<1>2. IInv /\ [Next]_vars => IInv'
  BY TypeNext, ClockNext, CmdNext, LineNext, AddrNext, PlacedNext, RoundNext, FaultNext
     DEF IInv
<1> QED BY <1>1, <1>2, PTL DEF Spec

(* The types, blkcnt and the addresses among them: nothing runs negative,
   whatever the sizes.                                                     *)
THEOREM TypeCorrect == Spec => []TypeOK
<1>1. IInv => TypeOK
  BY DEF IInv
<1> QED BY <1>1, Invariance, PTL

(* Between commands the card clock is gated in power save mode and runs
   otherwise, whichever way the last command ended.                        *)
THEOREM ClockIsGated == Spec => []ClockGated
<1>1. IInv => ClockGated
  <2> SUFFICES ASSUME IInv, pc = "idle"
               PROVE  clkcon = ~powersave_enabled
    BY DEF ClockGated
  <2>1. clkcon = (pc # "idle" \/ ~powersave_enabled)
    BY DEF IInv, ClockInv
  <2> QED BY <2>1
<1> QED BY <1>1, Invariance, PTL

(* A command that succeeds has its own response.                           *)
THEOREM ResponseOwned == Spec => []ResponseIsOwn
<1>1. IInv => ResponseIsOwn
  BY DEF IInv, CmdInv, Success, ResponseIsOwn
<1> QED BY <1>1, Invariance, PTL

(* Each unit goes to its place in the buffer, for any sizes of blocks and
   stretches and any address the buffer has.                               *)
THEOREM DataPlaced == Spec => []DataInPlace
<1>1. Init => IInv /\ DataInPlace
  BY InitIInv
<1>2. IInv /\ DataInPlace /\ [Next]_vars => DataInPlace'
  BY PlaceNext DEF IInv
<1> QED BY <1>1, <1>2, Invariance, PTL DEF Spec

(* A command that succeeds has moved all of its data, to its places.       *)
THEOREM SuccessComplete == Spec => []SuccessIsComplete
<1>1. IInv => SuccessIsComplete
  <2> SUFFICES ASSUME IInv, pc = "idle", result
               PROVE  placed = FirstUnits(Units)
    BY DEF SuccessIsComplete
  <2>1. CASE HasData
    BY <2>1 DEF IInv, LineInv, PlacedInv, Success
  <2>2. CASE ~HasData
    <3>1. cmd.blocks = 0
      BY <2>2, UnitsType DEF IInv, HasData
    <3>2. Units = 0
      BY <3>1, BlkAssumption DEF Units
    <3>3. FirstUnits(Units) = {}
      BY <3>2 DEF FirstUnits
    <3> QED BY <2>2, <3>3 DEF IInv, PlacedInv
  <2> QED BY <2>1, <2>2
<1> QED BY <1>1, Invariance, PTL

(* A command fails only when the controller or the card has: the driver itself
   loses no interrupt and leaves no transfer standing at a boundary.       *)
THEOREM FailureIsFault == Spec => []NoFalseFailure
<1>1. IInv => NoFalseFailure
  BY DEF IInv, FaultInv, NoFalseFailure
<1> QED BY <1>1, Invariance, PTL

=============================================================================
