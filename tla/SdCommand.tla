------------------------------ MODULE SdCommand ------------------------------
(***************************************************************************)
(* One command of hekate's SDMMC driver against the SD host controller:    *)
(* sdmmc_execute_cmd and sdmmc_stop_transmission with what they call       *)
(* (source/emmc/sdmmc_driver.c).  The driver polls; the controller answers *)
(* the command, moves the data by DMA and raises interrupt status bits     *)
(* whenever it likes.                                                      *)
(*                                                                         *)
(* External, and modelled from how this driver uses them: the controller   *)
(* and the card.  A DMA transfer stops at each 512 KiB boundary until its  *)
(* address register is written; command and data lines are inhibited while *)
(* they are in use.  Either may answer with an error, or never.  The clock *)
(* of the console is abstract: a timeout may strike in any wait; one that  *)
(* strikes while controller or card could still act is a fault of theirs.  *)
(***************************************************************************)
EXTENDS Integers

CONSTANTS
  BlkSize,    (* The size of a block, in the units that the DMA moves.     *)
  Boundary,   (* The DMA's boundary, in units: 512 KiB in the code.        *)
  MaxBlocks,  (* The largest number of blocks of a command.                *)
  Starts      (* The addresses of the buffers.                             *)

ASSUME BlkAssumption      == BlkSize \in Nat \ {0}
ASSUME BoundaryAssumption == Boundary \in Nat \ {0}
ASSUME BlocksAssumption   == MaxBlocks \in Nat
ASSUME StartsAssumption   == Starts \subseteq Nat

VARIABLES
  pc,                (* Where the driver is.                               *)
  cmd,               (* The command: [blocks, check_busy, wait_dat].       *)
  start,             (* The address of its buffer.                         *)
  result,            (* What the last command has returned.                *)
  powersave_enabled,
  clkcon,            (* SDHCI_CLOCK_CARD_EN                                *)
  should_disable,    (* should_disable_sd_clock                            *)
  enabled,           (* The interrupt status bits are enabled.             *)
  intsts,            (* Those that are set, the error bit among them.      *)
  admaaddr, dma_addr_next,
  round_blkcnt,      (* blkcnt when the round of the data wait began.      *)
  cmd_line,          (* The command in the controller: its state, and      *)
                     (* whether it is the driver's present one.            *)
  data_line,         (* The transfer: likewise, and the units moved.       *)
  dat0_low,          (* The card holds DAT0 low: it is busy.               *)
  rspreg_own,        (* The response register answers the present command. *)
  rsp_own,           (* So does the response that the driver has cached.   *)
  placed,            (* <<unit, address>> of the present command.          *)
  fault              (* Controller or card has failed since they were last *)
                     (* known to be at rest.                               *)

drvVars == <<cmd, start, powersave_enabled, should_disable>>
clkVars == <<clkcon>>
intVars == <<enabled, intsts>>
dmaVars == <<admaaddr, dma_addr_next, round_blkcnt>>
ctlVars == <<cmd_line, data_line, dat0_low, rspreg_own, placed>>
vars == <<pc, drvVars, result, clkVars, intVars, dmaVars, ctlVars, rsp_own, fault>>

\* sdmmc_execute_cmd waits for the data line when there is data or a busy card
\* to come; sdmmc_stop_transmission never does.
Commands ==
  {[blocks |-> n, check_busy |-> FALSE, wait_dat |-> n > 0] : n \in 0..MaxBlocks} \cup
  {[blocks |-> 0, check_busy |-> TRUE, wait_dat |-> w] : w \in BOOLEAN}

HasData == cmd.blocks > 0
Units   == cmd.blocks * BlkSize

\* The blkcnt register.
blkcnt == cmd.blocks - data_line.moved \div BlkSize

FreeCmd  == [st |-> "free", own |-> FALSE]
FreeData == [st |-> "free", own |-> FALSE, moved |-> 0]

\* Controller or card still have a step to take.
CanAct == cmd_line.st = "sent" \/ data_line.st = "moving" \/ dat0_low

-----------------------------------------------------------------------------
Init ==
  /\ pc = "idle" /\ cmd = [blocks |-> 0, check_busy |-> FALSE, wait_dat |-> FALSE]
  /\ start = 0 /\ result = FALSE
  /\ powersave_enabled = FALSE /\ clkcon = TRUE /\ should_disable = FALSE
  /\ enabled = FALSE /\ intsts = {}
  /\ admaaddr = 0 /\ dma_addr_next = 0 /\ round_blkcnt = 0
  /\ cmd_line = FreeCmd /\ data_line = FreeData /\ dat0_low = FALSE
  /\ rspreg_own = FALSE /\ rsp_own = FALSE /\ placed = {}
  /\ fault = TRUE

-----------------------------------------------------------------------------
(* The driver                                                              *)

\* sdmmc_card_clock_powersave, with the card clock enabled
Powersave ==
  /\ pc = "idle"
  /\ powersave_enabled' \in BOOLEAN
  /\ clkcon' = ~powersave_enabled'
  /\ UNCHANGED <<pc, cmd, start, should_disable, result, intVars, dmaVars,
                 ctlVars, rsp_own, fault>>

(* A command begins: the card clock is turned on if it is gated.           *)
Call ==
  /\ pc = "idle"
  /\ cmd' \in Commands /\ start' \in Starts
  /\ should_disable' = ~clkcon /\ clkcon' = TRUE
  /\ pc' = "waitCmd" /\ result' = FALSE
  /\ cmd_line' = [cmd_line EXCEPT !.own = FALSE]
  /\ data_line' = [data_line EXCEPT !.own = FALSE]
  /\ rspreg_own' = FALSE /\ rsp_own' = FALSE /\ placed' = {}
  /\ fault' = (cmd_line.st # "free" \/ data_line.st # "free" \/ dat0_low)
  /\ UNCHANGED <<powersave_enabled, intVars, dmaVars, dat0_low>>

\* Mutant of ClockBack: the early returns leave the clock as it is.
ClockBackOnSuccess(r) ==
  clkcon' = IF should_disable /\ r THEN FALSE ELSE clkcon

\* The card clock goes back to what it was.
ClockBack(r) == clkcon' = IF should_disable THEN FALSE ELSE clkcon

Return(r) == pc' = "idle" /\ result' = r /\ ClockBack(r)

\* SDHCI_RESET_CMD | SDHCI_RESET_DATA
ResetLines == cmd_line' = FreeCmd /\ data_line' = FreeData /\ intsts' = {}

(* _sdmmc_reset, which gives the controller two seconds, and the way out: the
   interrupts are masked after a command that was sent.                    *)
Reset(to) ==
  /\ \/ ResetLines /\ fault' = (fault \/ CanAct)
     \/ UNCHANGED <<cmd_line, data_line, intsts>> /\ fault' = TRUE
  /\ \/ to = "idle" /\ Return(FALSE)
     \/ to # "idle" /\ pc' = to /\ UNCHANGED <<result, clkcon>>
  /\ UNCHANGED <<drvVars, enabled, dmaVars, dat0_low, rspreg_own, rsp_own, placed>>

\* Mutant of WaitsData: a data command does not wait for the data line.
WaitsDataBusyOnly == cmd.check_busy /\ cmd.wait_dat

WaitsData == cmd.wait_dat

\* _sdmmc_wait_cmd_data_inhibit
WaitCmd ==
  /\ pc = "waitCmd"
  /\ \/ /\ cmd_line.st = "free"
        /\ pc' = IF WaitsData THEN "waitData" ELSE "config"
        /\ UNCHANGED <<drvVars, result, clkVars, intVars, dmaVars, ctlVars,
                       rsp_own, fault>>
     \/ cmd_line.st # "free" /\ Reset("idle")

WaitData ==
  /\ pc = "waitData"
  /\ \/ /\ data_line.st = "free" /\ pc' = "config"
        /\ UNCHANGED <<drvVars, result, clkVars, intVars, dmaVars, ctlVars,
                       rsp_own, fault>>
     \/ data_line.st # "free" /\ Reset("idle")

\* (admaaddr + 0x80000) & 0xFFFFFFFFFFF80000
NextBoundary(a) == ((a + Boundary) \div Boundary) * Boundary

\* Mutant of ClearInterrupts: the bits that are set stay set.
KeepInterrupts == UNCHANGED intsts

\* norintsts = norintsts: writing a set bit clears it.
ClearInterrupts == intsts' = {}

\* _sdmmc_config_dma, _sdmmc_enable_interrupts
Config ==
  /\ pc = "config"
  /\ IF HasData
     THEN admaaddr' = start /\ dma_addr_next' = NextBoundary(start)
     ELSE UNCHANGED <<admaaddr, dma_addr_next>>
  /\ enabled' = TRUE /\ ClearInterrupts
  /\ pc' = "send"
  /\ UNCHANGED <<drvVars, result, clkVars, round_blkcnt, ctlVars, rsp_own, fault>>

\* _sdmmc_send_cmd.  A transfer that is still under way gets mixed up.
Send ==
  /\ pc = "send"
  /\ cmd_line' = [st |-> "sent", own |-> TRUE]
  /\ data_line' = IF ~HasData THEN data_line
                  ELSE IF data_line.st = "free"
                  THEN [st |-> "waiting", own |-> TRUE, moved |-> 0]
                  ELSE [data_line EXCEPT !.own = TRUE]
  /\ pc' = "response"
  /\ UNCHANGED <<drvVars, result, clkVars, intVars, dmaVars, dat0_low, rspreg_own, rsp_own, placed, fault>>

\* _sdmmc_check_mask_interrupt looks at the error bit first.
Sees(bit) == bit \in intsts /\ "error" \notin intsts
SeesError == "error" \in intsts

\* Mutant of AckResponse: every bit that is set is acknowledged.
AckAll == intsts' = {}

\* Only the bits of the mask are.
AckResponse == intsts' = intsts \ {"response"}

\* _sdmmc_wait_response, _sdmmc_cache_rsp after it, and the first blkcnt that
\* _sdmmc_update_dma reads.
WaitResponse ==
  /\ pc = "response"
  /\ \/ /\ Sees("response") /\ AckResponse
        /\ rsp_own' = rspreg_own
        /\ IF HasData THEN pc' = "data" /\ round_blkcnt' = blkcnt
                      ELSE pc' = "mask" /\ UNCHANGED round_blkcnt
        /\ UNCHANGED <<drvVars, result, clkVars, enabled, admaaddr, dma_addr_next,
                       ctlVars, fault>>
     \/ ~Sees("response") /\ Reset("maskFailed")

\* _sdmmc_update_dma: the end of the data, or a boundary.
DataEnd ==
  /\ pc = "data" /\ Sees("dataEnd")
  /\ intsts' = intsts \ {"dataEnd", "dmaEnd"}
  /\ pc' = "mask"
  /\ UNCHANGED <<drvVars, result, clkVars, enabled, dmaVars, ctlVars, rsp_own, fault>>

DmaEnd ==
  /\ pc = "data" /\ Sees("dmaEnd") /\ ~Sees("dataEnd")
  /\ intsts' = intsts \ {"dmaEnd"}
  /\ pc' = "update"
  /\ UNCHANGED <<drvVars, result, clkVars, enabled, dmaVars, ctlVars, rsp_own, fault>>

\* Mutant of AdvanceNext: dma_addr_next stays at the first boundary.
AdvanceNextNever == UNCHANGED dma_addr_next

\* dma_addr_next += 0x80000
AdvanceNext == dma_addr_next' = dma_addr_next + Boundary

\* The address register is written: the DMA goes on.
UpdateDma ==
  /\ pc = "update"
  /\ admaaddr' = dma_addr_next
  /\ AdvanceNext
  /\ data_line' = IF data_line.st = "stopped" THEN [data_line EXCEPT !.st = "moving"]
                                              ELSE data_line
  /\ pc' = "data"
  /\ UNCHANGED <<drvVars, result, clkVars, intVars, round_blkcnt, cmd_line,
                 dat0_low, rspreg_own, rsp_own, placed, fault>>

DataError ==
  /\ pc = "data" /\ SeesError
  /\ Reset("maskFailed")

\* Mutant of Progress: every round is followed by another.
ProgressAlways == TRUE

\* blkcnt has changed since the round began.
Progress == blkcnt # round_blkcnt

\* 1500 ms have gone by without a bit that the driver waits for; without a block
\* moved, though one could be, the card is too slow.
DataLate ==
  /\ pc = "data" /\ intsts \cap {"dataEnd", "dmaEnd", "error"} = {}
  /\ fault' = (fault \/ (CanAct /\ ~Progress))
  /\ pc' = "progress"
  /\ UNCHANGED <<drvVars, result, clkVars, intVars, dmaVars, ctlVars, rsp_own>>

DataRound ==
  /\ pc = "progress"
  /\ \/ /\ Progress
        /\ round_blkcnt' = blkcnt
        /\ pc' = "data"
        /\ UNCHANGED <<drvVars, result, clkVars, intVars, admaaddr, dma_addr_next,
                       ctlVars, rsp_own, fault>>
     \/ ~Progress /\ Reset("maskFailed")

\* _sdmmc_mask_interrupts
Mask ==
  /\ pc \in {"mask", "maskFailed"}
  /\ enabled' = FALSE
  /\ IF pc = "mask" /\ (HasData \/ cmd.check_busy)
     THEN pc' = "waitBusy" /\ UNCHANGED <<result, clkcon>>
     ELSE Return(pc = "mask")
  /\ UNCHANGED <<drvVars, intsts, dmaVars, ctlVars, rsp_own, fault>>

\* _sdmmc_wait_card_busy
WaitBusy ==
  /\ pc = "waitBusy"
  /\ \/ /\ ~dat0_low
        /\ Return(TRUE)
        /\ UNCHANGED <<drvVars, intVars, dmaVars, ctlVars, rsp_own, fault>>
     \/ dat0_low /\ Reset("idle")

Driver ==
  \/ WaitCmd \/ WaitData \/ Config \/ Send \/ WaitResponse
  \/ DataEnd \/ DmaEnd \/ UpdateDma \/ DataError \/ DataLate \/ DataRound
  \/ Mask \/ WaitBusy

-----------------------------------------------------------------------------
(* The controller and the card                                             *)

Raise(bits) == intsts' = IF enabled THEN intsts \cup bits ELSE intsts

\* The response; a command with check_busy may leave the card busy, and any
\* may end a transfer that the driver has given up.
Respond ==
  /\ cmd_line.st = "sent"
  /\ Raise({"response"})
  /\ cmd_line' = FreeCmd
  /\ rspreg_own' = cmd_line.own
  /\ \/ /\ data_line.st = "waiting"
        /\ data_line' = [data_line EXCEPT !.st = "moving"]
        /\ UNCHANGED dat0_low
     \/ /\ data_line.st = "free" /\ cmd_line.own /\ cmd.check_busy
        /\ data_line' = [FreeData EXCEPT !.st = "busy"]
        /\ dat0_low' = TRUE
     \/ /\ data_line.st # "waiting" /\ ~data_line.own
        /\ data_line' = FreeData
        /\ UNCHANGED dat0_low
     \/ /\ data_line.st # "waiting"
        /\ UNCHANGED <<data_line, dat0_low>>
  /\ UNCHANGED <<pc, drvVars, result, clkVars, enabled, dmaVars, rsp_own, placed, fault>>

\* A unit of data moves.  After the last one the transfer ends, and the card
\* may be busy; at a boundary the DMA stops.
Move ==
  LET n == data_line.moved + 1 IN
  /\ data_line.st = "moving"
  /\ placed' = IF data_line.own THEN placed \cup {<<n - 1, admaaddr>>} ELSE placed
  /\ admaaddr' = admaaddr + 1
  /\ \/ /\ n >= Units
        /\ data_line' = [data_line EXCEPT !.st = "free", !.moved = n]
        /\ Raise({"dataEnd"})
        /\ dat0_low' \in BOOLEAN
     \/ /\ n < Units
        /\ IF admaaddr' % Boundary = 0
           THEN data_line' = [data_line EXCEPT !.st = "stopped", !.moved = n]
                /\ Raise({"dmaEnd"})
           ELSE data_line' = [data_line EXCEPT !.moved = n] /\ UNCHANGED intsts
        /\ UNCHANGED dat0_low
  /\ UNCHANGED <<pc, drvVars, result, clkVars, enabled, dma_addr_next, round_blkcnt,
                 cmd_line, rspreg_own, rsp_own, fault>>

\* The card is no longer busy.
Unbusy ==
  /\ dat0_low
  /\ dat0_low' = FALSE
  /\ IF data_line.st = "busy"
     THEN data_line' = FreeData /\ Raise({"dataEnd"})
     ELSE UNCHANGED <<data_line, intsts>>
  /\ UNCHANGED <<pc, drvVars, result, clkVars, enabled, dmaVars, cmd_line,
                 rspreg_own, rsp_own, placed, fault>>

\* The command or the transfer comes to nothing, with an error or in silence.
Break ==
  /\ \/ /\ cmd_line.st = "sent"
        /\ cmd_line' = [cmd_line EXCEPT !.st = "lost"]
        /\ UNCHANGED data_line
     \/ /\ data_line.st \in {"moving", "waiting"}
        /\ data_line' = [data_line EXCEPT !.st = "lost"]
        /\ UNCHANGED cmd_line
  /\ Raise({"error"}) \/ UNCHANGED intsts
  /\ fault' = TRUE
  /\ UNCHANGED <<pc, drvVars, result, clkVars, enabled, dmaVars, dat0_low,
                 rspreg_own, rsp_own, placed>>

Controller == Respond \/ Move \/ Unbusy \/ Break

Next == Powersave \/ Call \/ Driver \/ Controller

Spec == Init /\ [][Next]_vars

\* The driver's thread keeps running, and so does the clock it looks at; of
\* the controller and the card nothing is assumed.
FairSpec == Spec /\ WF_vars(Driver)

-----------------------------------------------------------------------------
(* Properties                                                              *)

TypeOK ==
  /\ pc \in {"idle", "waitCmd", "waitData", "config", "send", "response", "data",
             "update", "progress", "mask", "maskFailed", "waitBusy"}
  /\ cmd \in Commands /\ start \in Starts \cup {0}
  /\ {result, powersave_enabled, clkcon, should_disable, enabled, dat0_low,
      rspreg_own, rsp_own, fault} \subseteq BOOLEAN
  /\ intsts \subseteq {"response", "dataEnd", "dmaEnd", "error"}
  /\ {admaaddr, dma_addr_next, round_blkcnt} \subseteq Nat
  /\ cmd_line \in [st : {"free", "sent", "lost"}, own : BOOLEAN]
  /\ data_line \in [st : {"free", "waiting", "moving", "stopped", "busy", "lost"},
                    own : BOOLEAN, moved : Nat]
  /\ placed \subseteq Nat \X Nat

(* A command that succeeds has its own response, never that of an earlier
   command which the driver had given up.                                  *)
ResponseIsOwn == pc = "idle" /\ result => rsp_own

(* Across every boundary each unit goes to its place in the buffer.        *)
DataInPlace == \A m \in placed : m[2] = start + m[1]

\* The first n units in their places.
FirstUnits(n) == {<<k, start + k>> : k \in 0..(n - 1)}

(* A data command that succeeds has moved all of its data.                 *)
SuccessIsComplete == pc = "idle" /\ result => placed = FirstUnits(Units)

(* A command fails only when the controller or the card has: no interrupt is
   lost between the driver's polls, no transfer left waiting at a boundary. *)
NoFalseFailure == pc = "idle" /\ ~result => fault

(* Between commands the card clock is gated in power save mode, and runs
   otherwise, whichever way the last command ended.                        *)
ClockGated == pc = "idle" => clkcon = ~powersave_enabled

(* Every command returns, whatever the controller does.                    *)
CommandsReturn == pc # "idle" ~> pc = "idle"

-----------------------------------------------------------------------------
(* The inductive invariants behind them (SdCommandProofs).                 *)

Before  == {"waitCmd", "waitData", "config", "send"}   \* not yet sent
Waiting == {"response", "data", "update", "progress"}  \* sent, not yet done
Done    == {"mask", "waitBusy"}                        \* done, not yet returned

\* The command has come to a good end.
Success == pc \in Done \/ (pc = "idle" /\ result)

\* In a command the clock runs, and should_disable remembers why.
ClockInv ==
  /\ clkcon = (pc # "idle" \/ ~powersave_enabled)
  /\ pc # "idle" => should_disable = powersave_enabled

\* From the wait for the command line on, what the line does is the driver's
\* own, and so is the answer.
CmdInv ==
  /\ pc \in {"waitData", "config", "send", "data", "update", "progress"} \/ Success
       => cmd_line.st = "free"
  /\ pc = "send" => "response" \notin intsts
  /\ pc = "response" =>
       /\ cmd_line.st # "free" => cmd_line.own
       /\ "response" \in intsts => rspreg_own /\ cmd_line.st = "free"
  /\ pc \in {"data", "update", "progress"} \/ Success => rsp_own

\* A command with data has the data line to itself, and the bits that it sees
\* are those of its own transfer.
LineInv ==
  /\ HasData => cmd.wait_dat /\ ~cmd.check_busy
  /\ pc \in {"config", "send"} /\ HasData => data_line.st = "free"
  /\ pc = "send" /\ HasData => intsts = {}
  /\ data_line.own => HasData /\ pc \notin Before /\ data_line.st # "busy"
  /\ pc \in {"data", "update", "progress"} => HasData
  /\ pc \in Waiting /\ HasData =>
       /\ data_line.own
       /\ "dataEnd" \in intsts => data_line.st = "free"
       /\ "dmaEnd" \in intsts => data_line.st = "stopped" /\ pc # "update"
  /\ pc = "update" => data_line.st = "stopped"
  /\ Success /\ HasData => data_line.own /\ data_line.st = "free"

\* The DMA stands where the moved data ends, below the address it gets next.
AddrInv ==
  /\ HasData /\ pc = "send" =>
       /\ admaaddr = start
       /\ dma_addr_next % Boundary = 0
       /\ admaaddr < dma_addr_next /\ dma_addr_next <= admaaddr + Boundary
  /\ data_line.own /\ data_line.st \in {"waiting", "moving", "stopped"} =>
       /\ admaaddr = start + data_line.moved
       /\ dma_addr_next % Boundary = 0
       /\ IF data_line.st = "stopped"
          THEN admaaddr = dma_addr_next
          ELSE admaaddr < dma_addr_next /\ dma_addr_next <= admaaddr + Boundary

\* What has been placed is what has moved.
PlacedInv ==
  /\ pc \in Before \/ ~HasData => placed = {}
  /\ data_line.own =>
       /\ placed = FirstUnits(data_line.moved)
       /\ IF data_line.st = "free" THEN data_line.moved = Units
                                  ELSE data_line.moved < Units

\* The blocks that are left only grow fewer.
RoundInv ==
  pc \in Waiting \ {"response"} /\ HasData => blkcnt <= round_blkcnt

\* Without a fault each wait has something left to wait for.
FaultInv ==
  /\ pc \in {"send", "mask", "maskFailed"} \cup Waiting => enabled
  /\ ~fault =>
       /\ pc = "idle" => result
       /\ pc # "maskFailed"
       /\ pc \in {"send"} \cup Waiting => "error" \notin intsts
       /\ pc \in Before => cmd_line.st = "free" /\ data_line.st = "free" /\ ~dat0_low
       /\ pc = "response" =>
            \/ cmd_line.st = "sent" /\ (HasData => data_line.st = "waiting")
            \/ "response" \in intsts
       /\ pc \in {"response", "data", "progress"} /\ HasData /\ cmd_line.st = "free" =>
            data_line.st = "moving" \/ intsts \cap {"dataEnd", "dmaEnd"} # {}
       /\ pc = "progress" => Progress
=============================================================================
