----------------------------- MODULE SdTransfer -----------------------------
(***************************************************************************)
(* The SD card driver's operations with their retries: nx_sd_initialize    *)
(* and nx_sd_init_retry (source/emmc/nx_sd.c), sdmmc_storage_end and       *)
(* _sdmmc_storage_readwrite (source/emmc/sdmmc.c).                         *)
(*                                                                         *)
(* One call runs at a time (EmummcHooks shows that the hooks' mutexes see  *)
(* to it); each step is one command, or one bring-up of the card, that may *)
(* fail.  The power may be cut between any two steps.                      *)
(***************************************************************************)
EXTENDS Naturals

CONSTANTS
  MaxSectors,  (* The largest num_sectors of a call.                       *)
  MaxBlocks,   (* Sectors that one command can move, 0xFFFF in the code.   *)
  Wrap         (* sd_mode is a number modulo Wrap, 2^32 in the code.       *)

ASSUME SectorsAssumption == MaxSectors \in Nat
ASSUME BlocksAssumption  == MaxBlocks \in Nat \ {0}
ASSUME WrapAssumption    == Wrap \in Nat /\ Wrap > 4

\* sd_mode: the speeds, and the failure below them.
SD_INIT_FAIL   == 0
SD_UHS_SDR104  == 4

Retries       == 5  \* of a command that fails for the first time
ReinitRetries == 3  \* after each new initialization

VARIABLES
  sd_mode,
  initialized,         (* sd_storage.initialized                           *)
  card_clock_enabled,  (* sd_sdmmc.card_clock_enabled                      *)
  power,               (* The SD power pin.                                *)
  cut,                 (* The power has been cut from outside.             *)
  pc,                  (* Where the call is.                               *)
  op,                  (* The call: "init", "end" or "io".                 *)
  looping,             (* nx_sd_init_retry was called from the loop of     *)
                       (* nx_sd_initialize.                                *)
  num_sectors, sct_off, sct_total, bbuf, retries, first_reinit,
  moved,               (* <<sector, place in the buffer>> moved so far, both *)
                       (* counted from the start of the request.           *)
  result,              (* What the last call has returned.                 *)
  entry                (* The card when the call began.                    *)

cardVars == <<initialized, card_clock_enabled, power, cut>>
ioVars   == <<num_sectors, sct_off, sct_total, bbuf, retries, first_reinit, moved>>
vars     == <<sd_mode, cardVars, pc, op, looping, ioVars, result, entry>>

Least(m, n) == IF m < n THEN m ELSE n

SdCard == INSTANCE SdCard

\* The card as SdCard describes it.
Now == [power |-> power, clock |-> card_clock_enabled, initialized |-> initialized,
        exhausted |-> sd_mode = SD_INIT_FAIL, cut |-> cut]

-----------------------------------------------------------------------------
Init ==
  /\ sd_mode = SD_UHS_SDR104
  /\ initialized = FALSE /\ card_clock_enabled = FALSE
  /\ power \in BOOLEAN /\ cut = FALSE
  /\ pc = "idle" /\ op = "end" /\ looping = FALSE
  /\ num_sectors = 0 /\ sct_off = 0 /\ sct_total = 0 /\ bbuf = 0
  /\ retries = 0 /\ first_reinit = TRUE /\ moved = {}
  /\ result = TRUE
  /\ entry = Now

Return(r) == pc' = "idle" /\ result' = r

\* Mutant of EndDone: storage->initialized is not reset.
EndDoneStaysInitialized ==
  /\ card_clock_enabled
  /\ card_clock_enabled' = FALSE /\ power' = FALSE
  /\ UNCHANGED <<initialized, cut>>

(* sdmmc_storage_end.  GO_IDLE_STATE is only sent with the card clock enabled
   and may fail even so; then nothing changes.                             *)
EndDone ==
  /\ card_clock_enabled
  /\ card_clock_enabled' = FALSE /\ power' = FALSE /\ initialized' = FALSE
  /\ UNCHANGED cut

EndFailed == UNCHANGED cardVars

\* A power cycle, whose result nobody looks at.
PowerCycle == EndDone \/ EndFailed

CallEnd ==
  /\ pc = "idle"
  /\ op' = "end" /\ entry' = Now
  /\ \/ EndDone /\ result' = TRUE
     \/ EndFailed /\ result' = FALSE
  /\ UNCHANGED <<sd_mode, pc, looping, ioVars>>

\* Mutant of KeepSpeed: nx_sd_initialize starts over at the fastest speed.
StartOver == sd_mode' = SD_UHS_SDR104

KeepSpeed == UNCHANGED sd_mode

\* nx_sd_initialize(false)
CallInitialize ==
  /\ pc = "idle"
  /\ op' = "init" /\ entry' = Now
  /\ pc' = "bringUp" /\ looping' = TRUE
  /\ KeepSpeed
  /\ UNCHANGED <<cardVars, ioVars, result>>

-----------------------------------------------------------------------------
(* _sdmmc_storage_readwrite                                                *)

\* Mutants of FromTheStart: a restart forgets the buffer, or the count.
RestartKeepsBuffer(n) == sct_off' = 0 /\ sct_total' = n /\ bbuf' = bbuf
RestartKeepsTotal(n) ==
  sct_off' = 0 /\ bbuf' = 0 /\ sct_total' = IF pc = "idle" THEN n ELSE sct_total

\* A request of n sectors starts, or starts again from its first sector.
FromTheStart(n) == sct_off' = 0 /\ sct_total' = n /\ bbuf' = 0

CallTransfer ==
  /\ pc = "idle"
  /\ op' = "io" /\ entry' = Now
  /\ \E n \in 0..MaxSectors :
       /\ num_sectors' = n
       /\ FromTheStart(n)
       /\ retries' = Retries /\ first_reinit' = TRUE /\ moved' = {}
       /\ IF initialized /\ n > 0
          THEN pc' = "try" /\ UNCHANGED result
          ELSE Return(initialized)
  /\ UNCHANGED <<sd_mode, cardVars, looping>>

\* The number of sectors in the next command.
blkcnt == Least(sct_total, MaxBlocks)

\* _sdmmc_storage_readwrite_ex succeeds; the next round counts its retries anew.
TryDone ==
  /\ pc = "try" /\ card_clock_enabled
  /\ moved' = moved \cup {<<sct_off + i, bbuf + i>> : i \in 0..(blkcnt - 1)}
  /\ sct_off' = sct_off + blkcnt
  /\ sct_total' = sct_total - blkcnt
  /\ bbuf' = bbuf + blkcnt
  /\ IF sct_total = blkcnt
     THEN Return(TRUE) /\ UNCHANGED retries
     ELSE retries' = Retries /\ UNCHANGED <<pc, result>>
  /\ UNCHANGED <<sd_mode, cardVars, op, looping, num_sectors, first_reinit, entry>>

\* retries-- brings the loop to its end.
LastTry == retries = 1

TryFailed ==
  /\ pc = "try"
  /\ retries' = retries - 1
  /\ pc' = IF LastTry THEN "reinit" ELSE "try"
  /\ UNCHANGED <<sd_mode, cardVars, op, looping, num_sectors, sct_off, sct_total,
                 bbuf, first_reinit, moved, result, entry>>

\* Mutant of Slower: the decrement is forgotten.
SameSpeed == UNCHANGED sd_mode

\* sd_mode--, in 32 bits.
Slower == sd_mode' = IF sd_mode = 0 THEN Wrap - 1 ELSE sd_mode - 1

(* Disk IO failure: the first time nx_sd_initialize(true), which starts with
   the speed it has; later nx_sd_init_retry(true), one speed down.         *)
Reinit ==
  /\ pc = "reinit"
  /\ PowerCycle
  /\ looping' = first_reinit
  /\ IF first_reinit THEN UNCHANGED sd_mode ELSE Slower
  /\ retries' = ReinitRetries /\ first_reinit' = FALSE
  /\ pc' = "bringUp"
  /\ UNCHANGED <<op, num_sectors, sct_off, sct_total, bbuf, moved, result, entry>>

-----------------------------------------------------------------------------
(* nx_sd_init_retry after its power cycle, and the loop of nx_sd_initialize *)

SpeedLeft == sd_mode # SD_INIT_FAIL

\* if (sd_mode == SD_INIT_FAIL) break, after nx_sd_init_retry.
LoopEnds == sd_mode' = SD_INIT_FAIL

\* The default of the switch.
ModeOfSwitch == IF sd_mode > SD_UHS_SDR104 THEN SD_UHS_SDR104 ELSE sd_mode

\* The card is up: the request starts again, or nx_sd_initialize returns true.
BringUpDone ==
  /\ pc = "bringUp" /\ SpeedLeft
  /\ initialized' = TRUE /\ card_clock_enabled' = TRUE /\ power' = TRUE
  /\ sd_mode' = ModeOfSwitch
  /\ IF op = "io"
     THEN pc' = "try" /\ FromTheStart(num_sectors) /\ UNCHANGED result
     ELSE Return(TRUE) /\ UNCHANGED <<sct_off, sct_total, bbuf>>
  /\ UNCHANGED <<cut, op, looping, num_sectors, retries, first_reinit, moved, entry>>

(* There is no speed left, or sdmmc_storage_init_sd fails: for want of a card,
   before the card clock runs, or in the card's initialization.            *)
BringUpFailed ==
  /\ pc = "bringUp"
  /\ \/ ~SpeedLeft /\ UNCHANGED <<sd_mode, cardVars>>
     \/ /\ SpeedLeft
        /\ sd_mode' = ModeOfSwitch
        /\ initialized' = FALSE
        /\ \/ card_clock_enabled' = FALSE /\ UNCHANGED power
           \/ card_clock_enabled' \in BOOLEAN /\ power' = TRUE
        /\ UNCHANGED cut
  /\ IF looping /\ ~LoopEnds
     THEN pc' = "slower" /\ UNCHANGED result
     ELSE Return(FALSE)
  /\ UNCHANGED <<op, looping, ioVars, entry>>

\* The loop goes on: nx_sd_init_retry(true).
NextSpeed ==
  /\ pc = "slower"
  /\ Slower
  /\ PowerCycle
  /\ pc' = "bringUp"
  /\ UNCHANGED <<op, looping, ioVars, result, entry>>

-----------------------------------------------------------------------------
\* The power goes away behind the driver's back.
PowerCut ==
  /\ power' = FALSE /\ cut' = TRUE
  /\ entry' = [entry EXCEPT !.power = FALSE, !.cut = TRUE]
  /\ UNCHANGED <<sd_mode, initialized, card_clock_enabled, pc, op, looping,
                 ioVars, result>>

InCall == TryDone \/ TryFailed \/ Reinit \/ BringUpDone \/ BringUpFailed \/ NextSpeed

Next == CallEnd \/ CallInitialize \/ CallTransfer \/ InCall \/ PowerCut

Spec == Init /\ [][Next]_vars

\* Every command ends, each wait of the driver having its timeout.
FairSpec == Spec /\ WF_vars(InCall)

-----------------------------------------------------------------------------
(* Properties                                                              *)

TypeOK ==
  /\ sd_mode \in 0..(Wrap - 1)
  /\ initialized \in BOOLEAN /\ card_clock_enabled \in BOOLEAN
  /\ power \in BOOLEAN /\ cut \in BOOLEAN
  /\ pc \in {"idle", "try", "reinit", "bringUp", "slower"}
  /\ op \in {"init", "end", "io"}
  /\ looping \in BOOLEAN /\ first_reinit \in BOOLEAN /\ result \in BOOLEAN
  /\ num_sectors \in Nat /\ sct_off \in Nat /\ sct_total \in Nat /\ bbuf \in Nat
  /\ retries \in Nat

(* sd_mode is counted down by whoever power cycles the card, without a test:
   it never passes SD_INIT_FAIL, and the switch never takes its default.   *)
ModeInRange == sd_mode \in SD_INIT_FAIL..SD_UHS_SDR104

(* A card that has shown errors at one speed is never run faster again, nor
   is a driver that has given up revived: the code does not do what the
   comment "Reset to max." (nx_sd.c, 48) says of SD_INIT_FAIL, where it only
   returns 0.  It is not always slower, though: the first reinitialization
   tries the same speed, "to a lower speed" (sdmmc.c, 323) or not.         *)
NeverFaster == [][sd_mode' <= sd_mode]_vars

(* A request restarts from its first sector in mid-transfer; buffer and card
   must go back together, or sectors land in the wrong place.              *)
InStep ==
  op = "io" => /\ bbuf = sct_off
               /\ sct_off + sct_total = num_sectors
               /\ \A m \in moved : m[1] = m[2]

(* When a transfer reports success, every sector of the request has moved. *)
SuccessIsComplete ==
  op = "io" /\ pc = "idle" /\ result
    => {m[1] : m \in moved} = 0..(num_sectors - 1)

(* A card that transfers are attempted on answers commands: its clock is on,
   after every half failed reinitialization, too.                          *)
InitializedHasClock == initialized => card_clock_enabled

(* While sectors are tried, the card is initialized and a speed is left.   *)
TryingIsUp ==
  pc \in {"try", "reinit"} => initialized /\ (~first_reinit => sd_mode # SD_INIT_FAIL)

(* Every call returns: each round of the retries gives up a speed.         *)
CallsReturn == pc # "idle" ~> pc = "idle"

(* The abstract driver: a call takes its effect when it returns.           *)
Device == INSTANCE SdDevice WITH card <- IF pc = "idle" THEN Now ELSE entry

ImplementsDevice == Device!Spec

-----------------------------------------------------------------------------
(* The inductive invariants behind them (SdTransferProofs).                *)

InIo == pc \in {"try", "reinit"} \/ (pc \in {"bringUp", "slower"} /\ op = "io")

\* A try is left wherever one may follow, and a speed where one is given up.
RetryInv ==
  /\ pc \in {"try", "reinit"} => op = "io"
  /\ InIo /\ pc # "reinit" => retries >= 1
  /\ pc = "slower" => sd_mode # SD_INIT_FAIL

\* All that lies before sct_off has moved, and nothing outside the request.
CoverInv ==
  op = "io" =>
    /\ 0..(sct_off - 1) \subseteq {m[1] : m \in moved}
    /\ {m[1] : m \in moved} \subseteq 0..(num_sectors - 1)
    /\ pc = "idle" /\ result => sct_total = 0

\* What the call that runs has done to the card it began with.
EntryInv ==
  /\ SdCard!Plausible(Now)
  /\ entry \in SdCard!Card
  /\ pc # "idle" =>
       /\ entry.cut = cut
       /\ entry.exhausted => sd_mode = SD_INIT_FAIL
  /\ InIo => /\ entry.initialized
             /\ first_reinit => pc \in {"try", "reinit"} /\ entry = Now
  /\ pc \in {"bringUp", "slower"} /\ op # "io" =>
       /\ looping
       /\ entry.exhausted => pc = "bringUp" /\ entry = Now
       /\ ~entry.exhausted /\ (pc = "slower" \/ sd_mode = SD_INIT_FAIL)
            => ~initialized

-----------------------------------------------------------------------------
(* Properties that comments state and the code does not have.              *)

(* nx_sd.c:38: "Power cycle SD card.".  Each power cycle, which also takes the
   speed down, switches the card off.                                      *)
PowerCycleSwitchesOff ==
  [][pc' = "bringUp" /\ sd_mode' # sd_mode => ~power']_vars
=============================================================================
