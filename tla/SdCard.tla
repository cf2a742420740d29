------------------------------- MODULE SdCard -------------------------------
(***************************************************************************)
(* What the SD card driver (nx_sd.c and the storage layer of sdmmc.c)      *)
(* promises to its callers, each operation in one step.  A card is         *)
(*                                                                         *)
(*   power        the SD power pin (GPIO E4) is high                       *)
(*   clock        sdmmc.card_clock_enabled: commands can be sent           *)
(*   initialized  sd_storage.initialized: transfers are attempted          *)
(*   exhausted    sd_mode has come down to SD_INIT_FAIL                    *)
(*   cut          someone other than this driver (the boot sysmodule, or   *)
(*                FS closing the controller) has cut the card's power      *)
(*                                                                         *)
(* and an operation's outcomes are the pairs of its return value and of    *)
(* the card it leaves.  EmummcHooks uses these operators as they are;      *)
(* SdDevice is the specification made of them, which SdTransfer, where the *)
(* same operations are modelled step by step, implements.                  *)
(***************************************************************************)

Card == [power : BOOLEAN, clock : BOOLEAN, initialized : BOOLEAN,
         exhausted : BOOLEAN, cut : BOOLEAN]

\* sd_storage and sd_sdmmc are zero at start; FS or the bootloader may have
\* left the card powered.
FreshCards == {c \in Card : ~c.clock /\ ~c.initialized /\ ~c.exhausted /\ ~c.cut}

Off(c) == [c EXCEPT !.power = FALSE, !.clock = FALSE, !.initialized = FALSE]

\* A clocked card that has lost its power lost it from outside.
Plausible(c) == c.clock /\ ~c.power => c.cut

\* sdmmc_storage_end: GO_IDLE needs the card clock, and may fail even so;
\* the card is only switched off when the command went out.
EndOutcomes(c) ==
  {[ok |-> FALSE, card |-> c]} \cup
  IF c.clock THEN {[ok |-> TRUE, card |-> Off(c)]} ELSE {}

\* Cards as a successful bring-up leaves them.
Up(c) == {d \in Card : /\ d.clock /\ d.initialized /\ ~d.exhausted
                       /\ d.cut = c.cut /\ Plausible(d)}

\* nx_sd_initialize(false): with no speed left it gives up at once and changes
\* nothing; otherwise it succeeds at some speed or runs out of speeds.
InitOutcomes(c) ==
  IF c.exhausted
  THEN {[ok |-> FALSE, card |-> c]}
  ELSE {[ok |-> TRUE, card |-> d] : d \in Up(c)} \cup
       {[ok |-> FALSE, card |-> d] :
          d \in {e \in Card : /\ e.exhausted /\ ~e.initialized
                              /\ e.cut = c.cut /\ Plausible(e)}}

\* sdmmc_storage_read / sdmmc_storage_write with the custom driver: refused on
\* a card that is not initialized; otherwise done as the card is, done after
\* bringing it up again, or failed.  A failure leaves the card uninitialized
\* unless the very last speed was lost and GO_IDLE did not go out either.
TransferOutcomes(c) ==
  IF ~c.initialized
  THEN {[ok |-> FALSE, card |-> c]}
  ELSE {[ok |-> TRUE, card |-> c]} \cup
       {[ok |-> TRUE, card |-> d] : d \in IF c.exhausted THEN {} ELSE Up(c)} \cup
       {[ok |-> FALSE, card |-> d] :
          d \in {e \in Card : /\ c.exhausted => e.exhausted
                              /\ e.initialized => e.exhausted /\ e.clock
                              /\ e.cut = c.cut /\ Plausible(e)}}
=============================================================================
