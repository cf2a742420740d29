------------------------------- MODULE SdInit -------------------------------
(***************************************************************************)
(* Bringing an SD card up: sdmmc_storage_init_sd and what it calls         *)
(* (source/emmc/sdmmc.c), under nx_sd_initialize, nx_sd_init_retry         *)
(* (source/emmc/nx_sd.c) and sdmmc_storage_end.  Each step is one command  *)
(* and what the driver does on its answer; every command may fail, by a    *)
(* timeout or a response with an error in it.  The hardware is SdHost's.   *)
(*                                                                         *)
(* External: the card, which follows the SD specification, and the boot    *)
(* sysmodule, which may cut the card's power once, between any two steps.  *)
(* What a card did before it failed to answer matters for the voltage      *)
(* switch alone: after every other failure the next thing the card hears   *)
(* is GO_IDLE_STATE.                                                       *)
(***************************************************************************)
EXTENDS SdHost

CONSTANTS
  Consoles   (* [soc, v2, hc, s18, functions, w4]: the SoC, and of the card: *)
             (* it knows SEND_IF_COND; it counts in sectors; it can signal   *)
             (* at 1.8 V; the access modes it offers, by their speed; it has *)
             (* a wide bus.                                                  *)

ASSUME ConsolesAssumption ==
  Consoles \subseteq [soc : {"Erista", "Mariko"}, v2 : BOOLEAN, hc : BOOLEAN,
                      s18 : BOOLEAN, functions : SUBSET {12, 25, 50, 104},
                      w4 : BOOLEAN]

SD_INIT_FAIL  == 0
SD_1BIT_HS25  == 1
SD_4BIT_HS25  == 2
SD_UHS_SDR82  == 3
SD_UHS_SDR104 == 4

VARIABLES
  console,     (* One of Consoles.                                         *)
  h,           (* The hardware and sd_sdmmc, see SdHost.                   *)
  card,        (* The card: [st, volt, switching, width, mode]: its state, *)
               (* its signal voltage, whether it is in the middle of the   *)
               (* switch, the width and the access mode set.               *)
  storage,     (* sd_storage: [initialized, is_low_voltage,                *)
               (* has_sector_access].                                      *)
  sd_mode,
  pc,          (* Where the call is: before which command, or "idle".      *)
  op,          (* The call, as in SdTransfer: "init", "end" or "io".       *)
  looping,     (* It is in the loop of nx_sd_initialize.                   *)
  is_version_1,
  result,      (* What the last call has returned.                         *)
  cut,         (* The power has been cut from outside.                     *)
  entry,       (* The card when the call began, as SdDevice sees it.       *)
  rounds       (* The calls of sdmmc_init, up to two.                      *)

hwVars   == <<h, card>>
callVars == <<op, looping, entry>>
vars == <<console, hwVars, storage, sd_mode, pc, callVars, is_version_1,
          result, cut, rounds>>

Now == [power |-> h.pin, clock |-> h.card_clock_enabled,
        initialized |-> storage.initialized,
        exhausted |-> sd_mode = SD_INIT_FAIL, cut |-> cut]

OffCard == [st |-> "off", volt |-> SDMMC_POWER_3_3, switching |-> FALSE,
            width |-> 1, mode |-> 12]

Zero == [initialized |-> FALSE, is_low_voltage |-> FALSE,
         has_sector_access |-> FALSE]

\* The bootloader has left the card off, or on at 3.3 V, and the controller's
\* clock as it pleased; sd_sdmmc is zero.
Left(on, source) ==
  [card_clock_enabled |-> FALSE, clock_stopped |-> FALSE,
   powersave_enabled |-> FALSE, t210b01 |-> FALSE,
   card_en |-> on, div |-> 0, width |-> 1, hispd |-> FALSE, uhs |-> 12,
   vdd_180 |-> FALSE, tap |-> "fixed", pwrcon |-> SDMMC_POWER_OFF,
   cal |-> SDMMC_POWER_3_3, trim |-> "Erista", clock_on |-> on,
   source |-> source, known |-> 0, io_on |-> on, pwr_det |-> SDMMC_POWER_3_3,
   ldo2_on |-> on, ldo2 |-> SDMMC_POWER_3_3, pin |-> on, fault |-> FALSE]

Init ==
  /\ console \in Consoles
  /\ \E on \in BOOLEAN, source \in {HostClock(25000), HostClock(200000)} :
       /\ h = Left(on, source)
       /\ card = [OffCard EXCEPT !.st = IF on THEN "tran" ELSE "off"]
  /\ storage = Zero /\ sd_mode = SD_UHS_SDR104
  /\ pc = "idle" /\ op = "end" /\ looping = FALSE /\ is_version_1 = FALSE
  /\ result = TRUE /\ cut = FALSE /\ entry = Now /\ rounds = 0

-----------------------------------------------------------------------------
(* The speeds (nx_sd.c)                                                    *)

bus_width == IF sd_mode = SD_1BIT_HS25 THEN 1 ELSE 4

type ==
  CASE sd_mode = SD_UHS_SDR104 -> "UHS_SDR104"
    [] sd_mode = SD_UHS_SDR82  -> "UHS_SDR82"
    [] OTHER                   -> "SD_HS25"

\* _sdmmc_storage_get_low_voltage_support
bus_low_voltage_support ==
  bus_width = 4 /\ type \in {"UHS_SDR82", "UHS_SDR104"}

Return(r) == pc' = "idle" /\ result' = r
Next_(to) == pc' = to /\ UNCHANGED result

\* The bring-up returns 0: nx_sd_initialize goes on one speed slower, if there
\* is one.
Failed ==
  IF looping /\ sd_mode # SD_INIT_FAIL THEN Next_("slower") ELSE Return(FALSE)

\* The card follows its power: it starts afresh when it comes back.
PowerTo(new) ==
  /\ h' = new
  /\ card' = IF ~new.pin THEN OffCard
             ELSE IF ~h.pin THEN [OffCard EXCEPT !.st = "idle"] ELSE card

\* GO_IDLE_STATE: it has no response, and a card in the middle of the voltage
\* switch does not hear it.  The voltage stays.
Idled(c) ==
  IF c.st = "off" \/ c.switching THEN c
  ELSE [c EXCEPT !.st = "idle", !.width = 1, !.mode = 12]

\* Mutant of Ended: the storage stays initialized.
EndedStays == storage

Ended == [storage EXCEPT !.initialized = FALSE]

\* sdmmc_storage_end, which succeeds or whose GO_IDLE_STATE does not go out.
EndDone ==
  /\ h.card_clock_enabled
  /\ \E new \in sdmmc_end(h) :
       /\ h' = new
       /\ card' = IF new.pin THEN Idled(card) ELSE OffCard
  /\ storage' = Ended

EndFailed ==
  /\ h' = [h EXCEPT !.fault = @ \/ h.pin]
  /\ UNCHANGED <<card, storage>>

PowerCycle == EndDone \/ EndFailed

-----------------------------------------------------------------------------
(* Calls                                                                   *)

\* sdmmc_finalize's sdmmc_storage_end
CallEnd ==
  /\ pc = "idle" /\ op' = "end" /\ entry' = Now
  /\ \/ EndDone /\ result' = TRUE
     \/ EndFailed /\ result' = FALSE
  /\ UNCHANGED <<console, sd_mode, pc, looping, is_version_1, cut, rounds>>

\* nx_sd_initialize(false), at the start or behind a sdmmc_finalize, which dies
\* when sdmmc_storage_end fails (emummc.c, 68 to 90).
CallInitialize ==
  /\ pc = "idle" /\ op = "end" /\ result
  /\ op' = "init" /\ entry' = Now
  /\ looping' = TRUE /\ Next_("init")
  /\ UNCHANGED <<console, hwVars, storage, sd_mode, is_version_1, cut, rounds>>

\* From a transfer that has failed on an initialized card: the first time
\* nx_sd_initialize(true), then nx_sd_init_retry(true).
CallReinitialize ==
  /\ pc = "idle" /\ storage.initialized /\ op' = "io" /\ entry' = Now
  /\ PowerCycle
  /\ \/ looping' = TRUE /\ UNCHANGED sd_mode
     \/ looping' = FALSE /\ sd_mode > SD_INIT_FAIL /\ sd_mode' = sd_mode - 1
  /\ Next_("init")
  /\ UNCHANGED <<console, is_version_1, cut, rounds>>

\* nx_sd_init_retry(true) in the loop of nx_sd_initialize
NextSpeed ==
  /\ pc = "slower"
  /\ sd_mode' = sd_mode - 1
  /\ PowerCycle /\ Next_("init")
  /\ UNCHANGED <<console, callVars, is_version_1, cut, rounds>>

NoSpeedLeft ==
  /\ pc = "init" /\ sd_mode = SD_INIT_FAIL /\ Failed
  /\ UNCHANGED <<console, hwVars, storage, sd_mode, callVars, is_version_1,
                 cut, rounds>>

-----------------------------------------------------------------------------
(* sdmmc_storage_init_sd, one step a command.  A step leaves alone what its
   definition does not name: Keep lists the rest.                          *)

Keep == UNCHANGED <<console, sd_mode, callVars, cut>>
KeepAll == Keep /\ UNCHANGED <<storage, is_version_1, rounds>>

sdmmc_init_ ==
  /\ pc = "init" /\ sd_mode # SD_INIT_FAIL
  /\ storage' = Zero
  /\ \E r \in sdmmc_init(h, console.soc) :
       PowerTo(r.h) /\ IF r.ok THEN Next_("goIdle") ELSE Failed
  /\ rounds' = IF rounds < 2 THEN rounds + 1 ELSE rounds
  /\ Keep /\ UNCHANGED is_version_1

\* The commands of a bring-up.
Commands ==
  {"goIdle", "ifCond", "opCond", "switchVoltage", "cid", "rca", "csd",
   "select", "blocklen", "cardDetect", "scr", "busWidth", "switchGet",
   "check", "set", "tuning", "status"}

\* Commands whose failure is not the end of the bring-up.
Excused == {"ifCond", "switchVoltage"}

CommandFails ==
  /\ pc \in Commands \ Excused /\ Failed
  /\ UNCHANGED hwVars /\ KeepAll

\* The card hears the command and answers it.
Answers(command) ==
  /\ pc = command /\ card.st # "off" /\ ~card.switching
  /\ h.card_clock_enabled /\ h.clock_on

go_idle_state ==
  /\ pc = "goIdle" /\ Next_("ifCond")
  /\ card' = Idled(card)
  /\ UNCHANGED h /\ KeepAll

\* SEND_IF_COND fails: the card is taken for version 1.
IfCondFails ==
  /\ pc = "ifCond" /\ Next_("opCond")
  /\ is_version_1' = TRUE
  /\ UNCHANGED <<hwVars, storage, rounds>> /\ Keep

\* A wrong echo ends the bring-up.
send_if_cond ==
  /\ Answers("ifCond") /\ console.v2 /\ card.st = "idle"
  /\ \/ is_version_1' = FALSE /\ Next_("opCond")
     \/ Failed /\ UNCHANGED is_version_1
  /\ UNCHANGED <<hwVars, storage, rounds>> /\ Keep

\* S18A: the card was asked, can do it, and is not at 1.8 V already.
SwitchAgreed ==
  /\ bus_low_voltage_support /\ ~is_version_1
  /\ console.s18 /\ card.volt = SDMMC_POWER_3_3

\* The card stops being busy; a card that counts in sectors only does if it was
\* told that the host knows of such cards.
get_op_cond ==
  /\ Answers("opCond") /\ card.st = "idle"
  /\ console.hc => ~is_version_1
  /\ card' = [card EXCEPT !.st = "ready"]
  /\ storage' = [storage EXCEPT !.has_sector_access = console.hc]
  /\ Next_(IF SwitchAgreed THEN "switchVoltage" ELSE "cid")
  /\ UNCHANGED <<h, is_version_1, rounds>> /\ Keep

\* SWITCH_VOLTAGE is answered and sdmmc_enable_low_voltage is called.
SwitchAnswered ==
  /\ Answers("switchVoltage") /\ card.st = "ready"
  /\ card' = [card EXCEPT !.switching = TRUE]
  /\ Next_("lowVoltage") /\ UNCHANGED h /\ KeepAll

\* It fails, unheard or with its answer lost: the bring-up goes on at 3.3 V.
SwitchFails ==
  /\ pc = "switchVoltage" /\ Next_("cid")
  /\ \/ UNCHANGED card
     \/ Answers("switchVoltage") /\ card' = [card EXCEPT !.switching = TRUE]
  /\ UNCHANGED h /\ KeepAll

\* When the card lets go of the data lines it signals at 1.8 V.
enable_low_voltage ==
  /\ pc = "lowVoltage"
  /\ h' \in sdmmc_enable_low_voltage(h)
  /\ \/ /\ card.st # "off"
        /\ card' = [card EXCEPT !.volt = SDMMC_POWER_1_8, !.switching = FALSE]
        /\ storage' = [storage EXCEPT !.is_low_voltage = TRUE]
        /\ Next_("cid")
     \/ Failed /\ UNCHANGED <<card, storage>>
  /\ UNCHANGED <<is_version_1, rounds>> /\ Keep

\* The commands in a row from ALL_SEND_CID on: the state of the card that
\* answers, its next state, and what the driver sends next.
Row ==
  [cid        |-> [from |-> "ready", to |-> "ident", next |-> "rca"],
   rca        |-> [from |-> "ident", to |-> "stby",  next |-> "csd"],
   csd        |-> [from |-> "stby",  to |-> "stby",  next |-> "select"],
   select     |-> [from |-> "stby",  to |-> "tran",  next |-> "blocklen"],
   blocklen   |-> [from |-> "tran",  to |-> "tran",  next |-> "cardDetect"],
   cardDetect |-> [from |-> "tran",  to |-> "tran",  next |-> "scr"]]

\* Behind SEND_CSD the clock is set up for a card that stayed at 3.3 V.
RowCommand ==
  /\ pc \in DOMAIN Row
  /\ Answers(pc) /\ card.st = Row[pc].from
  /\ card' = [card EXCEPT !.st = Row[pc].to]
  /\ Next_(Row[pc].next)
  /\ h' = IF pc = "csd" /\ ~storage.is_low_voltage
          THEN sdmmc_setup_clock(h, "SD_DS12") ELSE h
  /\ KeepAll

\* sda_vsn is 0 for a version 1.0 card.
WideBus == bus_width = 4 /\ console.w4 /\ console.v2

\* sdmmc_storage_init_sd sets initialized.
Initialized ==
  /\ storage' = [storage EXCEPT !.initialized = TRUE]
  /\ Return(TRUE)

\* The part after the bus width.  UHS needs the wide bus.
SpeedStep(width) ==
  IF storage.is_low_voltage
  THEN (IF width = 4 THEN Next_("switchGet") ELSE Failed) /\ UNCHANGED storage
  ELSE IF console.v2 THEN Next_("switchGet") /\ UNCHANGED storage
  ELSE Initialized

get_scr ==
  /\ Answers("scr") /\ card.st = "tran"
  /\ IF WideBus THEN Next_("busWidth") /\ UNCHANGED storage
     ELSE SpeedStep(h.width)
  /\ UNCHANGED <<hwVars, is_version_1, rounds>> /\ Keep

\* SD_APP_SET_BUS_WIDTH is answered: the host follows.
HostWidth == sdmmc_set_bus_width(h, 4)

set_bus_width ==
  /\ Answers("busWidth") /\ card.st = "tran"
  /\ card' = [card EXCEPT !.width = 4] /\ h' = HostWidth
  /\ SpeedStep(4)
  /\ UNCHANGED <<is_version_1, rounds>> /\ Keep

\* The switch of _sd_storage_enable_uhs_low_volt, which falls through to the
\* fastest access mode that the card has; for UHS_SDR82, too, that is SDR104.
Fallback ==
  CASE 104 \in console.functions -> [function |-> 104, type |-> type]
    [] 104 \notin console.functions /\ 50 \in console.functions
         -> [function |-> 50, type |-> "UHS_SDR50"]
    [] console.functions \cap {50, 104} = {} /\ 25 \in console.functions
         -> [function |-> 25, type |-> "UHS_SDR25"]
    [] OTHER -> [function |-> 12, type |-> "UHS_SDR12"]

\* The access mode to set; at 3.3 V it is high speed.
Function == IF storage.is_low_voltage THEN Fallback.function ELSE 25

\* SD_SWITCH, to look; the result of setting the current limit is ignored.
switch_get ==
  /\ Answers("switchGet") /\ card.st = "tran"
  /\ IF Function \in console.functions THEN Next_("check") /\ UNCHANGED storage
     ELSE IF storage.is_low_voltage THEN Failed /\ UNCHANGED storage
     ELSE Initialized
  /\ UNCHANGED <<hwVars, is_version_1, rounds>> /\ Keep

\* _sd_storage_enable_highspeed: SD_SWITCH_CHECK; a card that does not offer the
\* mode, or draws too much in it, is CommandFails.
SwitchCheck ==
  /\ Answers("check") /\ card.st = "tran"
  /\ Next_("set")
  /\ UNCHANGED hwVars /\ KeepAll

\* The clock goes up when the card has switched: at 1.8 V at once, at 3.3 V
\* behind a last SEND_STATUS.
AfterSwitch ==
  IF storage.is_low_voltage THEN sdmmc_setup_clock(h, Fallback.type) ELSE h

SwitchSet ==
  /\ Answers("set") /\ card.st = "tran"
  /\ card' = [card EXCEPT !.mode = Function]
  /\ h' = AfterSwitch
  /\ Next_(IF storage.is_low_voltage THEN "tuning" ELSE "status")
  /\ KeepAll

tuning_execute ==
  /\ Answers("tuning") /\ card.st = "tran"
  /\ h' = Tuned(h, Fallback.type) /\ Next_("status")
  /\ UNCHANGED card /\ KeepAll

check_status ==
  /\ Answers("status") /\ card.st = "tran"
  /\ h' = IF storage.is_low_voltage THEN sdmmc_card_clock_powersave(h, TRUE)
          ELSE sdmmc_setup_clock(h, "SD_HS25")
  /\ Initialized
  /\ UNCHANGED <<card, is_version_1, rounds>> /\ Keep

-----------------------------------------------------------------------------
\* The boot sysmodule cuts the power, and may leave the clock another source.
CutSources == {h.source, HostClock(200000)}

Unpowered(source) == [h EXCEPT !.pin = FALSE, !.source = source]

PowerCut ==
  /\ ~cut /\ cut' = TRUE
  /\ \E source \in CutSources : h' = Unpowered(source)
  /\ card' = OffCard
  /\ entry' = [entry EXCEPT !.power = FALSE, !.cut = TRUE]
  /\ UNCHANGED <<console, storage, sd_mode, pc, op, looping, is_version_1,
                 result, rounds>>

InCall ==
  \/ NextSpeed \/ NoSpeedLeft \/ sdmmc_init_ \/ CommandFails
  \/ go_idle_state \/ IfCondFails \/ send_if_cond \/ get_op_cond
  \/ SwitchAnswered \/ SwitchFails \/ enable_low_voltage
  \/ RowCommand \/ get_scr \/ set_bus_width
  \/ switch_get \/ SwitchCheck \/ SwitchSet \/ tuning_execute \/ check_status

Next == CallEnd \/ CallInitialize \/ CallReinitialize \/ InCall \/ PowerCut

Spec == Init /\ [][Next]_vars

-----------------------------------------------------------------------------
(* Properties                                                              *)

Ready == storage.initialized /\ card.st # "off"

\* The card, the regulator, the controller, its pads, their calibration and the
\* timing are all for one voltage.
VoltagesAgree ==
  /\ h.ldo2_on /\ h.io_on
  /\ {card.volt, h.ldo2, h.pwrcon, h.pwr_det, h.cal} = {card.volt}
  /\ h.vdd_180 = (card.volt = SDMMC_POWER_1_8)

\* Card and controller have the same width and timing, and a timing that needs
\* tuning has it; the host is set to SDR104 for SDR50.
ModesAgree ==
  /\ h.width = card.width
  /\ h.hispd = (card.mode = 25 /\ ~h.vdd_180)
  /\ h.vdd_180 => h.uhs = IF card.mode = 50 THEN 104 ELSE card.mode
  /\ (card.mode \in {50, 104}) = (h.tap = "tuned")

\* When a bring-up has marked the card initialized, card, host and power agree:
\* voltages, unless the PMIC failed or a power cycle did not come about; modes;
\* and from the second bring-up on the trim values are those of this SoC: the
\* first takes them from a structure that does not know it yet (sdmmc.c, 921 to
\* 933, 1138 to 1217 and 1384 to 1422; sdmmc_driver.c, 1226).
ReadyAgrees ==
  Ready => /\ ~h.fault => VoltagesAgree
           /\ ModesAgree
           /\ rounds = 2 => h.trim = console.soc

\* A card that signals at 1.8 V is never fed 3.3 V, in no step of a bring-up and
\* over no number of them, with the same exceptions (sdmmc_driver.c, 1175 and
\* 1402; nx_sd.c, 42).
NeverOverdriven ==
  card.volt = SDMMC_POWER_1_8 /\ ~h.fault => h.ldo2 = SDMMC_POWER_1_8

\* What the card's state and access mode allow, in kHz.  After the switch to
\* 1.8 V a card is identified at the default speed.
Limit ==
  IF card.st \in {"idle", "ready", "ident"} /\ card.volt = SDMMC_POWER_3_3
  THEN 400
  ELSE CASE card.mode = 12 -> 25000 [] card.mode = 25 -> 50000
         [] card.mode = 50 -> 100000 [] card.mode = 104 -> 208000

\* No command of a bring-up, and none on a ready card, goes out faster than the
\* card can take, whatever the clock's source was left at (clock.c, 349;
\* sdmmc_driver.c, 350 to 362).
NotTooFast ==
  (pc \in Commands \/ storage.initialized) /\ card.st # "off" /\ ~card.switching
    => CardFrequency(h) <= Limit

\* sdmmc_storage_end has switched the card off when it says so: behind
\* sdmmc_finalize, behind a transfer that failed, and behind a bring-up that
\* failed at whatever command (nx_sd.c, 42).  Its sdmmc_end does nothing to a host
\* whose clock is stopped, so clock_stopped must not hide a running card, whichever
\* bring-up, failed or not, has left it there (sdmmc_driver.c, 1270 and 1340).
EndSwitchesOff ==
  [][(CallEnd \/ CallReinitialize \/ NextSpeed) /\ EndDone
       => card'.st = "off" /\ ~h'.pin]_vars

\* The abstract driver: command by command, a bring-up does to the card what
\* SdTransfer and the hooks take for one step.
Device == INSTANCE SdDevice WITH card <- IF pc = "idle" THEN Now ELSE entry

ImplementsDevice == Device!Spec
=============================================================================
