------------------------------- MODULE SdHost -------------------------------
(***************************************************************************)
(* What hekate's driver does to the hardware around the SD card when it    *)
(* brings the card up and switches it off: source/emmc/sdmmc_driver.c with *)
(* the clocks of source/soc/clock.c and the regulator of                   *)
(* source/power/max7762x.c.  Every operation is an operator on a record h: *)
(*                                                                         *)
(*   card_clock_enabled, clock_stopped, powersave_enabled, t210b01         *)
(*                     of sdmmc_t (manual_cal is ~t210b01)                 *)
(*   card_en           SDHCI_CLOCK_CARD_EN                                 *)
(*   div               the card clock's divider; 0 does not divide         *)
(*   width, hispd, uhs, vdd_180                                            *)
(*                     the timing in hostctl and hostctl2                  *)
(*   tap               where the sampling point comes from: the driver's   *)
(*                     fixed value or tuning                               *)
(*   pwrcon, cal, trim the signal voltage of the controller, the one that  *)
(*                     its pads were calibrated for, the SoC whose trim    *)
(*                     value is set                                        *)
(*   clock_on, source  the controller's clock: enabled and out of reset,   *)
(*                     and [pll, div] as CLK_SOURCE_SDMMC1 has it          *)
(*   known             _clock_sdmmc_table[SDMMC_1].clock                   *)
(*   io_on, pwr_det    PMC: the pads' power, and the voltage they expect   *)
(*   ldo2_on, ldo2     the regulator that feeds the signals                *)
(*   pin               GPIO E4, which powers the card                      *)
(*   fault             a transfer to the PMIC, or the GO_IDLE_STATE of a   *)
(*                     power cycle, has failed since the card was last     *)
(*                     switched off in good order (a history variable)     *)
(*                                                                         *)
(* Voltages are numbers in mV, clocks in kHz.  Delays, drive strengths and *)
(* pin multiplexing are left out.                                          *)
(***************************************************************************)
EXTENDS Integers

SDMMC_POWER_OFF == 0
SDMMC_POWER_1_8 == 1800
SDMMC_POWER_3_3 == 3300

-----------------------------------------------------------------------------
(* Clocks                                                                  *)

\* clock_sdmmc_get_card_clock_div, of the timings an SD card is given.
CardClock ==
  [SD_ID      |-> [clock |-> 25000,  divisor |-> 64],
   SD_DS12    |-> [clock |-> 25000,  divisor |-> 1],
   UHS_SDR12  |-> [clock |-> 25000,  divisor |-> 1],
   SD_HS25    |-> [clock |-> 50000,  divisor |-> 1],
   UHS_SDR25  |-> [clock |-> 50000,  divisor |-> 1],
   UHS_SDR50  |-> [clock |-> 100000, divisor |-> 1],
   UHS_SDR82  |-> [clock |-> 164000, divisor |-> 1],
   UHS_SDR104 |-> [clock |-> 200000, divisor |-> 1]]

\* The source and the divider of a clock, in half steps above 1.
HostClock(val) ==
  CASE val = 50000  -> [pll |-> "PLLP_OUT0",  div |-> 15]
    [] val = 100000 -> [pll |-> "PLLC4_OUT2", div |-> 2]
    [] val = 164000 -> [pll |-> "PLLP_OUT0",  div |-> 3]
    [] val = 200000 -> [pll |-> "PLLC4_OUT2", div |-> 0]
    [] OTHER        -> [pll |-> "PLLP_OUT0",  div |-> 31]

clock_sdmmc_config_clock_host(h, val) ==
  [h EXCEPT !.source = HostClock(val), !.known = val]

\* The source is not written when it is the one last configured.
clock_sdmmc_config_clock_source(h, val) ==
  IF h.known = val THEN h ELSE clock_sdmmc_config_clock_host(h, val)

\* Mutant of clock_sdmmc_enable: it, too, trusts what is remembered.
clock_sdmmc_enable_Remembered(h, val) ==
  [clock_sdmmc_config_clock_source(h, val) EXCEPT !.clock_on = TRUE]

clock_sdmmc_enable(h, val) ==
  [clock_sdmmc_config_clock_host(h, val) EXCEPT !.clock_on = TRUE]

clock_sdmmc_disable(h) == [h EXCEPT !.clock_on = FALSE]

\* The frequency that reaches the card, from what the registers hold.
Pll == [PLLP_OUT0 |-> 408000, PLLC4_OUT2 |-> 199680]

CardFrequency(h) ==
  ((2 * Pll[h.source.pll]) \div (2 + h.source.div))
    \div (IF h.div = 0 THEN 1 ELSE 2 * h.div)

-----------------------------------------------------------------------------
(* The controller                                                          *)

sdmmc_get_io_power(h) == h.pwrcon

_sdmmc_set_io_power(h, power) == [h EXCEPT !.pwrcon = power]

sdmmc_set_bus_width(h, bus_width) == [h EXCEPT !.width = bus_width]

\* _sdmmc_autocal_config_offset and _sdmmc_autocal_execute; a calibration that
\* times out leaves the suggested values for the same voltage.
_sdmmc_autocal_execute(h, power) == [h EXCEPT !.cal = power]

\* The switch of sdmmc_setup_clock.  The host is set to SDR104 for SDR50.
Timing(h, type) ==
  CASE type \in {"SD_ID", "SD_DS12"} ->
         [h EXCEPT !.hispd = FALSE, !.vdd_180 = FALSE]
    [] type = "SD_HS25" -> [h EXCEPT !.hispd = TRUE, !.vdd_180 = FALSE]
    [] type \in {"UHS_SDR50", "UHS_SDR82", "UHS_SDR104"} ->
         [h EXCEPT !.uhs = 104, !.vdd_180 = TRUE]
    [] type = "UHS_SDR25" -> [h EXCEPT !.uhs = 25, !.vdd_180 = TRUE]
    [] type = "UHS_SDR12" -> [h EXCEPT !.uhs = 12, !.vdd_180 = TRUE]

\* The card clock is off in between and back at the end; the sampling point is
\* taken back to the fixed value.
sdmmc_setup_clock(h, type) ==
  [clock_sdmmc_config_clock_source(Timing(h, type), CardClock[type].clock)
     EXCEPT !.tap = "fixed", !.div = CardClock[type].divisor \div 2]

Calibrated(h) == _sdmmc_autocal_execute(h, sdmmc_get_io_power(h))

_sdmmc_card_clock_enable(h) ==
  LET c == IF ~h.t210b01 /\ ~h.powersave_enabled THEN Calibrated(h) ELSE h
  IN [c EXCEPT !.card_en = @ \/ ~h.powersave_enabled,
               !.card_clock_enabled = TRUE]

_sdmmc_sd_clock_disable(h) ==
  [h EXCEPT !.card_clock_enabled = FALSE, !.card_en = FALSE]

sdmmc_card_clock_powersave(h, powersave_enable) ==
  LET c == IF ~h.t210b01 /\ ~powersave_enable /\ h.card_clock_enabled
           THEN Calibrated(h) ELSE h
  IN [c EXCEPT !.powersave_enabled = powersave_enable,
               !.card_en = ~powersave_enable /\ (@ \/ h.card_clock_enabled)]

\* SDHCI_RESET_ALL
_sdmmc_reset_all(h) ==
  [h EXCEPT !.card_en = FALSE, !.div = 0, !.width = 1, !.hispd = FALSE,
            !.uhs = 12, !.vdd_180 = FALSE, !.tap = "fixed",
            !.pwrcon = SDMMC_POWER_OFF]

-----------------------------------------------------------------------------
(* The regulator.  A read over I2C that fails gives 0, a write that fails
   does nothing, and neither is reported.                                  *)

\* The regulator's lowest voltage, its register being 0.
mv_min == 800

max77620_regulator_set_voltage(h, mv) ==
  {[h EXCEPT !.ldo2 = mv],
   [h EXCEPT !.ldo2 = mv, !.ldo2_on = FALSE, !.fault = TRUE],
   [h EXCEPT !.fault = TRUE]}

max77620_regulator_enable(h, enable) ==
  {[h EXCEPT !.ldo2_on = enable],
   [h EXCEPT !.ldo2_on = enable, !.ldo2 = mv_min, !.fault = TRUE],
   [h EXCEPT !.fault = TRUE]}

-----------------------------------------------------------------------------
(* On and off.  Each gives the set of its outcomes.                        *)

\* With a card inserted.
_sdmmc_config_sdmmc1(h) ==
  LET on == [h EXCEPT !.io_on = TRUE, !.pwr_det = SDMMC_POWER_3_3,
                      !.pin = TRUE]
  IN UNION {max77620_regulator_enable(v, TRUE) :
              v \in max77620_regulator_set_voltage(on, SDMMC_POWER_3_3)}

\* memset and what follows it, before the hardware is touched.
Cleared(h, soc) ==
  [h EXCEPT !.card_clock_enabled = FALSE, !.powersave_enabled = FALSE,
            !.clock_stopped = TRUE, !.t210b01 = (soc = "Mariko")]

\* Mutant of Stopped: clock_stopped is not taken back.
StoppedStays == TRUE

\* clock_stopped once sdmmc_init has started the clock.
Stopped == FALSE

\* trim_values
Trim(known_b01) == IF known_b01 THEN "Mariko" ELSE "Erista"

\* sdmmc_init(sdmmc, SDMMC_1, SDMMC_POWER_3_3, SDMMC_BUS_WIDTH_1,
\* SDHCI_TIMING_SD_ID, SDMMC_POWER_SAVE_DISABLE): the trim values are chosen
\* by what the structure held before it was cleared.
Clocked(h, trim) ==
  LET off == IF h.clock_on THEN _sdmmc_sd_clock_disable(h) ELSE h
      clk == clock_sdmmc_enable(off, CardClock["SD_ID"].clock)
  IN _sdmmc_autocal_execute(
       [_sdmmc_reset_all(clk) EXCEPT !.clock_stopped = Stopped, !.trim = trim],
       SDMMC_POWER_3_3)

Talking(h) ==
  LET power == _sdmmc_set_io_power(sdmmc_set_bus_width(h, 1), SDMMC_POWER_3_3)
      clock == sdmmc_setup_clock(power, "SD_ID")
  IN _sdmmc_card_clock_enable(sdmmc_card_clock_powersave(clock, FALSE))

\* No card; an internal clock that does not become stable; success.
sdmmc_init(h, soc) ==
  LET trim == Trim(h.t210b01)
      on   == {Clocked(c, trim) : c \in _sdmmc_config_sdmmc1(Cleared(h, soc))}
  IN {[ok |-> FALSE, h |-> Cleared(h, soc)]}
       \cup {[ok |-> FALSE, h |-> c] : c \in on}
       \cup {[ok |-> TRUE, h |-> Talking(c)] : c \in on}

\* Mutant of sdmmc1_disable_power: the pin stays high.
sdmmc1_disable_powerNoPin(h) ==
  {[v EXCEPT !.io_on = FALSE, !.pwr_det = SDMMC_POWER_3_3] :
     v \in max77620_regulator_enable([h EXCEPT !.fault = FALSE], FALSE)}

sdmmc1_disable_power(h) ==
  {[v EXCEPT !.pin = FALSE, !.io_on = FALSE, !.pwr_det = SDMMC_POWER_3_3] :
     v \in max77620_regulator_enable([h EXCEPT !.fault = FALSE], FALSE)}

sdmmc_end(h) ==
  IF h.clock_stopped THEN {h}
  ELSE {[clock_sdmmc_disable(p) EXCEPT !.clock_stopped = TRUE] :
          p \in sdmmc1_disable_power(
                  _sdmmc_set_io_power(_sdmmc_sd_clock_disable(h),
                                      SDMMC_POWER_OFF))}

\* Mutant of sdmmc_enable_low_voltage: the pads are not told.
sdmmc_enable_low_voltagePadsUntold(h) ==
  {[_sdmmc_set_io_power(_sdmmc_autocal_execute(v, SDMMC_POWER_1_8),
                        SDMMC_POWER_1_8) EXCEPT !.card_en = TRUE] :
     v \in max77620_regulator_set_voltage(sdmmc_setup_clock(h, "UHS_SDR12"),
                                          SDMMC_POWER_1_8)}

\* sdmmc_enable_low_voltage, up to its test of the data lines.
sdmmc_enable_low_voltage(h) ==
  {[_sdmmc_set_io_power(_sdmmc_autocal_execute(v, SDMMC_POWER_1_8),
                        SDMMC_POWER_1_8)
      EXCEPT !.pwr_det = SDMMC_POWER_1_8, !.card_en = TRUE] :
     v \in max77620_regulator_set_voltage(sdmmc_setup_clock(h, "UHS_SDR12"),
                                          SDMMC_POWER_1_8)}

\* sdmmc_tuning_execute, when the controller finds a sampling point; slow
\* timings need none.
Tuned(h, type) ==
  IF type \in {"UHS_SDR50", "UHS_SDR82", "UHS_SDR104"}
  THEN [h EXCEPT !.tap = "tuned"] ELSE h
=============================================================================
