---------------------------- MODULE SdInitProofs ----------------------------
(***************************************************************************)
(* Proofs about SdInit, for every card, both SoCs and any number of        *)
(* bring-ups: what a bring-up leaves behind agrees, the card is never fed  *)
(* 3.3 V when it signals at 1.8 V, nothing goes out faster than the card   *)
(* can take, and command by command the bring-up does what SdDevice says.  *)
(***************************************************************************)
EXTENDS SdInit, TLAPS

-----------------------------------------------------------------------------
(* Types                                                                   *)

Volts    == {SDMMC_POWER_1_8, SDMMC_POWER_3_3}
IoVolts  == Volts \cup {SDMMC_POWER_OFF}
LdoVolts == Volts \cup {mv_min}
Divs     == {0, 32}
Widths   == {1, 4}
UhsModes == {12, 25, 104}
Taps     == {"fixed", "tuned"}
Socs     == {"Erista", "Mariko"}

Clocks == {25000, 50000, 100000, 164000, 200000}

Sources == {HostClock(c) : c \in Clocks}

Knowns == Clocks \cup {0}

Hosts ==
  [card_clock_enabled : BOOLEAN, clock_stopped : BOOLEAN,
   powersave_enabled : BOOLEAN, t210b01 : BOOLEAN, card_en : BOOLEAN,
   div : Divs, width : Widths, hispd : BOOLEAN, uhs : UhsModes,
   vdd_180 : BOOLEAN, tap : Taps,
   pwrcon : IoVolts, cal : IoVolts,
   trim : Socs, clock_on : BOOLEAN,
   source : Sources, known : Knowns,
   io_on : BOOLEAN, pwr_det : Volts, ldo2_on : BOOLEAN,
   ldo2 : LdoVolts, pin : BOOLEAN, fault : BOOLEAN]

States == {"off", "idle", "ready", "ident", "stby", "tran"}
Modes  == {12, 25, 50, 104}

Cards ==
  [st : States, volt : Volts, switching : BOOLEAN, width : Widths, mode : Modes]

Storages ==
  [initialized : BOOLEAN, is_low_voltage : BOOLEAN, has_sector_access : BOOLEAN]

TypeOK ==
  /\ console \in Consoles /\ h \in Hosts /\ card \in Cards
  /\ storage \in Storages /\ sd_mode \in 0..4
  /\ pc \in Commands \cup {"lowVoltage", "idle", "init", "slower"}
  /\ op \in {"init", "end", "io"}
  /\ looping \in BOOLEAN /\ is_version_1 \in BOOLEAN /\ result \in BOOLEAN
  /\ cut \in BOOLEAN /\ entry \in Device!Card /\ rounds \in 0..2

-----------------------------------------------------------------------------
(* The invariant                                                           *)

\* The commands of a bring-up are under way.
Live == pc \in Commands \cup {"lowVoltage"}

On == card.st # "off"

\* The card's power, and the controller's clock.
PowerInv ==
  /\ h.pin = On
  /\ ~On => card = OffCard
  /\ h.clock_stopped => ~h.card_clock_enabled
  /\ h.card_clock_enabled /\ ~h.pin => cut
  /\ Live \/ storage.initialized => h.card_clock_enabled

\* A card at 1.8 V is fed 1.8 V; and where the next sdmmc_init takes it to 3.3 V
\* there is none.
VoltInv ==
  /\ NeverOverdriven
  /\ \/ pc = "init" \/ h.clock_stopped
     \/ pc = "idle" /\ op = "end" /\ result
     => (card.volt = SDMMC_POWER_1_8 => h.fault)

\* The calls, as SdDevice sees them.
CallInv ==
  /\ storage.initialized => pc \in {"idle", "init"}
  /\ Live \/ pc = "slower" => sd_mode # SD_INIT_FAIL
  /\ pc = "slower" => looping
  /\ pc = "idle" /\ op = "end" /\ result => ~storage.initialized
  /\ pc # "idle" =>
       /\ op \in {"init", "io"} /\ entry.cut = cut
       /\ entry.exhausted => sd_mode = SD_INIT_FAIL
       /\ op = "init" => /\ looping /\ ~storage.initialized
                         /\ entry.exhausted => pc = "init" /\ Now = entry
       /\ op = "io" => entry.initialized

\* The trim values.
TrimInv ==
  /\ rounds > 0 => h.t210b01 = (console.soc = "Mariko")
  /\ Live \/ storage.initialized => (rounds = 2 => h.trim = console.soc)

\* The frequencies of identification and of the default speed.
Default == h.source = HostClock(25000) /\ h.known = 25000 /\ h.div = 0
Slow    == h.source = HostClock(25000) /\ h.known = 25000 /\ h.div = 32

\* The timing at 3.3 V below high speed, and the one of access mode m at 1.8 V.
Plain == ~h.hispd /\ ~h.vdd_180 /\ h.tap = "fixed"
Uhs(m) == ~h.hispd /\ h.vdd_180 /\ h.uhs = IF m = 50 THEN 104 ELSE m

\* Before the clock is set up behind SEND_CSD.
Identifying ==
  {"goIdle", "ifCond", "opCond", "switchVoltage", "lowVoltage", "cid", "rca",
   "csd"}

\* Before the voltage has been switched.
Unswitched == {"goIdle", "ifCond", "opCond", "switchVoltage", "lowVoltage"}

\* While a live card is brought up at 3.3 V.
HighInv ==
  Live /\ On /\ ~storage.is_low_voltage =>
    /\ pc # "tuning" /\ Plain
    /\ IF pc \in Identifying THEN Slow ELSE Default
    /\ pc \in {"switchVoltage", "lowVoltage"} => bus_low_voltage_support
    /\ ~h.fault => VoltagesAgree /\ card.volt = SDMMC_POWER_3_3
    /\ pc = "status" => card.mode = 25

\* While it is brought up at 1.8 V.
LowInv ==
  Live /\ On /\ storage.is_low_voltage =>
    /\ pc \notin Unswitched /\ bus_low_voltage_support
    /\ card.volt = SDMMC_POWER_1_8
    /\ ~h.fault => VoltagesAgree
    /\ IF pc \in {"tuning", "status"}
       THEN /\ card.mode = Fallback.function /\ Uhs(card.mode)
            /\ h.source = HostClock(CardClock[Fallback.type].clock) /\ h.div = 0
            /\ h.tap = IF pc = "status" /\ card.mode \in {50, 104}
                       THEN "tuned" ELSE "fixed"
       ELSE Default /\ Uhs(12) /\ h.tap = "fixed"

\* What the card has been told.
CardInv ==
  Live /\ On =>
    /\ pc = "goIdle" => h.width = 1
    /\ pc # "goIdle" /\ (~card.switching \/ pc = "lowVoltage") =>
         /\ card.width = h.width
         /\ pc \notin {"tuning", "status"} => card.mode = 12
    /\ pc \notin Identifying => card.st \in {"stby", "tran"}

\* A card that is ready.
ReadyInv ==
  /\ ReadyAgrees
  /\ storage.initialized /\ On => CardFrequency(h) <= Limit

Inv ==
  /\ TypeOK /\ PowerInv /\ VoltInv /\ CallInv /\ TrimInv
  /\ HighInv /\ LowInv /\ CardInv /\ ReadyInv

-----------------------------------------------------------------------------
(* What the operations on the hardware do                                  *)

LEMMA VoltsDiffer ==
  /\ SDMMC_POWER_1_8 # SDMMC_POWER_3_3
  /\ SDMMC_POWER_1_8 \in Volts /\ SDMMC_POWER_3_3 \in Volts
BY DEF Volts, SDMMC_POWER_1_8, SDMMC_POWER_3_3

\* Timings that the driver sets a clock up for.
Timings == {"SD_ID", "SD_DS12", "SD_HS25", "UHS_SDR12", "UHS_SDR25",
            "UHS_SDR50", "UHS_SDR82", "UHS_SDR104"}

LEMMA ClockTable ==
  /\ \A t \in Timings :
       /\ CardClock[t].clock \in Clocks /\ CardClock[t].clock \in Knowns
       /\ HostClock(CardClock[t].clock) \in Sources
       /\ CardClock[t].divisor \div 2 = IF t = "SD_ID" THEN 32 ELSE 0
  /\ \A t \in {"SD_ID", "SD_DS12", "UHS_SDR12"} : CardClock[t].clock = 25000
<1>1. \A t \in Timings : CardClock[t].clock \in Clocks
  BY SMT DEF Timings, CardClock, Clocks
<1>2. \A t \in Timings :
        CardClock[t].divisor = IF t = "SD_ID" THEN 64 ELSE 1
  BY SMT DEF Timings, CardClock
<1>3. 64 \div 2 = 32 /\ 1 \div 2 = 0
  BY SMT
<1>4. \A t \in {"SD_ID", "SD_DS12", "UHS_SDR12"} : CardClock[t].clock = 25000
  BY SMT DEF CardClock
<1> QED BY <1>1, <1>2, <1>3, <1>4, SMT DEF Sources, Knowns

\* k differs from g in the clock and the timing alone.
SameWires(k, g) ==
  /\ k.card_clock_enabled = g.card_clock_enabled
  /\ k.clock_stopped = g.clock_stopped /\ k.t210b01 = g.t210b01
  /\ k.width = g.width /\ k.pwrcon = g.pwrcon /\ k.cal = g.cal
  /\ k.trim = g.trim /\ k.io_on = g.io_on /\ k.pwr_det = g.pwr_det
  /\ k.ldo2_on = g.ldo2_on /\ k.ldo2 = g.ldo2 /\ k.pin = g.pin
  /\ k.fault = g.fault

SameClock(k, g) ==
  k.source = g.source /\ k.known = g.known /\ k.div = g.div

SameTiming(k, g) ==
  k.hispd = g.hispd /\ k.vdd_180 = g.vdd_180 /\ k.uhs = g.uhs /\ k.tap = g.tap

\* The driver knows the clock's source.
Knows(g) == g.source = HostClock(g.known)

LEMMA TimingIs ==
  ASSUME NEW g \in Hosts, NEW t \in Timings
  PROVE  LET k == Timing(g, t)
         IN /\ k \in Hosts /\ SameWires(k, g) /\ SameClock(k, g)
            /\ t \in {"SD_ID", "SD_DS12"} => ~k.hispd /\ ~k.vdd_180
            /\ t = "SD_HS25" => k.hispd /\ ~k.vdd_180
            /\ t \notin {"SD_ID", "SD_DS12", "SD_HS25"} =>
                 /\ k.hispd = g.hispd /\ k.vdd_180
                 /\ k.uhs = IF t = "UHS_SDR25" THEN 25
                            ELSE IF t = "UHS_SDR12" THEN 12 ELSE 104
<1> DEFINE k == Timing(g, t)
<1>1. \A m \in {12, 25, 104} : m \in UhsModes
  BY DEF UhsModes
<1>2. CASE t \in {"SD_ID", "SD_DS12"}
  <2>1. k = [g EXCEPT !.hispd = FALSE, !.vdd_180 = FALSE]
    BY <1>2 DEF Timing
  <2> HIDE DEF k
  <2>2. k \in Hosts
    BY <2>1 DEF Hosts
  <2>3. SameWires(k, g) /\ SameClock(k, g) /\ ~k.hispd /\ ~k.vdd_180
    BY <2>1 DEF SameWires, SameClock, Hosts
  <2> QED BY <1>2, <2>2, <2>3 DEF k
<1>3. CASE t = "SD_HS25"
  <2>1. k = [g EXCEPT !.hispd = TRUE, !.vdd_180 = FALSE]
    BY <1>3 DEF Timing
  <2> HIDE DEF k
  <2>2. k \in Hosts
    BY <2>1 DEF Hosts
  <2>3. SameWires(k, g) /\ SameClock(k, g) /\ k.hispd /\ ~k.vdd_180
    BY <2>1 DEF SameWires, SameClock, Hosts
  <2> QED BY <1>3, <2>2, <2>3 DEF k
<1>4. ASSUME NEW m \in {12, 25, 104},
             k = [g EXCEPT !.uhs = m, !.vdd_180 = TRUE]
      PROVE  /\ k \in Hosts /\ SameWires(k, g) /\ SameClock(k, g)
             /\ k.hispd = g.hispd /\ k.vdd_180 /\ k.uhs = m
  <2> HIDE DEF k
  <2>1. k \in Hosts
    BY <1>1, <1>4 DEF Hosts
  <2> QED BY <1>4, <2>1 DEF SameWires, SameClock, Hosts
<1>5. CASE t \in {"UHS_SDR50", "UHS_SDR82", "UHS_SDR104"}
  <2>1. k = [g EXCEPT !.uhs = 104, !.vdd_180 = TRUE]
    BY <1>5 DEF Timing
  <2> QED BY <1>4, <1>5, <2>1
<1>6. CASE t = "UHS_SDR25"
  <2>1. k = [g EXCEPT !.uhs = 25, !.vdd_180 = TRUE]
    BY <1>6 DEF Timing
  <2> QED BY <1>4, <1>6, <2>1
<1>7. CASE t = "UHS_SDR12"
  <2>1. k = [g EXCEPT !.uhs = 12, !.vdd_180 = TRUE]
    BY <1>7 DEF Timing
  <2> QED BY <1>4, <1>7, <2>1
<1> QED BY <1>2, <1>3, <1>5, <1>6, <1>7 DEF Timings

\* Setting a clock up, by a driver that knows the clock's source.
LEMMA SetupClockIs ==
  ASSUME NEW g \in Hosts, NEW t \in Timings
  PROVE  LET k == sdmmc_setup_clock(g, t)
             c == CardClock[t].clock
         IN /\ k \in Hosts /\ SameWires(k, g)
            /\ k.hispd = Timing(g, t).hispd /\ k.vdd_180 = Timing(g, t).vdd_180
            /\ k.uhs = Timing(g, t).uhs
            /\ k.div = (IF t = "SD_ID" THEN 32 ELSE 0) /\ k.tap = "fixed"
            /\ Knows(g) => k.source = HostClock(c) /\ k.known = c
<1> DEFINE a == Timing(g, t)
           c == CardClock[t].clock
           b == clock_sdmmc_config_clock_source(a, c)
           k == sdmmc_setup_clock(g, t)
           d == CardClock[t].divisor \div 2
<1>1. a \in Hosts /\ SameWires(a, g) /\ SameClock(a, g)
  BY TimingIs
<1>2. /\ c \in Knowns /\ HostClock(c) \in Sources
      /\ d = (IF t = "SD_ID" THEN 32 ELSE 0) /\ d \in Divs /\ "fixed" \in Taps
  BY ClockTable DEF Divs, Taps
<1>3. /\ b = a \/ b = [a EXCEPT !.source = HostClock(c), !.known = c]
      /\ b = a => a.known = c \/ b = [a EXCEPT !.source = HostClock(c), !.known = c]
  BY DEF clock_sdmmc_config_clock_source, clock_sdmmc_config_clock_host
<1>4. k = [b EXCEPT !.tap = "fixed", !.div = d]
  BY DEF sdmmc_setup_clock
<1> HIDE DEF a, b, c, d, k
<1>5. /\ b \in Hosts /\ SameWires(b, a) /\ SameTiming(b, a)
      /\ Knows(a) => b.source = HostClock(c) /\ b.known = c
  <2>1. CASE b = a /\ a.known = c
    BY <1>1, <2>1 DEF SameWires, SameTiming, Knows
  <2>2. CASE b = [a EXCEPT !.source = HostClock(c), !.known = c]
    <3>1. b \in Hosts
      BY <1>1, <1>2, <2>2 DEF Hosts
    <3> QED
      BY <1>1, <2>2, <3>1 DEF Hosts, SameWires, SameTiming
  <2> QED BY <1>3, <2>1, <2>2
<1>6. k \in Hosts
  BY <1>2, <1>4, <1>5 DEF Hosts
<1>7. /\ SameWires(k, b) /\ k.tap = "fixed" /\ k.div = d
      /\ k.source = b.source /\ k.known = b.known
      /\ k.hispd = b.hispd /\ k.vdd_180 = b.vdd_180 /\ k.uhs = b.uhs
  BY <1>4, <1>5 DEF Hosts, SameWires
<1>8. k.hispd = a.hispd /\ k.vdd_180 = a.vdd_180 /\ k.uhs = a.uhs
  BY <1>5, <1>7 DEF SameTiming
<1>9. Knows(g) => Knows(a)
  BY <1>1 DEF Knows, SameClock
<1> QED
  BY <1>1, <1>2, <1>5, <1>6, <1>7, <1>8, <1>9 DEF SameWires, a, c, k

\* k differs from g in what a clock's start may touch: the card clock itself,
\* power saving and the calibration.
SameButClock(k, g) ==
  /\ SameClock(k, g) /\ SameTiming(k, g)
  /\ k.clock_stopped = g.clock_stopped /\ k.t210b01 = g.t210b01
  /\ k.width = g.width /\ k.pwrcon = g.pwrcon /\ k.trim = g.trim
  /\ k.io_on = g.io_on /\ k.pwr_det = g.pwr_det
  /\ k.ldo2_on = g.ldo2_on /\ k.ldo2 = g.ldo2 /\ k.pin = g.pin
  /\ k.fault = g.fault

\* A calibration is for the voltage of the controller.
LEMMA CalibratedIs ==
  ASSUME NEW g \in Hosts
  PROVE  LET k == Calibrated(g)
         IN /\ k \in Hosts /\ SameButClock(k, g) /\ k.cal = g.pwrcon
            /\ k.card_clock_enabled = g.card_clock_enabled
<1> DEFINE k == Calibrated(g)
<1>1. k = [g EXCEPT !.cal = g.pwrcon] /\ g.pwrcon \in IoVolts
  BY DEF Calibrated, _sdmmc_autocal_execute, sdmmc_get_io_power, Hosts
<1> HIDE DEF k
<1>2. k \in Hosts
  BY <1>1 DEF Hosts
<1> QED
  BY <1>1, <1>2 DEF Hosts, SameButClock, SameClock, SameTiming, k

LEMMA CardClockEnableIs ==
  ASSUME NEW g \in Hosts
  PROVE  LET k == _sdmmc_card_clock_enable(g)
         IN /\ k \in Hosts /\ SameButClock(k, g) /\ k.cal \in {g.cal, g.pwrcon}
            /\ k.card_clock_enabled
<1> DEFINE c == IF ~g.t210b01 /\ ~g.powersave_enabled THEN Calibrated(g) ELSE g
           k == _sdmmc_card_clock_enable(g)
           e == c.card_en \/ ~g.powersave_enabled
<1>1. c \in Hosts /\ SameButClock(c, g) /\ c.cal \in {g.cal, g.pwrcon}
  BY CalibratedIs DEF SameButClock, SameClock, SameTiming
<1>2. k = [c EXCEPT !.card_en = e, !.card_clock_enabled = TRUE]
  BY <1>1 DEF _sdmmc_card_clock_enable, Hosts
<1>3. e \in BOOLEAN
  BY <1>1 DEF Hosts
<1> HIDE DEF c, e, k
<1>4. k \in Hosts
  BY <1>1, <1>2, <1>3 DEF Hosts
<1>5. SameButClock(k, c) /\ k.cal = c.cal /\ k.card_clock_enabled
  BY <1>1, <1>2 DEF Hosts, SameButClock, SameClock, SameTiming
<1> QED
  BY <1>1, <1>4, <1>5 DEF SameButClock, SameClock, SameTiming, k

LEMMA PowersaveIs ==
  ASSUME NEW g \in Hosts, NEW on \in BOOLEAN
  PROVE  LET k == sdmmc_card_clock_powersave(g, on)
         IN /\ k \in Hosts /\ SameButClock(k, g) /\ k.cal \in {g.cal, g.pwrcon}
            /\ on => k.cal = g.cal
            /\ k.card_clock_enabled = g.card_clock_enabled
<1> DEFINE c == IF ~g.t210b01 /\ ~on /\ g.card_clock_enabled
                THEN Calibrated(g) ELSE g
           k == sdmmc_card_clock_powersave(g, on)
           e == ~on /\ (c.card_en \/ g.card_clock_enabled)
<1>1. /\ c \in Hosts /\ SameButClock(c, g) /\ c.cal \in {g.cal, g.pwrcon}
      /\ c.card_clock_enabled = g.card_clock_enabled /\ (on => c.cal = g.cal)
  BY CalibratedIs DEF SameButClock, SameClock, SameTiming
<1>2. k = [c EXCEPT !.powersave_enabled = on, !.card_en = e]
  BY <1>1 DEF sdmmc_card_clock_powersave, Hosts
<1>3. e \in BOOLEAN
  BY <1>1 DEF Hosts
<1> HIDE DEF c, e, k
<1>4. k \in Hosts
  BY <1>1, <1>2, <1>3 DEF Hosts
<1>5. /\ SameButClock(k, c) /\ k.cal = c.cal
      /\ k.card_clock_enabled = c.card_clock_enabled
  BY <1>1, <1>2 DEF Hosts, SameButClock, SameClock, SameTiming
<1> QED
  BY <1>1, <1>4, <1>5 DEF SameButClock, SameClock, SameTiming, k

\* The two operations on the regulator touch nothing else, and what they do not
\* do is a fault.
SameButPower(k, g) ==
  /\ SameClock(k, g) /\ SameTiming(k, g)
  /\ k.card_clock_enabled = g.card_clock_enabled
  /\ k.clock_stopped = g.clock_stopped /\ k.t210b01 = g.t210b01
  /\ k.width = g.width /\ k.pwrcon = g.pwrcon /\ k.cal = g.cal
  /\ k.trim = g.trim /\ k.io_on = g.io_on /\ k.pwr_det = g.pwr_det
  /\ k.pin = g.pin
  /\ g.fault => k.fault

LEMMA SetVoltageIs ==
  ASSUME NEW g \in Hosts, NEW mv \in Volts,
         NEW k \in max77620_regulator_set_voltage(g, mv)
  PROVE  /\ k \in Hosts /\ SameButPower(k, g)
         /\ ~k.fault => k.ldo2 = mv /\ k.ldo2_on = g.ldo2_on
<1>1. mv \in LdoVolts
  BY DEF LdoVolts
<1>2. CASE k = [g EXCEPT !.ldo2 = mv]
  <2>1. k \in Hosts
    BY <1>1, <1>2 DEF Hosts
  <2> QED
    BY <1>2, <2>1 DEF Hosts, SameButPower, SameClock, SameTiming
<1>3. CASE k = [g EXCEPT !.ldo2 = mv, !.ldo2_on = FALSE, !.fault = TRUE]
  <2>1. k \in Hosts
    BY <1>1, <1>3 DEF Hosts
  <2> QED
    BY <1>3, <2>1 DEF Hosts, SameButPower, SameClock, SameTiming
<1>4. CASE k = [g EXCEPT !.fault = TRUE]
  <2>1. k \in Hosts
    BY <1>4 DEF Hosts
  <2> QED
    BY <1>4, <2>1 DEF Hosts, SameButPower, SameClock, SameTiming
<1> QED BY <1>2, <1>3, <1>4 DEF max77620_regulator_set_voltage

LEMMA RegulatorEnableIs ==
  ASSUME NEW g \in Hosts, NEW on \in BOOLEAN,
         NEW k \in max77620_regulator_enable(g, on)
  PROVE  /\ k \in Hosts /\ SameButPower(k, g)
         /\ ~k.fault => k.ldo2 = g.ldo2 /\ k.ldo2_on = on
<1>1. mv_min \in LdoVolts
  BY DEF LdoVolts
<1>2. CASE k = [g EXCEPT !.ldo2_on = on]
  <2>1. k \in Hosts
    BY <1>2 DEF Hosts
  <2> QED
    BY <1>2, <2>1 DEF Hosts, SameButPower, SameClock, SameTiming
<1>3. CASE k = [g EXCEPT !.ldo2_on = on, !.ldo2 = mv_min, !.fault = TRUE]
  <2>1. k \in Hosts
    BY <1>1, <1>3 DEF Hosts
  <2> QED
    BY <1>3, <2>1 DEF Hosts, SameButPower, SameClock, SameTiming
<1>4. CASE k = [g EXCEPT !.fault = TRUE]
  <2>1. k \in Hosts
    BY <1>4 DEF Hosts
  <2> QED
    BY <1>4, <2>1 DEF Hosts, SameButPower, SameClock, SameTiming
<1> QED BY <1>2, <1>3, <1>4 DEF max77620_regulator_enable

LEMMA ConfigSdmmc1Is ==
  ASSUME NEW g \in Hosts, NEW k \in _sdmmc_config_sdmmc1(g)
  PROVE  /\ k \in Hosts /\ k.pin
         /\ k.t210b01 = g.t210b01 /\ k.card_clock_enabled = g.card_clock_enabled
         /\ g.fault => k.fault
         /\ ~k.fault => /\ k.ldo2 = SDMMC_POWER_3_3 /\ k.ldo2_on
                        /\ k.io_on /\ k.pwr_det = SDMMC_POWER_3_3
<1> DEFINE on == [g EXCEPT !.io_on = TRUE, !.pwr_det = SDMMC_POWER_3_3,
                           !.pin = TRUE]
<1>1. PICK v \in max77620_regulator_set_voltage(on, SDMMC_POWER_3_3) :
        k \in max77620_regulator_enable(v, TRUE)
  BY DEF _sdmmc_config_sdmmc1
<1>2. on \in Hosts
  BY VoltsDiffer DEF Hosts
<1>3. /\ on.io_on /\ on.pwr_det = SDMMC_POWER_3_3 /\ on.pin
      /\ on.t210b01 = g.t210b01 /\ on.card_clock_enabled = g.card_clock_enabled
      /\ on.fault = g.fault
  BY DEF Hosts
<1> HIDE DEF on
<1>4. /\ v \in Hosts /\ SameButPower(v, on)
      /\ ~v.fault => v.ldo2 = SDMMC_POWER_3_3
  BY <1>1, <1>2, VoltsDiffer, SetVoltageIs
<1>5. /\ k \in Hosts /\ SameButPower(k, v)
      /\ ~k.fault => k.ldo2 = v.ldo2 /\ k.ldo2_on
  BY <1>1, <1>4, RegulatorEnableIs
<1> QED BY <1>3, <1>4, <1>5 DEF SameButPower

LEMMA ClearedIs ==
  ASSUME NEW g \in Hosts, NEW soc \in Socs
  PROVE  LET k == Cleared(g, soc)
         IN /\ k \in Hosts /\ ~k.card_clock_enabled /\ k.clock_stopped
            /\ k.t210b01 = (soc = "Mariko")
            /\ k.pin = g.pin /\ k.fault = g.fault /\ k.ldo2 = g.ldo2
<1> DEFINE k == Cleared(g, soc)
           b == (soc = "Mariko")
<1>1. k = [g EXCEPT !.card_clock_enabled = FALSE, !.powersave_enabled = FALSE,
                    !.clock_stopped = TRUE, !.t210b01 = b]
  BY DEF Cleared
<1> HIDE DEF b, k
<1>2. b \in BOOLEAN
  BY DEF b
<1>3. k \in Hosts
  BY <1>1, <1>2 DEF Hosts
<1> QED BY <1>1, <1>3 DEF Hosts, b, k

\* With the clock started and the controller reset.
LEMMA ClockedIs ==
  ASSUME NEW g \in Hosts, ~g.card_clock_enabled, NEW trim \in Socs
  PROVE  LET k == Clocked(g, trim)
         IN /\ k \in Hosts /\ ~k.card_clock_enabled /\ ~k.clock_stopped
            /\ k.t210b01 = g.t210b01 /\ k.pin = g.pin /\ k.fault = g.fault
            /\ k.ldo2_on = g.ldo2_on /\ k.ldo2 = g.ldo2 /\ k.io_on = g.io_on
            /\ k.pwr_det = g.pwr_det /\ k.trim = trim
            /\ k.cal = SDMMC_POWER_3_3
            /\ Knows(k)
<1> DEFINE off == IF g.clock_on THEN _sdmmc_sd_clock_disable(g) ELSE g
           val == CardClock["SD_ID"].clock
           src == HostClock(val)
           clk == clock_sdmmc_enable(off, val)
           rst == _sdmmc_reset_all(clk)
           k   == Clocked(g, trim)
<1>1. /\ off = g
         \/ off = [g EXCEPT !.card_clock_enabled = FALSE, !.card_en = FALSE]
  BY DEF _sdmmc_sd_clock_disable
<1>2. val \in Knowns /\ src \in Sources
  BY ClockTable DEF Timings
<1>3. clk = [off EXCEPT !.source = src, !.known = val, !.clock_on = TRUE]
  <2>1. clk = [[off EXCEPT !.source = src, !.known = val]
                 EXCEPT !.clock_on = TRUE]
    BY DEF clock_sdmmc_enable, clock_sdmmc_config_clock_host
  <2> QED BY <2>1
<1>4. rst = [clk EXCEPT !.card_en = FALSE, !.div = 0, !.width = 1,
                        !.hispd = FALSE, !.uhs = 12, !.vdd_180 = FALSE,
                        !.tap = "fixed", !.pwrcon = SDMMC_POWER_OFF]
  BY DEF _sdmmc_reset_all
<1>5. k = [[rst EXCEPT !.clock_stopped = FALSE, !.trim = trim]
             EXCEPT !.cal = SDMMC_POWER_3_3]
  BY DEF Clocked, Stopped, _sdmmc_autocal_execute
<1> HIDE DEF off, val, src, clk, rst, k
<1>6. /\ off \in Hosts /\ ~off.card_clock_enabled
      /\ off.t210b01 = g.t210b01 /\ off.pin = g.pin /\ off.fault = g.fault
      /\ off.ldo2_on = g.ldo2_on /\ off.ldo2 = g.ldo2 /\ off.io_on = g.io_on
      /\ off.pwr_det = g.pwr_det
  <2>1. CASE off = [g EXCEPT !.card_clock_enabled = FALSE, !.card_en = FALSE]
    <3>1. off \in Hosts
      BY <2>1 DEF Hosts
    <3> QED BY <2>1, <3>1 DEF Hosts
  <2> QED BY <1>1, <2>1
<1>7. clk \in Hosts
  BY <1>2, <1>3, <1>6 DEF Hosts
<1>8. /\ ~clk.card_clock_enabled
      /\ clk.t210b01 = g.t210b01 /\ clk.pin = g.pin /\ clk.fault = g.fault
      /\ clk.ldo2_on = g.ldo2_on /\ clk.ldo2 = g.ldo2 /\ clk.io_on = g.io_on
      /\ clk.pwr_det = g.pwr_det
      /\ clk.source = src /\ clk.known = val
  BY <1>3, <1>6 DEF Hosts
<1>9. rst \in Hosts
  <2>1. 0 \in Divs /\ 1 \in Widths /\ 12 \in UhsModes /\ "fixed" \in Taps
        /\ SDMMC_POWER_OFF \in IoVolts
    BY DEF Divs, Widths, UhsModes, Taps, IoVolts
  <2> QED BY <1>4, <1>7, <2>1 DEF Hosts
<1>10. /\ ~rst.card_clock_enabled
       /\ rst.t210b01 = g.t210b01 /\ rst.pin = g.pin /\ rst.fault = g.fault
       /\ rst.ldo2_on = g.ldo2_on /\ rst.ldo2 = g.ldo2 /\ rst.io_on = g.io_on
       /\ rst.pwr_det = g.pwr_det
       /\ rst.source = src /\ rst.known = val
  BY <1>4, <1>7, <1>8 DEF Hosts
<1>11. SDMMC_POWER_3_3 \in IoVolts
  BY VoltsDiffer DEF IoVolts
<1>12. k = [rst EXCEPT !.clock_stopped = FALSE, !.trim = trim,
                       !.cal = SDMMC_POWER_3_3]
  BY <1>5
<1>13. k \in Hosts
  BY <1>9, <1>11, <1>12 DEF Hosts
<1>14. /\ ~k.card_clock_enabled /\ ~k.clock_stopped
       /\ k.t210b01 = g.t210b01 /\ k.pin = g.pin /\ k.fault = g.fault
       /\ k.ldo2_on = g.ldo2_on /\ k.ldo2 = g.ldo2 /\ k.io_on = g.io_on
       /\ k.pwr_det = g.pwr_det /\ k.trim = trim /\ k.cal = SDMMC_POWER_3_3
       /\ k.source = src /\ k.known = val
  BY <1>9, <1>10, <1>12 DEF Hosts
<1> QED BY <1>13, <1>14 DEF Knows, k, src

\* At 3.3 V, with the card clock running at 400 kHz or less.
LEMMA TalkingIs ==
  ASSUME NEW g \in Hosts, Knows(g), g.cal = SDMMC_POWER_3_3
  PROVE  LET k == Talking(g)
         IN /\ k \in Hosts /\ k.card_clock_enabled
            /\ k.clock_stopped = g.clock_stopped
            /\ k.t210b01 = g.t210b01 /\ k.pin = g.pin /\ k.fault = g.fault
            /\ k.ldo2_on = g.ldo2_on /\ k.ldo2 = g.ldo2 /\ k.io_on = g.io_on
            /\ k.pwr_det = g.pwr_det /\ k.trim = g.trim
            /\ k.width = 1 /\ k.pwrcon = SDMMC_POWER_3_3
            /\ k.cal = SDMMC_POWER_3_3
            /\ ~k.hispd /\ ~k.vdd_180 /\ k.tap = "fixed"
            /\ k.source = HostClock(CardClock["SD_ID"].clock)
            /\ k.known = CardClock["SD_ID"].clock /\ k.div = 32
<1> DEFINE power == _sdmmc_set_io_power(sdmmc_set_bus_width(g, 1),
                                        SDMMC_POWER_3_3)
           clock == sdmmc_setup_clock(power, "SD_ID")
           saved == sdmmc_card_clock_powersave(clock, FALSE)
           k == Talking(g)
<1>1. power = [g EXCEPT !.width = 1, !.pwrcon = SDMMC_POWER_3_3]
  BY DEF _sdmmc_set_io_power, sdmmc_set_bus_width
<1>2. k = _sdmmc_card_clock_enable(saved)
  BY DEF Talking
<1> HIDE DEF power, k
<1>3. power \in Hosts
  <2>1. 1 \in Widths /\ SDMMC_POWER_3_3 \in IoVolts
    BY VoltsDiffer DEF Widths, IoVolts
  <2> QED BY <1>1, <2>1 DEF Hosts
<1>4. /\ power.width = 1 /\ power.pwrcon = SDMMC_POWER_3_3
      /\ power.cal = g.cal /\ power.source = g.source /\ power.known = g.known
      /\ power.clock_stopped = g.clock_stopped /\ power.trim = g.trim
      /\ power.t210b01 = g.t210b01 /\ power.pin = g.pin
      /\ power.fault = g.fault /\ power.ldo2_on = g.ldo2_on
      /\ power.ldo2 = g.ldo2 /\ power.io_on = g.io_on
      /\ power.pwr_det = g.pwr_det
  BY <1>1, <1>3 DEF Hosts
<1>5. Knows(power)
  BY <1>4 DEF Knows
<1>6. "SD_ID" \in Timings
  BY DEF Timings
<1>7. /\ clock \in Hosts /\ SameWires(clock, power) /\ clock.tap = "fixed"
      /\ clock.div = 32
      /\ clock.source = HostClock(CardClock["SD_ID"].clock)
      /\ clock.known = CardClock["SD_ID"].clock
      /\ ~clock.hispd /\ ~clock.vdd_180
  BY <1>3, <1>5, <1>6, SetupClockIs, TimingIs
<1> HIDE DEF clock
<1>8. /\ saved \in Hosts /\ SameButClock(saved, clock)
      /\ saved.cal \in {clock.cal, clock.pwrcon}
  BY <1>7, PowersaveIs
<1> HIDE DEF saved
<1>9. /\ k \in Hosts /\ SameButClock(k, saved) /\ k.card_clock_enabled
      /\ k.cal \in {saved.cal, saved.pwrcon}
  BY <1>2, <1>8, CardClockEnableIs
<1>10. k.cal = SDMMC_POWER_3_3 /\ k.pwrcon = SDMMC_POWER_3_3
  BY <1>4, <1>7, <1>8, <1>9 DEF SameWires, SameButClock
<1> QED
  BY <1>4, <1>7, <1>8, <1>9, <1>10
     DEF SameWires, SameButClock, SameClock, SameTiming, k

\* The outcomes of sdmmc_init: nothing done but in the structure; the card
\* powered; the card powered, fed 3.3 V and ready to be talked to.
LEMMA SdmmcInitIs ==
  ASSUME NEW g \in Hosts, NEW soc \in Socs, NEW r \in sdmmc_init(g, soc)
  PROVE  /\ r.h \in Hosts /\ (g.fault => r.h.fault)
         /\ r.h.t210b01 = (soc = "Mariko")
         /\ \/ /\ ~r.ok /\ r.h.pin = g.pin /\ r.h.fault = g.fault
               /\ r.h.ldo2 = g.ldo2
               /\ r.h.clock_stopped /\ ~r.h.card_clock_enabled
            \/ /\ r.h.pin /\ ~r.h.clock_stopped
               /\ ~r.ok => ~r.h.card_clock_enabled
               /\ ~r.h.fault => r.h.ldo2 = SDMMC_POWER_3_3
         /\ r.ok =>
              /\ r.h.pin /\ ~r.h.clock_stopped /\ r.h.card_clock_enabled
              /\ r.h.trim = Trim(g.t210b01)
              /\ r.h.width = 1 /\ r.h.cal = SDMMC_POWER_3_3
              /\ r.h.pwrcon = SDMMC_POWER_3_3
              /\ ~r.h.hispd /\ ~r.h.vdd_180 /\ r.h.tap = "fixed"
              /\ r.h.source = HostClock(CardClock["SD_ID"].clock)
              /\ r.h.known = CardClock["SD_ID"].clock /\ r.h.div = 32
              /\ ~r.h.fault => /\ r.h.ldo2 = SDMMC_POWER_3_3 /\ r.h.ldo2_on
                               /\ r.h.io_on /\ r.h.pwr_det = SDMMC_POWER_3_3
<1> DEFINE zero == Cleared(g, soc)
           trim == Trim(g.t210b01)
<1>1. /\ zero \in Hosts /\ ~zero.card_clock_enabled /\ zero.clock_stopped
      /\ zero.t210b01 = (soc = "Mariko")
      /\ zero.pin = g.pin /\ zero.fault = g.fault /\ zero.ldo2 = g.ldo2
  BY ClearedIs
<1>2. trim \in Socs
  BY DEF Trim, Socs
<1>3. CASE r = [ok |-> FALSE, h |-> zero]
  BY <1>1, <1>3
<1> HIDE DEF zero, trim
<1>4. ASSUME NEW c \in _sdmmc_config_sdmmc1(zero)
      PROVE  LET k == Clocked(c, trim)
             IN /\ k \in Hosts /\ ~k.card_clock_enabled /\ ~k.clock_stopped
                /\ k.pin /\ (zero.fault => k.fault) /\ k.t210b01 = zero.t210b01
                /\ k.trim = trim /\ k.cal = SDMMC_POWER_3_3 /\ Knows(k)
                /\ ~k.fault => /\ k.ldo2 = SDMMC_POWER_3_3 /\ k.ldo2_on
                               /\ k.io_on /\ k.pwr_det = SDMMC_POWER_3_3
  <2>1. /\ c \in Hosts /\ c.pin /\ c.t210b01 = zero.t210b01
        /\ ~c.card_clock_enabled /\ (zero.fault => c.fault)
        /\ ~c.fault => /\ c.ldo2 = SDMMC_POWER_3_3 /\ c.ldo2_on
                       /\ c.io_on /\ c.pwr_det = SDMMC_POWER_3_3
    BY <1>1, <1>4, ConfigSdmmc1Is
  <2> QED BY <1>2, <2>1, ClockedIs
<1>5. CASE \E c \in _sdmmc_config_sdmmc1(zero) :
             r = [ok |-> FALSE, h |-> Clocked(c, trim)]
  BY <1>1, <1>4, <1>5
<1>6. CASE \E c \in _sdmmc_config_sdmmc1(zero) :
             r = [ok |-> TRUE, h |-> Talking(Clocked(c, trim))]
  <2>1. PICK c \in _sdmmc_config_sdmmc1(zero) :
               r = [ok |-> TRUE, h |-> Talking(Clocked(c, trim))]
    BY <1>6
  <2> DEFINE k == Clocked(c, trim)
  <2>2. /\ k \in Hosts /\ ~k.card_clock_enabled /\ ~k.clock_stopped
        /\ k.pin /\ (zero.fault => k.fault) /\ k.t210b01 = zero.t210b01
        /\ k.trim = trim /\ k.cal = SDMMC_POWER_3_3 /\ Knows(k)
        /\ ~k.fault => /\ k.ldo2 = SDMMC_POWER_3_3 /\ k.ldo2_on
                       /\ k.io_on /\ k.pwr_det = SDMMC_POWER_3_3
    BY <1>4
  <2>3. r.ok /\ r.h = Talking(k)
    BY <2>1
  <2> HIDE DEF k
  <2> QED BY <1>1, <2>2, <2>3, TalkingIs DEF trim
<1>7. \/ r = [ok |-> FALSE, h |-> zero]
      \/ \E c \in _sdmmc_config_sdmmc1(zero) :
           \/ r = [ok |-> FALSE, h |-> Clocked(c, trim)]
           \/ r = [ok |-> TRUE, h |-> Talking(Clocked(c, trim))]
  BY DEF sdmmc_init, zero, trim
<1> QED BY <1>3, <1>5, <1>6, <1>7

\* sdmmc_end: with the clock running it takes the power away.
LEMMA SdmmcEndIs ==
  ASSUME NEW g \in Hosts, ~g.clock_stopped, NEW k \in sdmmc_end(g)
  PROVE  /\ k \in Hosts /\ ~k.pin /\ ~k.card_clock_enabled /\ k.clock_stopped
         /\ k.t210b01 = g.t210b01
<1> DEFINE dis == _sdmmc_sd_clock_disable(g)
           off == _sdmmc_set_io_power(dis, SDMMC_POWER_OFF)
           good == [off EXCEPT !.fault = FALSE]
<1>1. PICK v \in max77620_regulator_enable(good, FALSE) :
        k = [clock_sdmmc_disable(
               [v EXCEPT !.pin = FALSE, !.io_on = FALSE,
                         !.pwr_det = SDMMC_POWER_3_3])
               EXCEPT !.clock_stopped = TRUE]
  BY DEF sdmmc_end, sdmmc1_disable_power
<1>2. /\ good = [g EXCEPT !.card_clock_enabled = FALSE, !.card_en = FALSE,
                          !.pwrcon = SDMMC_POWER_OFF, !.fault = FALSE]
      /\ SDMMC_POWER_OFF \in IoVolts
  BY DEF _sdmmc_sd_clock_disable, _sdmmc_set_io_power, IoVolts
<1> HIDE DEF good
<1>3. good \in Hosts
  BY <1>2 DEF Hosts
<1>4. good.t210b01 = g.t210b01 /\ ~good.card_clock_enabled
  BY <1>2, <1>3 DEF Hosts
<1>5. v \in Hosts /\ v.t210b01 = g.t210b01 /\ ~v.card_clock_enabled
  BY <1>1, <1>3, <1>4, RegulatorEnableIs DEF SameButPower
<1>6. k = [v EXCEPT !.pin = FALSE, !.io_on = FALSE, !.pwr_det = SDMMC_POWER_3_3,
                    !.clock_on = FALSE, !.clock_stopped = TRUE]
  BY <1>1 DEF clock_sdmmc_disable
<1>7. k \in Hosts
  BY <1>5, <1>6, VoltsDiffer DEF Hosts
<1> QED BY <1>5, <1>6, <1>7 DEF Hosts

\* sdmmc_enable_low_voltage: everything at 1.8 V, at the default speed.
LEMMA LowVoltageIs ==
  ASSUME NEW g \in Hosts, NEW k \in sdmmc_enable_low_voltage(g)
  PROVE  /\ k \in Hosts
         /\ k.card_clock_enabled = g.card_clock_enabled
         /\ k.clock_stopped = g.clock_stopped
         /\ k.t210b01 = g.t210b01 /\ k.trim = g.trim
         /\ k.width = g.width /\ k.pin = g.pin /\ (g.fault => k.fault)
         /\ k.hispd = g.hispd /\ k.vdd_180 /\ k.uhs = 12 /\ k.tap = "fixed"
         /\ k.div = 0
         /\ Knows(g) => k.source = HostClock(25000) /\ k.known = 25000
         /\ ~k.fault => k.ldo2 = SDMMC_POWER_1_8 /\ k.ldo2_on = g.ldo2_on
         /\ k.io_on = g.io_on /\ k.cal = SDMMC_POWER_1_8
         /\ k.pwrcon = SDMMC_POWER_1_8 /\ k.pwr_det = SDMMC_POWER_1_8
<1> DEFINE clock == sdmmc_setup_clock(g, "UHS_SDR12")
<1>1. PICK v \in max77620_regulator_set_voltage(clock, SDMMC_POWER_1_8) :
        k = [v EXCEPT !.cal = SDMMC_POWER_1_8, !.pwrcon = SDMMC_POWER_1_8,
                      !.pwr_det = SDMMC_POWER_1_8, !.card_en = TRUE]
  <2>1. PICK v \in max77620_regulator_set_voltage(clock, SDMMC_POWER_1_8) :
          k = [[[v EXCEPT !.cal = SDMMC_POWER_1_8]
                   EXCEPT !.pwrcon = SDMMC_POWER_1_8]
                 EXCEPT !.pwr_det = SDMMC_POWER_1_8, !.card_en = TRUE]
    BY DEF sdmmc_enable_low_voltage, _sdmmc_set_io_power,
           _sdmmc_autocal_execute
  <2> QED BY <2>1
<1>2. /\ "UHS_SDR12" \in Timings /\ "UHS_SDR12" # "SD_ID"
      /\ CardClock["UHS_SDR12"].clock = 25000
  BY ClockTable DEF Timings
<1>3. /\ clock \in Hosts /\ SameWires(clock, g) /\ clock.tap = "fixed"
      /\ clock.div = 0
      /\ Knows(g) => clock.source = HostClock(25000) /\ clock.known = 25000
      /\ clock.hispd = g.hispd /\ clock.vdd_180 /\ clock.uhs = 12
  BY <1>2, SetupClockIs, TimingIs
<1> HIDE DEF clock
<1>4. /\ v \in Hosts /\ SameButPower(v, clock)
      /\ ~v.fault => v.ldo2 = SDMMC_POWER_1_8 /\ v.ldo2_on = clock.ldo2_on
  BY <1>1, <1>3, SetVoltageIs, VoltsDiffer
<1>5. SDMMC_POWER_1_8 \in IoVolts
  BY VoltsDiffer DEF IoVolts
<1>6. k \in Hosts
  BY <1>1, <1>4, <1>5, VoltsDiffer DEF Hosts
<1>7. /\ SameClock(k, v) /\ SameTiming(k, v)
      /\ k.card_clock_enabled = v.card_clock_enabled
      /\ k.clock_stopped = v.clock_stopped
      /\ k.t210b01 = v.t210b01 /\ k.trim = v.trim /\ k.width = v.width
      /\ k.pin = v.pin /\ k.fault = v.fault /\ k.ldo2 = v.ldo2
      /\ k.ldo2_on = v.ldo2_on /\ k.io_on = v.io_on
      /\ k.cal = SDMMC_POWER_1_8 /\ k.pwrcon = SDMMC_POWER_1_8
      /\ k.pwr_det = SDMMC_POWER_1_8
  BY <1>1, <1>4 DEF Hosts, SameClock, SameTiming
<1> QED
  BY <1>3, <1>4, <1>6, <1>7 DEF SameWires, SameButPower, SameClock, SameTiming

-----------------------------------------------------------------------------
(* Helpers                                                                 *)

LEMMA TunedIs ==
  ASSUME NEW g \in Hosts, NEW t \in Timings
  PROVE  LET k == Tuned(g, t)
         IN /\ k \in Hosts /\ SameClock(k, g)
            /\ k.card_clock_enabled = g.card_clock_enabled
            /\ SameWires(k, g)
            /\ k.hispd = g.hispd /\ k.vdd_180 = g.vdd_180 /\ k.uhs = g.uhs
            /\ k.tap = IF t \in {"UHS_SDR50", "UHS_SDR82", "UHS_SDR104"}
                       THEN "tuned" ELSE g.tap
<1> DEFINE k == Tuned(g, t)
<1>1. CASE t \in {"UHS_SDR50", "UHS_SDR82", "UHS_SDR104"}
  <2>1. k = [g EXCEPT !.tap = "tuned"] /\ "tuned" \in Taps
    BY <1>1 DEF Tuned, Taps
  <2> HIDE DEF k
  <2>2. k \in Hosts
    BY <2>1 DEF Hosts
  <2>3. SameClock(k, g) /\ SameWires(k, g) /\ k.tap = "tuned"
        /\ k.hispd = g.hispd /\ k.vdd_180 = g.vdd_180 /\ k.uhs = g.uhs
    BY <2>1, <2>2 DEF Hosts, SameClock, SameWires
  <2> QED BY <1>1, <2>2, <2>3 DEF SameWires, k
<1>2. CASE t \notin {"UHS_SDR50", "UHS_SDR82", "UHS_SDR104"}
  <2>1. k = g
    BY <1>2 DEF Tuned
  <2> HIDE DEF k
  <2> QED BY <1>2, <2>1 DEF SameClock, SameWires, k
<1> QED BY <1>1, <1>2

LEMMA BusWidthIs ==
  ASSUME NEW g \in Hosts
  PROVE  LET k == sdmmc_set_bus_width(g, 4)
         IN /\ k \in Hosts /\ SameClock(k, g) /\ SameTiming(k, g)
            /\ k.width = 4
            /\ k.card_clock_enabled = g.card_clock_enabled
            /\ k.clock_stopped = g.clock_stopped
            /\ k.t210b01 = g.t210b01 /\ k.trim = g.trim
            /\ k.pwrcon = g.pwrcon /\ k.cal = g.cal /\ k.pwr_det = g.pwr_det
            /\ k.io_on = g.io_on /\ k.ldo2_on = g.ldo2_on /\ k.ldo2 = g.ldo2
            /\ k.pin = g.pin /\ k.fault = g.fault
<1> DEFINE k == sdmmc_set_bus_width(g, 4)
<1>1. k = [g EXCEPT !.width = 4] /\ 4 \in Widths
  BY DEF sdmmc_set_bus_width, Widths
<1> HIDE DEF k
<1>2. k \in Hosts
  BY <1>1 DEF Hosts
<1>3. /\ SameClock(k, g) /\ SameTiming(k, g)
      /\ k.width = 4
      /\ k.card_clock_enabled = g.card_clock_enabled
      /\ k.clock_stopped = g.clock_stopped
      /\ k.t210b01 = g.t210b01 /\ k.trim = g.trim
      /\ k.pwrcon = g.pwrcon /\ k.cal = g.cal /\ k.pwr_det = g.pwr_det
      /\ k.io_on = g.io_on /\ k.ldo2_on = g.ldo2_on /\ k.ldo2 = g.ldo2
      /\ k.pin = g.pin /\ k.fault = g.fault
  BY <1>1, <1>2 DEF Hosts, SameClock, SameTiming
<1> QED BY <1>2, <1>3 DEF k

\* A fault, and nothing else.
LEMMA FaultIs ==
  ASSUME NEW g \in Hosts, NEW f \in BOOLEAN
  PROVE  LET k == [g EXCEPT !.fault = f]
         IN /\ k \in Hosts /\ SameClock(k, g) /\ SameTiming(k, g)
            /\ k.card_clock_enabled = g.card_clock_enabled
            /\ k.clock_stopped = g.clock_stopped
            /\ k.t210b01 = g.t210b01 /\ k.trim = g.trim /\ k.width = g.width
            /\ k.pwrcon = g.pwrcon /\ k.cal = g.cal /\ k.pwr_det = g.pwr_det
            /\ k.io_on = g.io_on /\ k.ldo2_on = g.ldo2_on /\ k.ldo2 = g.ldo2
            /\ k.pin = g.pin /\ k.fault = f
<1> DEFINE k == [g EXCEPT !.fault = f]
<1>1. k \in Hosts
  BY DEF Hosts
<1> QED BY <1>1 DEF Hosts, SameClock, SameTiming

\* What happens to the card.
LEMMA OffCardIs == OffCard \in Cards /\ OffCard.st = "off"
                   /\ OffCard.volt = SDMMC_POWER_3_3 /\ ~OffCard.switching
BY VoltsDiffer DEF OffCard, Cards, States, Widths, Modes

LEMMA IdledIs ==
  ASSUME NEW c \in Cards
  PROVE  LET d == Idled(c)
         IN /\ d \in Cards /\ d.volt = c.volt /\ d.switching = c.switching
            /\ (d.st = "off") = (c.st = "off")
            /\ c.st = "off" \/ c.switching => d = c
            /\ c.st # "off" /\ ~c.switching => d.width = 1 /\ d.mode = 12
<1> DEFINE d == Idled(c)
<1>1. CASE c.st = "off" \/ c.switching
  BY <1>1 DEF Idled
<1>2. CASE c.st # "off" /\ ~c.switching
  <2>1. d = [c EXCEPT !.st = "idle", !.width = 1, !.mode = 12]
    BY <1>2 DEF Idled
  <2> HIDE DEF d
  <2>2. "idle" \in States /\ 1 \in Widths /\ 12 \in Modes
    BY DEF States, Widths, Modes
  <2>3. d \in Cards
    BY <2>1, <2>2 DEF Cards
  <2>4. /\ d.st = "idle" /\ d.width = 1 /\ d.mode = 12 /\ d.volt = c.volt
        /\ d.switching = c.switching
    BY <2>1, <2>3 DEF Cards
  <2> QED BY <1>2, <2>3, <2>4 DEF d
<1> QED BY <1>1, <1>2

\* One step of the row of commands.
LEMMA RowIs ==
  ASSUME pc \in DOMAIN Row
  PROVE  /\ pc \in {"cid", "rca", "csd", "select", "blocklen", "cardDetect"}
         /\ Row[pc].to \in {"ident", "stby", "tran"}
         /\ Row[pc].next \in {"rca", "csd", "select", "blocklen", "cardDetect",
                              "scr"}
         /\ pc \in {"cid", "rca"} => Row[pc].next \in {"rca", "csd"}
         /\ pc \notin {"cid", "rca"} =>
              /\ Row[pc].next \in {"select", "blocklen", "cardDetect", "scr"}
              /\ Row[pc].to \in {"stby", "tran"}
BY DEF Row

\* What a card at 3.3 V and one at 1.8 V is told to do.
LEMMA FallbackIs ==
  ASSUME TypeOK, bus_low_voltage_support
  PROVE  /\ Fallback.function \in {12, 25, 50, 104}
         /\ Fallback.type \in {"UHS_SDR12", "UHS_SDR25", "UHS_SDR50",
                               "UHS_SDR82", "UHS_SDR104"}
         /\ Fallback.type = "UHS_SDR12" <=> Fallback.function = 12
         /\ Fallback.type = "UHS_SDR25" <=> Fallback.function = 25
         /\ Fallback.type = "UHS_SDR50" <=> Fallback.function = 50
<1> DEFINE F == console.functions
<1>1. type \in {"UHS_SDR82", "UHS_SDR104"}
  BY DEF bus_low_voltage_support
<1>2. CASE 104 \in F
  <2>1. Fallback = [function |-> 104, type |-> type]
    BY <1>2 DEF Fallback
  <2> QED BY <1>1, <2>1
<1>3. CASE 104 \notin F /\ 50 \in F
  <2>1. Fallback = [function |-> 50, type |-> "UHS_SDR50"]
    BY <1>3 DEF Fallback
  <2> QED BY <2>1
<1>4. CASE F \cap {50, 104} = {} /\ 25 \in F
  <2>1. Fallback = [function |-> 25, type |-> "UHS_SDR25"]
    BY <1>4 DEF Fallback
  <2> QED BY <2>1
<1>5. CASE F \cap {50, 104} = {} /\ 25 \notin F
  <2>1. Fallback = [function |-> 12, type |-> "UHS_SDR12"]
    BY <1>5 DEF Fallback
  <2> QED BY <2>1
<1> QED BY <1>2, <1>3, <1>4, <1>5

\* The frequencies that the card sees.
LEMMA Frequencies ==
  ASSUME NEW g
  PROVE  /\ g.source = HostClock(25000) /\ g.div = 32 => CardFrequency(g) = 386
         /\ g.source = HostClock(25000) /\ g.div = 0 => CardFrequency(g) = 24727
         /\ g.source = HostClock(50000) /\ g.div = 0 => CardFrequency(g) = 48000
         /\ g.source = HostClock(100000) /\ g.div = 0 => CardFrequency(g) = 99840
         /\ g.source = HostClock(164000) /\ g.div = 0 => CardFrequency(g) = 163200
         /\ g.source = HostClock(200000) /\ g.div = 0 => CardFrequency(g) = 199680
BY SMTT(30) DEF CardFrequency, HostClock, Pll

LEMMA VoltagesAgreeIs ==
  VoltagesAgree <=>
    /\ h.ldo2_on /\ h.io_on
    /\ h.ldo2 = card.volt /\ h.pwrcon = card.volt /\ h.pwr_det = card.volt
    /\ h.cal = card.volt
    /\ h.vdd_180 = (card.volt = SDMMC_POWER_1_8)
BY DEF VoltagesAgree

\* The choices of Failed, Return and the power cycle.
LEMMA FailedIs ==
  Failed => /\ pc' \in {"slower", "idle"} /\ result' \in {result, FALSE}
            /\ pc' = "slower" => /\ looping /\ sd_mode # SD_INIT_FAIL
                                 /\ UNCHANGED result
            /\ pc' = "idle" => /\ result' = FALSE
                               /\ looping => sd_mode = SD_INIT_FAIL
BY DEF Failed, Next_, Return

LEMMA PowerToIs ==
  ASSUME TypeOK, PowerInv, NEW g \in Hosts, PowerTo(g)
  PROVE  /\ h' = g /\ card' \in Cards
         /\ ~g.pin => card' = OffCard
         /\ g.pin => card'.st # "off" /\ (card'.volt = card.volt \/ card'.volt = SDMMC_POWER_3_3)
<1>1. CASE ~g.pin
  BY <1>1, OffCardIs DEF PowerTo
<1>2. CASE g.pin /\ ~h.pin
  <2>1. card' = [OffCard EXCEPT !.st = "idle"] /\ "idle" \in States
    BY <1>2 DEF PowerTo, States
  <2>2. card' \in Cards /\ card'.st = "idle" /\ card'.volt = SDMMC_POWER_3_3
    BY <2>1, OffCardIs DEF Cards
  <2> QED BY <1>2, <2>2 DEF PowerTo
<1>3. CASE g.pin /\ h.pin
  BY <1>3 DEF PowerTo, PowerInv, TypeOK, On
<1> QED BY <1>1, <1>2, <1>3

\* A power cycle that comes about takes the power away; one that does not
\* leaves a fault behind, if there was power.
LEMMA PowerCycleIs ==
  ASSUME TypeOK, PowerInv, EndDone
  PROVE  /\ h' \in Hosts /\ h'.pin = FALSE /\ ~h'.card_clock_enabled
         /\ h'.clock_stopped /\ h'.t210b01 = h.t210b01
         /\ card' = OffCard /\ card' \in Cards
         /\ storage' \in Storages /\ ~storage'.initialized
         /\ h.card_clock_enabled
<1>1. h.card_clock_enabled /\ ~h.clock_stopped /\ h \in Hosts
  BY DEF EndDone, PowerInv, TypeOK
<1>2. PICK new \in sdmmc_end(h) :
        h' = new /\ card' = IF new.pin THEN Idled(card) ELSE OffCard
  BY DEF EndDone
<1>3. /\ new \in Hosts /\ ~new.pin /\ ~new.card_clock_enabled
      /\ new.clock_stopped /\ new.t210b01 = h.t210b01
  BY <1>1, <1>2, SdmmcEndIs
<1>6. new.pin = FALSE
  BY <1>3 DEF Hosts
<1>4. storage' = [storage EXCEPT !.initialized = FALSE]
  BY DEF EndDone, Ended
<1>5. storage' \in Storages /\ ~storage'.initialized
  BY <1>4 DEF Storages, TypeOK
<1> QED BY <1>1, <1>2, <1>3, <1>5, <1>6, OffCardIs

LEMMA EndFailedIs ==
  ASSUME TypeOK, EndFailed
  PROVE  /\ h' \in Hosts /\ SameClock(h', h) /\ SameTiming(h', h)
         /\ h'.card_clock_enabled = h.card_clock_enabled
         /\ h'.clock_stopped = h.clock_stopped
         /\ h'.t210b01 = h.t210b01 /\ h'.trim = h.trim /\ h'.width = h.width
         /\ h'.pwrcon = h.pwrcon /\ h'.cal = h.cal /\ h'.pwr_det = h.pwr_det
         /\ h'.io_on = h.io_on /\ h'.ldo2_on = h.ldo2_on /\ h'.ldo2 = h.ldo2
         /\ h'.pin = h.pin /\ h'.fault = (h.fault \/ h.pin)
         /\ card' = card /\ storage' = storage
<1> DEFINE f == h.fault \/ h.pin
<1>1. h' = [h EXCEPT !.fault = f] /\ f \in BOOLEAN
  BY DEF EndFailed, TypeOK, Hosts
<1> HIDE DEF f
<1> DEFINE k == [h EXCEPT !.fault = f]
<1>2. /\ k \in Hosts /\ SameClock(k, h) /\ SameTiming(k, h)
      /\ k.card_clock_enabled = h.card_clock_enabled
      /\ k.clock_stopped = h.clock_stopped
      /\ k.t210b01 = h.t210b01 /\ k.trim = h.trim /\ k.width = h.width
      /\ k.pwrcon = h.pwrcon /\ k.cal = h.cal /\ k.pwr_det = h.pwr_det
      /\ k.io_on = h.io_on /\ k.ldo2_on = h.ldo2_on /\ k.ldo2 = h.ldo2
      /\ k.pin = h.pin /\ k.fault = f
  BY <1>1, FaultIs DEF TypeOK
<1>3. h' = k
  BY <1>1
<1>4. f = (h.fault \/ h.pin)
  BY DEF f
<1> HIDE DEF k
<1> QED BY <1>2, <1>3, <1>4 DEF EndFailed

-----------------------------------------------------------------------------
(* What many steps have in common                                          *)

LEMMA NowTyped == TypeOK => Now \in Device!Card
<1> SUFFICES ASSUME TypeOK PROVE Now \in Device!Card
  OBVIOUS
<1>1. /\ h.pin \in BOOLEAN /\ h.card_clock_enabled \in BOOLEAN
      /\ storage.initialized \in BOOLEAN /\ cut \in BOOLEAN
  BY DEF TypeOK, Hosts, Storages
<1>2. (sd_mode = SD_INIT_FAIL) \in BOOLEAN
  OBVIOUS
<1> QED BY <1>1, <1>2 DEF Now, Device!Card

LEMMA SameCard ==
  ASSUME NEW c \in Device!Card, NEW d \in Device!Card,
         c.power = d.power, c.clock = d.clock, c.initialized = d.initialized,
         c.exhausted = d.exhausted, c.cut = d.cut
  PROVE  c = d
BY DEF Device!Card

\* Where no bring-up is under way and none has succeeded, the invariants about
\* those have nothing to say.
LEMMA Dead ==
  ASSUME ~Live, ~storage.initialized
  PROVE  HighInv /\ LowInv /\ CardInv /\ ReadyInv
BY DEF HighInv, LowInv, CardInv, ReadyInv, ReadyAgrees, Ready

\* The part of the hardware that no command of a bring-up touches.
SameSupply(k, g) ==
  /\ k.card_clock_enabled = g.card_clock_enabled
  /\ k.clock_stopped = g.clock_stopped
  /\ k.t210b01 = g.t210b01 /\ k.trim = g.trim /\ k.pin = g.pin

LEMMA LiveFacts ==
  ASSUME Inv, Live
  PROVE  /\ h.card_clock_enabled /\ ~h.clock_stopped /\ ~storage.initialized
         /\ pc \notin {"idle", "init", "slower"} /\ op \in {"init", "io"}
         /\ entry.cut = cut /\ sd_mode # SD_INIT_FAIL /\ ~entry.exhausted
         /\ op = "init" => looping
         /\ op = "io" => entry.initialized
BY DEF Inv, TypeOK, Hosts, PowerInv, CallInv, Live, Commands

\* A command that the bring-up goes on from.
LEMMA GoesOn ==
  ASSUME Inv, Live, Live', Keep, UNCHANGED rounds,
         SameSupply(h', h), (card'.st = "off") = (card.st = "off"),
         card.st = "off" => card' = card,
         NeverOverdriven', ~storage'.initialized
  PROVE  PowerInv' /\ VoltInv' /\ CallInv' /\ TrimInv' /\ ReadyInv'
<1> USE LiveFacts DEF Inv, Keep, callVars, SameSupply
<1>1. pc' \notin {"idle", "init", "slower"}
  BY DEF Live, Commands
<1>2. PowerInv'
  BY DEF PowerInv, On
<1>3. VoltInv'
  BY <1>1 DEF VoltInv
<1>4. CallInv'
  BY <1>1 DEF CallInv
<1>5. TrimInv'
  BY DEF TrimInv
<1>6. ReadyInv'
  BY DEF ReadyInv, ReadyAgrees, Ready
<1> QED BY <1>2, <1>3, <1>4, <1>5, <1>6

\* A command that is the end of the bring-up.
LEMMA GivesUp ==
  ASSUME Inv, Live, Failed, Keep, UNCHANGED rounds,
         SameSupply(h', h), (card'.st = "off") = (card.st = "off"),
         card.st = "off" => card' = card,
         NeverOverdriven', ~storage'.initialized
  PROVE  /\ PowerInv' /\ VoltInv' /\ CallInv' /\ TrimInv'
         /\ HighInv' /\ LowInv' /\ CardInv' /\ ReadyInv'
<1> USE LiveFacts, FailedIs DEF Inv, Keep, callVars, SameSupply
<1>1. pc' \in {"idle", "slower"} /\ ~Live'
  BY DEF Live, Commands
<1>2. PowerInv'
  BY DEF PowerInv, On
<1>3. VoltInv'
  BY <1>1 DEF VoltInv
<1>4. CallInv'
  BY <1>1 DEF CallInv
<1>5. TrimInv'
  BY <1>1 DEF TrimInv
<1>6. HighInv' /\ LowInv' /\ CardInv' /\ ReadyInv'
  BY <1>1 DEF HighInv, LowInv, CardInv, ReadyInv, ReadyAgrees, Ready
<1> QED BY <1>2, <1>3, <1>4, <1>5, <1>6

\* The last step of a bring-up.
LEMMA Succeeds ==
  ASSUME Inv, Live, pc' = "idle", Keep, UNCHANGED rounds,
         SameSupply(h', h), (card'.st = "off") = (card.st = "off"),
         card.st = "off" => card' = card,
         NeverOverdriven'
  PROVE  /\ PowerInv' /\ VoltInv' /\ CallInv' /\ TrimInv'
         /\ HighInv' /\ LowInv' /\ CardInv'
<1> USE LiveFacts DEF Inv, Keep, callVars, SameSupply
<1>1. ~Live'
  BY DEF Live, Commands
<1>2. PowerInv'
  BY DEF PowerInv, On
<1>3. VoltInv'
  BY <1>1 DEF VoltInv
<1>4. CallInv'
  BY <1>1 DEF CallInv
<1>5. TrimInv'
  BY <1>1 DEF TrimInv
<1>6. HighInv' /\ LowInv' /\ CardInv'
  BY <1>1 DEF HighInv, LowInv, CardInv
<1> QED BY <1>2, <1>3, <1>4, <1>5, <1>6

-----------------------------------------------------------------------------
(* The calls                                                               *)

LEMMA InvInit == Init => Inv
<1> SUFFICES ASSUME Init PROVE Inv
  OBVIOUS
<1> DEFINE Rest == /\ console \in Consoles /\ sd_mode = SD_UHS_SDR104
                   /\ pc = "idle" /\ op = "end" /\ looping = FALSE
                   /\ is_version_1 = FALSE /\ result = TRUE /\ cut = FALSE
                   /\ entry = Now /\ rounds = 0
<1>a. Rest
  BY DEF Init
<1>b. /\ looping \in BOOLEAN /\ is_version_1 \in BOOLEAN
      /\ result \in BOOLEAN /\ cut \in BOOLEAN
  BY <1>a
<1> HIDE DEF Rest
<1>1. PICK on \in BOOLEAN, source \in {HostClock(25000), HostClock(200000)} :
        /\ h = Left(on, source)
        /\ card = [OffCard EXCEPT !.st = IF on THEN "tran" ELSE "off"]
  BY DEF Init
<1>2. h \in Hosts
  <2>1. /\ 0 \in Divs /\ 1 \in Widths /\ 12 \in UhsModes /\ "fixed" \in Taps
        /\ SDMMC_POWER_OFF \in IoVolts /\ SDMMC_POWER_3_3 \in IoVolts
        /\ SDMMC_POWER_3_3 \in LdoVolts /\ SDMMC_POWER_3_3 \in Volts
        /\ "Erista" \in Socs /\ 0 \in Knowns
    BY VoltsDiffer
       DEF Divs, Widths, UhsModes, Taps, IoVolts, LdoVolts, Socs, Knowns
  <2>2. source \in Sources
    BY SMT DEF Sources, Clocks
  <2> QED BY <1>1, <2>1, <2>2 DEF Left, Hosts
<1>3. /\ card \in Cards /\ card.volt = SDMMC_POWER_3_3
      /\ card.st = IF on THEN "tran" ELSE "off"
      /\ ~on => card = OffCard
  BY <1>1, OffCardIs DEF Cards, States
<1>4. /\ ~h.card_clock_enabled /\ ~h.clock_stopped /\ h.pin = on
  BY <1>1 DEF Left
<1>5. storage \in Storages /\ ~storage.initialized
  BY DEF Init, Zero, Storages
<1>6. TypeOK
  <2>1. sd_mode \in 0..4 /\ rounds \in 0..2
    BY <1>a DEF Rest, SD_UHS_SDR104
  <2>2. Now \in Device!Card
    <3>1. h.pin \in BOOLEAN /\ h.card_clock_enabled \in BOOLEAN
      BY <1>2 DEF Hosts
    <3>2. storage.initialized \in BOOLEAN
      BY <1>5 DEF Storages
    <3>3. (sd_mode = SD_INIT_FAIL) \in BOOLEAN
      OBVIOUS
    <3> QED BY <1>b, <3>1, <3>2, <3>3 DEF Now, Device!Card
  <2>3. /\ console \in Consoles /\ op \in {"init", "end", "io"}
        /\ pc \in Commands \cup {"lowVoltage", "idle", "init", "slower"}
        /\ entry = Now
    BY <1>a DEF Rest
  <2> QED BY <1>2, <1>3, <1>5, <1>b, <2>1, <2>2, <2>3 DEF TypeOK
<1>7. PowerInv
  BY <1>3, <1>4, <1>5, <1>a DEF Rest, PowerInv, On, Live, Commands
<1>8. VoltInv
  BY <1>3, VoltsDiffer DEF VoltInv, NeverOverdriven
<1>9. CallInv
  BY <1>5, <1>a DEF Rest, CallInv, Live, Commands
<1>10. TrimInv
  BY <1>5, <1>a DEF Rest, TrimInv, Live, Commands
<1>11. ~Live
  BY <1>a DEF Rest, Live, Commands
<1> QED BY <1>5, <1>6, <1>7, <1>8, <1>9, <1>10, <1>11, Dead DEF Inv

LEMMA DeadNext ==
  ASSUME ~Live', ~storage'.initialized
  PROVE  HighInv' /\ LowInv' /\ CardInv' /\ ReadyInv'
BY DEF HighInv, LowInv, CardInv, ReadyInv, ReadyAgrees, Ready

\* A ready card that stays as it is, but perhaps for a fault.
LEMMA ReadyKept ==
  ASSUME ReadyInv, UNCHANGED <<console, card, storage, rounds>>,
         SameClock(h', h), SameTiming(h', h),
         h'.trim = h.trim, h'.width = h.width,
         h'.pwrcon = h.pwrcon, h'.cal = h.cal, h'.pwr_det = h.pwr_det,
         h'.io_on = h.io_on, h'.ldo2_on = h.ldo2_on, h'.ldo2 = h.ldo2,
         h.fault => h'.fault
  PROVE  ReadyInv'
<1>1. CardFrequency(h)' = CardFrequency(h)
  BY DEF SameClock, CardFrequency
<1>2. Limit' = Limit /\ On' = On /\ Ready' = Ready
  BY DEF Limit, On, Ready
<1>3. Ready => ModesAgree'
  BY DEF ReadyInv, ReadyAgrees, ModesAgree, SameTiming
<1>4. Ready /\ ~h'.fault => VoltagesAgree'
  BY DEF ReadyInv, ReadyAgrees, VoltagesAgree, SameTiming
<1>5. Ready /\ rounds = 2 => h'.trim = console.soc
  BY DEF ReadyInv, ReadyAgrees
<1> QED
  BY <1>1, <1>2, <1>3, <1>4, <1>5 DEF ReadyInv, ReadyAgrees

LEMMA CallEndInv == Inv /\ CallEnd => Inv'
<1> SUFFICES ASSUME Inv, CallEnd PROVE Inv'
  OBVIOUS
<1> USE DEF Inv
<1>1. /\ pc = "idle" /\ pc' = "idle" /\ op' = "end" /\ entry' = Now
      /\ UNCHANGED <<console, sd_mode, looping, is_version_1, cut, rounds>>
      /\ ~Live' /\ result' \in BOOLEAN
  BY DEF CallEnd, Live, Commands
<1>2. CASE EndDone /\ result' = TRUE
  <2>1. /\ h' \in Hosts /\ h'.pin = FALSE /\ ~h'.card_clock_enabled
        /\ h'.clock_stopped /\ h'.t210b01 = h.t210b01
        /\ card' = OffCard /\ card' \in Cards
        /\ storage' \in Storages /\ ~storage'.initialized
    BY <1>2, PowerCycleIs
  <2>2. TypeOK'
    BY <1>1, <2>1, NowTyped DEF TypeOK
  <2>3. PowerInv'
    BY <1>1, <2>1, OffCardIs DEF PowerInv, On
  <2>4. VoltInv'
    BY <2>1, OffCardIs, VoltsDiffer DEF VoltInv, NeverOverdriven
  <2>5. CallInv'
    BY <1>1, <2>1 DEF CallInv
  <2>6. TrimInv'
    BY <1>1, <2>1 DEF TrimInv
  <2> QED
    BY <1>1, <2>1, <2>2, <2>3, <2>4, <2>5, <2>6, DeadNext
<1>3. CASE EndFailed /\ result' = FALSE
  <2>1. TypeOK'
    BY <1>1, <1>3, EndFailedIs, NowTyped DEF TypeOK
  <2>2. PowerInv'
    BY <1>1, <1>3, EndFailedIs DEF PowerInv, On
  <2>3. VoltInv'
    BY <1>1, <1>3, EndFailedIs DEF VoltInv, NeverOverdriven
  <2>4. CallInv'
    BY <1>1, <1>3, EndFailedIs DEF CallInv
  <2>5. TrimInv'
    BY <1>1, <1>3, EndFailedIs DEF TrimInv
  <2>6. ReadyInv'
    BY <1>1, <1>3, EndFailedIs, ReadyKept
  <2>7. HighInv' /\ LowInv' /\ CardInv'
    BY <1>1 DEF HighInv, LowInv, CardInv
  <2> QED BY <2>1, <2>2, <2>3, <2>4, <2>5, <2>6, <2>7
<1> QED BY <1>2, <1>3 DEF CallEnd

LEMMA CallInitializeInv == Inv /\ CallInitialize => Inv'
<1> SUFFICES ASSUME Inv, CallInitialize PROVE Inv'
  OBVIOUS
<1> USE DEF Inv
<1>1. /\ pc = "idle" /\ pc' = "init" /\ op = "end" /\ result /\ op' = "init"
      /\ entry' = Now /\ looping' = TRUE
      /\ UNCHANGED <<console, h, card, storage, sd_mode, is_version_1, result,
                     cut, rounds>>
      /\ ~Live' /\ ~storage.initialized
  BY DEF CallInitialize, Next_, hwVars, Live, Commands, CallInv
<1>2. TypeOK'
  BY <1>1, NowTyped DEF TypeOK
<1>3. PowerInv'
  BY <1>1 DEF PowerInv, On
<1>4. VoltInv'
  BY <1>1 DEF VoltInv, NeverOverdriven
<1>5. CallInv'
  BY <1>1 DEF CallInv, Now
<1>6. TrimInv'
  BY <1>1 DEF TrimInv
<1> QED BY <1>1, <1>2, <1>3, <1>4, <1>5, <1>6, DeadNext

\* A power cycle before a bring-up.
LEMMA CycleInv ==
  ASSUME Inv, PowerCycle, pc' = "init", op' \in {"init", "io"},
         pc \in {"idle", "slower"},
         UNCHANGED <<console, is_version_1, result, cut, rounds>>,
         sd_mode' \in 0..4, looping' \in BOOLEAN, entry' \in Device!Card,
         entry'.cut = cut, entry'.exhausted => sd_mode' = SD_INIT_FAIL,
         op' = "init" => looping' /\ ~storage.initialized /\ ~entry'.exhausted,
         op' = "io" => entry'.initialized
  PROVE  Inv'
<1> USE DEF Inv
<1>1. ~Live'
  BY DEF Live, Commands
<1>2. CASE EndDone
  <2>1. /\ h' \in Hosts /\ h'.pin = FALSE /\ ~h'.card_clock_enabled
        /\ h'.clock_stopped /\ h'.t210b01 = h.t210b01
        /\ card' = OffCard /\ card' \in Cards
        /\ storage' \in Storages /\ ~storage'.initialized
    BY <1>2, PowerCycleIs
  <2>2. TypeOK'
    BY <2>1 DEF TypeOK
  <2>3. PowerInv'
    BY <1>1, <2>1, OffCardIs DEF PowerInv, On
  <2>4. VoltInv'
    BY <2>1, OffCardIs, VoltsDiffer DEF VoltInv, NeverOverdriven
  <2>5. CallInv'
    BY <1>1, <2>1 DEF CallInv
  <2>6. TrimInv'
    BY <1>1, <2>1 DEF TrimInv
  <2> QED
    BY <1>1, <2>1, <2>2, <2>3, <2>4, <2>5, <2>6, DeadNext
<1>3. CASE EndFailed
  <2>1. TypeOK'
    BY <1>3, EndFailedIs DEF TypeOK
  <2>2. PowerInv'
    BY <1>1, <1>3, EndFailedIs DEF PowerInv, On
  <2>3. VoltInv'
    <3>1. card.volt = SDMMC_POWER_1_8 => h'.fault
      BY <1>3, EndFailedIs, OffCardIs, VoltsDiffer DEF PowerInv
    <3> QED
      BY <1>3, <3>1, EndFailedIs DEF VoltInv, NeverOverdriven
  <2>4. CallInv'
    BY <1>1, <1>3, EndFailedIs DEF CallInv
  <2>5. TrimInv'
    BY <1>1, <1>3, EndFailedIs DEF TrimInv
  <2>6. ReadyInv'
    BY <1>3, EndFailedIs, ReadyKept
  <2>7. HighInv' /\ LowInv' /\ CardInv'
    BY <1>1 DEF HighInv, LowInv, CardInv
  <2> QED BY <2>1, <2>2, <2>3, <2>4, <2>5, <2>6, <2>7
<1> QED BY <1>2, <1>3 DEF PowerCycle

LEMMA CallReinitializeInv == Inv /\ CallReinitialize => Inv'
<1> SUFFICES ASSUME Inv, CallReinitialize PROVE Inv'
  OBVIOUS
<1> USE DEF Inv
<1>1. /\ pc = "idle" /\ pc' = "init" /\ op' = "io" /\ PowerCycle
      /\ entry' = Now /\ Now.initialized /\ Now.cut = cut
      /\ UNCHANGED <<console, is_version_1, result, cut, rounds>>
  BY DEF CallReinitialize, Next_, Now
<1>2. sd_mode' \in 0..4 /\ looping' \in BOOLEAN
      /\ (sd_mode = SD_INIT_FAIL => sd_mode' = SD_INIT_FAIL)
  <2>1. CASE looping' = TRUE /\ UNCHANGED sd_mode
    BY <2>1 DEF TypeOK
  <2>2. CASE looping' = FALSE /\ sd_mode > SD_INIT_FAIL /\ sd_mode' = sd_mode - 1
    <3>1. sd_mode \in 0..4
      BY DEF TypeOK
    <3>2. sd_mode' \in 0..4 /\ sd_mode # SD_INIT_FAIL
      BY <2>2, <3>1 DEF SD_INIT_FAIL
    <3> QED BY <2>2, <3>2
  <2> QED BY <2>1, <2>2 DEF CallReinitialize
<1>3. Now.exhausted = (sd_mode = SD_INIT_FAIL)
  BY DEF Now
<1> QED BY <1>1, <1>2, <1>3, NowTyped, CycleInv

LEMMA NextSpeedInv == Inv /\ NextSpeed => Inv'
<1> SUFFICES ASSUME Inv, NextSpeed PROVE Inv'
  OBVIOUS
<1> USE DEF Inv
<1>1. /\ pc = "slower" /\ pc' = "init" /\ PowerCycle
      /\ UNCHANGED <<console, is_version_1, result, cut, rounds, op, looping,
                     entry>>
      /\ sd_mode' = sd_mode - 1
  BY DEF NextSpeed, Next_, callVars
<1>2. /\ op \in {"init", "io"} /\ ~storage.initialized /\ looping
      /\ entry.cut = cut /\ sd_mode # SD_INIT_FAIL /\ ~entry.exhausted
      /\ op = "io" => entry.initialized
  BY <1>1 DEF CallInv
<1>3. sd_mode' \in 0..4
  BY <1>1, <1>2 DEF TypeOK, SD_INIT_FAIL
<1> QED BY <1>1, <1>2, <1>3, CycleInv DEF TypeOK

LEMMA NoSpeedLeftInv == Inv /\ NoSpeedLeft => Inv'
<1> SUFFICES ASSUME Inv, NoSpeedLeft PROVE Inv'
  OBVIOUS
<1> USE DEF Inv
<1>1. /\ pc = "init" /\ pc' = "idle" /\ result' = FALSE
      /\ UNCHANGED <<console, h, card, storage, sd_mode, op, looping, entry,
                     is_version_1, cut, rounds>>
      /\ ~Live'
  BY DEF NoSpeedLeft, Failed, Return, hwVars, callVars, Live, Commands
<1>2. TypeOK'
  BY <1>1 DEF TypeOK
<1>3. PowerInv'
  BY <1>1 DEF PowerInv, On
<1>4. VoltInv'
  BY <1>1 DEF VoltInv, NeverOverdriven
<1>5. CallInv'
  BY <1>1 DEF CallInv
<1>6. TrimInv'
  BY <1>1 DEF TrimInv
<1>7. ReadyInv'
  BY <1>1, ReadyKept DEF SameClock, SameTiming
<1>8. HighInv' /\ LowInv' /\ CardInv'
  BY <1>1 DEF HighInv, LowInv, CardInv
<1> QED BY <1>2, <1>3, <1>4, <1>5, <1>6, <1>7, <1>8

-----------------------------------------------------------------------------
(* The bring-up                                                            *)

LEMMA SocTyped == TypeOK => console.soc \in Socs
BY ConsolesAssumption DEF TypeOK, Socs

LEMMA SdmmcInitInv == Inv /\ sdmmc_init_ => Inv'
<1> SUFFICES ASSUME Inv, sdmmc_init_ PROVE Inv'
  OBVIOUS
<1> USE DEF Inv
<1>1. PICK r \in sdmmc_init(h, console.soc) :
        PowerTo(r.h) /\ IF r.ok THEN Next_("goIdle") ELSE Failed
  BY DEF sdmmc_init_
<1>2. /\ pc = "init" /\ sd_mode # SD_INIT_FAIL /\ storage' = Zero
      /\ rounds' = IF rounds < 2 THEN rounds + 1 ELSE rounds
      /\ UNCHANGED <<console, sd_mode, op, looping, entry, cut, is_version_1>>
  BY DEF sdmmc_init_, Keep, callVars
<1>3. /\ storage' \in Storages /\ ~storage'.initialized
      /\ ~storage'.is_low_voltage
  BY <1>2 DEF Zero, Storages
<1>4. /\ r.h \in Hosts /\ (h.fault => r.h.fault)
      /\ r.h.t210b01 = (console.soc = "Mariko")
      /\ \/ /\ ~r.ok /\ r.h.clock_stopped /\ ~r.h.card_clock_enabled
         \/ /\ r.h.pin /\ ~r.h.clock_stopped
            /\ ~r.ok => ~r.h.card_clock_enabled
      /\ r.ok =>
           /\ r.h.pin /\ ~r.h.clock_stopped /\ r.h.card_clock_enabled
           /\ r.h.trim = Trim(h.t210b01)
           /\ r.h.width = 1 /\ r.h.cal = SDMMC_POWER_3_3
           /\ r.h.pwrcon = SDMMC_POWER_3_3
           /\ ~r.h.hispd /\ ~r.h.vdd_180 /\ r.h.tap = "fixed"
           /\ r.h.source = HostClock(CardClock["SD_ID"].clock)
           /\ r.h.known = CardClock["SD_ID"].clock /\ r.h.div = 32
           /\ ~r.h.fault => /\ r.h.ldo2 = SDMMC_POWER_3_3 /\ r.h.ldo2_on
                            /\ r.h.io_on /\ r.h.pwr_det = SDMMC_POWER_3_3
  BY SocTyped, SdmmcInitIs DEF TypeOK
<1>5. /\ h' = r.h /\ card' \in Cards
      /\ ~h'.pin => card' = OffCard
      /\ h'.pin => /\ card'.st # "off"
                   /\ card'.volt = card.volt \/ card'.volt = SDMMC_POWER_3_3
  BY <1>1, <1>4, PowerToIs
<1>6. /\ r.ok => pc' = "goIdle" /\ UNCHANGED result
      /\ ~r.ok => /\ pc' \in {"slower", "idle"} /\ result' \in {result, FALSE}
                  /\ pc' = "slower" => looping
  BY <1>1, FailedIs DEF Next_
<1>7. Live' <=> r.ok
  BY <1>6 DEF Live, Commands
<1>8. card'.volt = SDMMC_POWER_1_8 => h'.fault
  <2>1. card.volt = SDMMC_POWER_1_8 => h.fault
    BY <1>2 DEF VoltInv
  <2> QED BY <2>1, <1>4, <1>5, OffCardIs, VoltsDiffer
<1>9. TypeOK'
  <2>1. rounds' \in 0..2
    BY <1>2 DEF TypeOK
  <2>2. pc' \in Commands \cup {"lowVoltage", "idle", "init", "slower"}
    BY <1>6 DEF Commands
  <2>3. result' \in BOOLEAN
    BY <1>6 DEF TypeOK
  <2> QED BY <1>2, <1>3, <1>4, <1>5, <2>1, <2>2, <2>3 DEF TypeOK
<1>10. PowerInv'
  <2>1. h'.pin = On'
    BY <1>4, <1>5, OffCardIs DEF On, Hosts
  <2> QED BY <1>3, <1>4, <1>5, <1>7, <2>1 DEF PowerInv, On
<1>11. VoltInv'
  BY <1>8 DEF VoltInv, NeverOverdriven
<1>12. CallInv'
  BY <1>2, <1>3, <1>6 DEF CallInv
<1>13. TrimInv'
  <2>1. rounds' > 0 => h'.t210b01 = (console.soc = "Mariko")'
    BY <1>2, <1>4, <1>5
  <2>2. ASSUME Live', rounds' = 2 PROVE h'.trim = console.soc
    <3>1. rounds > 0
      BY <1>2, <2>2 DEF TypeOK
    <3>2. h.t210b01 = (console.soc = "Mariko")
      BY <3>1 DEF TrimInv
    <3> QED BY <1>4, <1>5, <1>7, <2>2, <3>2, SocTyped DEF Trim, Socs
  <2> QED BY <1>2, <1>3, <2>1, <2>2 DEF TrimInv
<1>14. HighInv'
  <2> SUFFICES ASSUME r.ok PROVE HighInv'
    BY <1>7 DEF HighInv
  <2>1. pc' = "goIdle"
    BY <1>6
  <2>2. Plain'
    BY <1>4, <1>5 DEF Plain
  <2>3. CardClock["SD_ID"].clock = 25000
    BY ClockTable
  <2>4. Slow'
    BY <1>4, <1>5, <2>3 DEF Slow
  <2>5. ~h'.fault => VoltagesAgree' /\ card'.volt = SDMMC_POWER_3_3
    <3>1. ~h'.fault => card'.volt = SDMMC_POWER_3_3
      BY <1>5, <1>8 DEF Cards, Volts
    <3>2. h'.vdd_180 = FALSE
      BY <1>4, <1>5, <2>2 DEF Plain, Hosts
    <3>3. ~h'.fault =>
            /\ h'.ldo2_on /\ h'.io_on /\ h'.ldo2 = SDMMC_POWER_3_3
            /\ h'.pwrcon = SDMMC_POWER_3_3 /\ h'.pwr_det = SDMMC_POWER_3_3
            /\ h'.cal = SDMMC_POWER_3_3
      BY <1>4, <1>5
    <3> QED BY <3>1, <3>2, <3>3, VoltsDiffer DEF VoltagesAgree
  <2> QED BY <2>1, <2>2, <2>4, <2>5 DEF HighInv, Identifying
<1>15. LowInv'
  BY <1>3 DEF LowInv
<1>16. CardInv'
  BY <1>4, <1>5, <1>6, <1>7 DEF CardInv, Identifying
<1>17. ReadyInv'
  BY <1>3 DEF ReadyInv, ReadyAgrees, Ready
<1> QED
  BY <1>9, <1>10, <1>11, <1>12, <1>13, <1>14, <1>15, <1>16, <1>17

LEMMA CommandFailsInv == Inv /\ CommandFails => Inv'
<1> SUFFICES ASSUME Inv, CommandFails PROVE Inv'
  OBVIOUS
<1> USE DEF Inv
<1>1. /\ Live /\ Failed /\ Keep
      /\ UNCHANGED <<h, card, storage, is_version_1, rounds>>
  BY DEF CommandFails, KeepAll, hwVars, Live
<1>2. ~storage'.initialized /\ SameSupply(h', h) /\ NeverOverdriven'
  BY <1>1, LiveFacts DEF SameSupply, VoltInv, NeverOverdriven
<1>3. TypeOK'
  BY <1>1, FailedIs DEF TypeOK, Keep, callVars
<1> QED BY <1>1, <1>2, <1>3, GivesUp

\* A step of the identification before the voltage switch: the host stays as it
\* is.
LEMMA Identifies ==
  ASSUME Inv, pc \in Unswitched \ {"lowVoltage"},
         pc' \in Identifying \ {"goIdle"},
         pc' \in {"switchVoltage", "lowVoltage"} => bus_low_voltage_support,
         Keep, UNCHANGED <<h, rounds, result>>, is_version_1' \in BOOLEAN,
         storage' \in Storages, storage'.initialized = storage.initialized,
         storage'.is_low_voltage = storage.is_low_voltage,
         card' \in Cards, card'.volt = card.volt,
         (card'.st = "off") = (card.st = "off"),
         card.st = "off" => card' = card,
         card'.st # "off" /\ (~card'.switching \/ pc' = "lowVoltage")
           => card'.width = h.width /\ card'.mode = 12
  PROVE  Inv'
<1> USE DEF Inv
<1>1. Live /\ Live'
  BY DEF Live, Commands, Unswitched, Identifying
<1>2. ~storage.initialized /\ SameSupply(h', h) /\ NeverOverdriven'
  BY <1>1, LiveFacts DEF SameSupply, VoltInv, NeverOverdriven
<1>3. PowerInv' /\ VoltInv' /\ CallInv' /\ TrimInv' /\ ReadyInv'
  BY <1>1, <1>2, GoesOn
<1>4. TypeOK'
  BY <1>1 DEF TypeOK, Keep, callVars, Live
<1>5. /\ VoltagesAgree' = VoltagesAgree /\ Plain' = Plain /\ Slow' = Slow
      /\ bus_low_voltage_support' = bus_low_voltage_support /\ On' = On
  BY DEF VoltagesAgree, Plain, Slow, bus_low_voltage_support, bus_width, type,
         On, Keep
<1>6. HighInv'
  BY <1>1, <1>5 DEF HighInv, Unswitched, Identifying
<1>7. LowInv'
  BY <1>1, <1>5 DEF LowInv
<1>8. CardInv'
  BY DEF CardInv, On
<1> QED BY <1>3, <1>4, <1>6, <1>7, <1>8

LEMMA go_idle_stateInv == Inv /\ go_idle_state => Inv'
<1> SUFFICES ASSUME Inv, go_idle_state PROVE Inv'
  OBVIOUS
<1>1. /\ pc = "goIdle" /\ pc' = "ifCond" /\ card' = Idled(card)
      /\ Keep /\ UNCHANGED <<h, storage, is_version_1, rounds, result>>
  BY DEF go_idle_state, Next_, KeepAll
<1>2. card \in Cards /\ storage' \in Storages /\ is_version_1' \in BOOLEAN
  BY <1>1 DEF Inv, TypeOK
<1>3. /\ card' \in Cards /\ card'.volt = card.volt
      /\ card'.switching = card.switching
      /\ (card'.st = "off") = (card.st = "off")
      /\ card.st = "off" => card' = card
      /\ card.st # "off" /\ ~card.switching => card'.width = 1 /\ card'.mode = 12
  BY <1>1, <1>2, IdledIs
<1>4. card.st # "off" => h.width = 1
  BY <1>1 DEF Inv, CardInv, Live, Commands, On
<1> QED
  BY <1>1, <1>2, <1>3, <1>4, Identifies DEF Unswitched, Identifying

LEMMA IfCondFailsInv == Inv /\ IfCondFails => Inv'
<1> SUFFICES ASSUME Inv, IfCondFails PROVE Inv'
  OBVIOUS
<1>1. /\ pc = "ifCond" /\ pc' = "opCond" /\ is_version_1' = TRUE
      /\ Keep /\ UNCHANGED <<h, card, storage, rounds, result>>
  BY DEF IfCondFails, Next_, hwVars
<1>2. card' \in Cards /\ storage' \in Storages /\ is_version_1' \in BOOLEAN
  BY <1>1 DEF Inv, TypeOK
<1>3. card.st # "off" /\ ~card.switching => card.width = h.width /\ card.mode = 12
  BY <1>1 DEF Inv, CardInv, Live, Commands, On
<1> QED BY <1>1, <1>2, <1>3, Identifies DEF Unswitched, Identifying

LEMMA send_if_condInv == Inv /\ send_if_cond => Inv'
<1> SUFFICES ASSUME Inv, send_if_cond PROVE Inv'
  OBVIOUS
<1>1. /\ pc = "ifCond" /\ Keep /\ UNCHANGED <<h, card, storage, rounds>>
  BY DEF send_if_cond, Answers, hwVars
<1>2. card' \in Cards /\ storage' \in Storages
  BY <1>1 DEF Inv, TypeOK
<1>3. card.st # "off" /\ ~card.switching => card.width = h.width /\ card.mode = 12
  BY <1>1 DEF Inv, CardInv, Live, Commands, On
<1>4. CASE is_version_1' = FALSE /\ Next_("opCond")
  BY <1>1, <1>2, <1>3, <1>4, Identifies DEF Unswitched, Identifying, Next_
<1>5. CASE Failed /\ UNCHANGED is_version_1
  <2>1. Live /\ TypeOK'
    BY <1>1, <1>5, FailedIs DEF Inv, TypeOK, Keep, callVars, Live, Commands
  <2>2. ~storage'.initialized /\ SameSupply(h', h) /\ NeverOverdriven'
    BY <1>1, <2>1, LiveFacts DEF SameSupply, Inv, VoltInv, NeverOverdriven
  <2> QED BY <1>1, <1>5, <2>1, <2>2, GivesUp DEF Inv
<1> QED BY <1>4, <1>5 DEF send_if_cond

LEMMA get_op_condInv == Inv /\ get_op_cond => Inv'
<1> SUFFICES ASSUME Inv, get_op_cond PROVE Inv'
  OBVIOUS
<1>1. /\ pc = "opCond" /\ card.st # "off" /\ ~card.switching
      /\ card' = [card EXCEPT !.st = "ready"]
      /\ storage' = [storage EXCEPT !.has_sector_access = console.hc]
      /\ pc' = IF SwitchAgreed THEN "switchVoltage" ELSE "cid"
      /\ Keep /\ UNCHANGED <<h, is_version_1, rounds, result>>
  BY DEF get_op_cond, Answers, Next_
<1>2. card \in Cards /\ storage \in Storages /\ is_version_1' \in BOOLEAN
  BY <1>1 DEF Inv, TypeOK
<1>3. console.hc \in BOOLEAN
  BY ConsolesAssumption DEF Inv, TypeOK
<1>4. /\ card' \in Cards /\ card'.st = "ready" /\ card'.volt = card.volt
      /\ card'.width = card.width /\ card'.mode = card.mode
  BY <1>1, <1>2 DEF Cards, States
<1>5. /\ storage' \in Storages /\ storage'.initialized = storage.initialized
      /\ storage'.is_low_voltage = storage.is_low_voltage
  BY <1>1, <1>2, <1>3 DEF Storages
<1>6. card.width = h.width /\ card.mode = 12
  BY <1>1 DEF Inv, CardInv, Live, Commands, On
<1>7. pc' \in {"switchVoltage", "cid"}
      /\ (pc' = "switchVoltage" => bus_low_voltage_support)
  BY <1>1 DEF SwitchAgreed
<1> QED
  BY <1>1, <1>2, <1>4, <1>5, <1>6, <1>7, Identifies DEF Unswitched, Identifying

LEMMA SwitchInv == Inv /\ (SwitchAnswered \/ SwitchFails) => Inv'
<1> SUFFICES ASSUME Inv, SwitchAnswered \/ SwitchFails PROVE Inv'
  OBVIOUS
<1>1. /\ pc = "switchVoltage"
      /\ Keep /\ UNCHANGED <<h, storage, is_version_1, rounds, result>>
  BY DEF SwitchAnswered, SwitchFails, Answers, Next_, KeepAll
<1>2. card \in Cards /\ storage' \in Storages /\ is_version_1' \in BOOLEAN
  BY <1>1 DEF Inv, TypeOK
<1>3. card.st # "off" /\ ~card.switching => card.width = h.width /\ card.mode = 12
  BY <1>1 DEF Inv, CardInv, Live, Commands, On
<1>4. CASE UNCHANGED card /\ pc' = "cid"
  BY <1>1, <1>2, <1>3, <1>4, Identifies DEF Unswitched, Identifying
<1>5. CASE /\ card.st # "off" /\ ~card.switching /\ pc' \in {"cid", "lowVoltage"}
           /\ card' = [card EXCEPT !.switching = TRUE]
           /\ pc' = "lowVoltage" => bus_low_voltage_support
  <2>1. /\ card' \in Cards /\ card'.st = card.st /\ card'.volt = card.volt
        /\ card'.width = card.width /\ card'.mode = card.mode
        /\ card'.switching
    BY <1>2, <1>5 DEF Cards
  <2> QED
    BY <1>1, <1>2, <1>3, <1>5, <2>1, Identifies DEF Unswitched, Identifying
<1>6. card.st # "off" => bus_low_voltage_support
  BY <1>1 DEF Inv, HighInv, LowInv, Live, Commands, On, Unswitched
<1> QED
  BY <1>4, <1>5, <1>6 DEF SwitchAnswered, SwitchFails, Answers, Next_

LEMMA enable_low_voltageInv == Inv /\ enable_low_voltage => Inv'
<1> SUFFICES ASSUME Inv, enable_low_voltage PROVE Inv'
  OBVIOUS
<1> USE DEF Inv
<1>1. /\ pc = "lowVoltage" /\ h' \in sdmmc_enable_low_voltage(h)
      /\ Keep /\ UNCHANGED <<is_version_1, rounds>>
  BY DEF enable_low_voltage
<1>2. Live /\ h \in Hosts /\ card \in Cards /\ storage \in Storages
  BY <1>1 DEF Live, TypeOK
<1>3. /\ h' \in Hosts
      /\ h'.card_clock_enabled = h.card_clock_enabled
      /\ h'.clock_stopped = h.clock_stopped
      /\ h'.t210b01 = h.t210b01 /\ h'.trim = h.trim
      /\ h'.width = h.width /\ h'.pin = h.pin /\ (h.fault => h'.fault)
      /\ h'.hispd = h.hispd /\ h'.vdd_180 /\ h'.uhs = 12 /\ h'.tap = "fixed"
      /\ h'.div = 0
      /\ Knows(h) => h'.source = HostClock(25000) /\ h'.known = 25000
      /\ ~h'.fault => h'.ldo2 = SDMMC_POWER_1_8 /\ h'.ldo2_on = h.ldo2_on
      /\ h'.io_on = h.io_on /\ h'.cal = SDMMC_POWER_1_8
      /\ h'.pwrcon = SDMMC_POWER_1_8 /\ h'.pwr_det = SDMMC_POWER_1_8
  BY <1>1, <1>2, LowVoltageIs
<1>4. NeverOverdriven' /\ SameSupply(h', h)
  BY <1>3 DEF NeverOverdriven, SameSupply
<1>5. CASE /\ card.st # "off"
           /\ card' = [card EXCEPT !.volt = SDMMC_POWER_1_8,
                                   !.switching = FALSE]
           /\ storage' = [storage EXCEPT !.is_low_voltage = TRUE]
           /\ pc' = "cid" /\ UNCHANGED result
  <2>1. /\ card' \in Cards /\ card'.st = card.st
        /\ card'.volt = SDMMC_POWER_1_8
        /\ card'.width = card.width /\ card'.mode = card.mode
    BY <1>2, <1>5, VoltsDiffer DEF Cards
  <2>2. /\ storage' \in Storages /\ storage'.is_low_voltage
        /\ storage'.initialized = storage.initialized
    BY <1>2, <1>5 DEF Storages
  <2>3. Live' /\ ~storage'.initialized
    BY <1>2, <1>5, <2>2, LiveFacts DEF Live, Commands
  <2>4. PowerInv' /\ VoltInv' /\ CallInv' /\ TrimInv' /\ ReadyInv'
    BY <1>1, <1>2, <1>4, <1>5, <2>1, <2>3, GoesOn
  <2>5. TypeOK'
    BY <1>1, <1>3, <1>5, <2>1, <2>2 DEF TypeOK, Keep, callVars, Commands
  <2>6. /\ ~storage.is_low_voltage /\ Plain /\ Slow /\ bus_low_voltage_support
        /\ ~h.fault => VoltagesAgree
    BY <1>1, <1>2, <1>5 DEF HighInv, LowInv, On, Unswitched, Identifying
  <2>7. HighInv'
    BY <2>2 DEF HighInv
  <2>8. bus_low_voltage_support'
    BY <1>1, <2>6 DEF bus_low_voltage_support, bus_width, type, Keep
  <2>9. Default' /\ Uhs(12)'
    BY <1>3, <2>6 DEF Default, Uhs, Slow, Plain, Knows
  <2>10. ~h'.fault => VoltagesAgree'
    <3>1. h'.vdd_180 = TRUE
      BY <1>3 DEF Hosts
    <3>2. ~h'.fault => h.ldo2_on /\ h.io_on
      BY <1>3, <2>6 DEF VoltagesAgree
    <3>3. ~h'.fault =>
            /\ h'.ldo2_on /\ h'.io_on /\ h'.ldo2 = SDMMC_POWER_1_8
            /\ h'.pwrcon = SDMMC_POWER_1_8 /\ h'.pwr_det = SDMMC_POWER_1_8
            /\ h'.cal = SDMMC_POWER_1_8
      BY <1>3, <3>2
    <3> QED BY <2>1, <3>1, <3>3 DEF VoltagesAgree
  <2>11. LowInv'
    BY <1>3, <1>5, <2>1, <2>8, <2>9, <2>10 DEF LowInv, Unswitched
  <2>12. CardInv'
    BY <1>1, <1>2, <1>3, <1>5, <2>1 DEF CardInv, On, Identifying
  <2> QED BY <2>4, <2>5, <2>7, <2>11, <2>12
<1>6. CASE Failed /\ UNCHANGED <<card, storage>>
  <2>0. pc' \in {"slower", "idle"} /\ result' \in {result, FALSE}
    BY <1>6, FailedIs
  <2>1. TypeOK'
    <3>1. h' \in Hosts
      BY <1>3
    <3> QED BY <1>1, <1>6, <2>0, <3>1 DEF TypeOK, Keep, callVars
  <2>2. ~storage'.initialized
    BY <1>2, <1>6, LiveFacts
  <2> QED BY <1>1, <1>2, <1>4, <1>6, <2>1, <2>2, GivesUp
<1> QED BY <1>5, <1>6 DEF enable_low_voltage, Next_

\* What a step behind the identification leaves, of the invariants that speak
\* of a live card at either voltage: the steps from SEND_SCR to SD_SWITCH_CHECK
\* touch the bus width alone.
LEMMA Proceeds ==
  ASSUME Inv, Live, Live', pc \notin Identifying \cup {"tuning", "status"},
         pc' \notin Identifying \cup {"tuning", "status"},
         Keep, UNCHANGED <<rounds, is_version_1, result, storage>>,
         h' \in Hosts, SameClock(h', h), SameTiming(h', h), SameSupply(h', h),
         h'.pwrcon = h.pwrcon, h'.cal = h.cal, h'.pwr_det = h.pwr_det,
         h'.io_on = h.io_on, h'.ldo2_on = h.ldo2_on, h'.ldo2 = h.ldo2,
         h'.fault = h.fault,
         card' \in Cards, card'.volt = card.volt,
         On, ~card.switching, card'.st \in {"stby", "tran"},
         card'.width = h'.width, card'.mode = card.mode
  PROVE  Inv'
<1> USE DEF Inv
<1>1. ~storage'.initialized /\ NeverOverdriven' /\ On'
  BY LiveFacts DEF VoltInv, NeverOverdriven, On
<1>2. PowerInv' /\ VoltInv' /\ CallInv' /\ TrimInv' /\ ReadyInv'
  BY <1>1, GoesOn DEF On
<1>3. TypeOK'
  BY DEF TypeOK, Keep, callVars, Live
<1>4. /\ VoltagesAgree' = VoltagesAgree /\ Plain' = Plain
      /\ Default' = Default /\ Uhs(12)' = Uhs(12) /\ h'.tap = h.tap
  BY DEF VoltagesAgree, Plain, Default, Uhs, SameClock, SameTiming
<1>5. bus_low_voltage_support' = bus_low_voltage_support
  BY DEF bus_low_voltage_support, bus_width, type, Keep
<1>6. HighInv'
  BY <1>1, <1>4, <1>5 DEF HighInv, Identifying
<1>7. LowInv'
  BY <1>1, <1>4, <1>5 DEF LowInv, Identifying, Unswitched
<1>8. CardInv'
  BY DEF CardInv, On, Identifying
<1> QED BY <1>2, <1>3, <1>6, <1>7, <1>8

\* A bring-up that ends, well, at the default speed.
LEMMA ReadyAtDefault ==
  ASSUME Inv, Live, Initialized, Keep, UNCHANGED <<rounds, is_version_1>>,
         pc \notin Identifying \cup {"tuning", "status"},
         ~storage.is_low_voltage,
         h' \in Hosts, SameClock(h', h), SameTiming(h', h), SameSupply(h', h),
         h'.pwrcon = h.pwrcon, h'.cal = h.cal, h'.pwr_det = h.pwr_det,
         h'.io_on = h.io_on, h'.ldo2_on = h.ldo2_on, h'.ldo2 = h.ldo2,
         h'.fault = h.fault,
         card' \in Cards, card'.volt = card.volt,
         On, ~card.switching, card'.st \in {"stby", "tran"},
         card'.width = h'.width, card'.mode = card.mode
  PROVE  Inv'
<1> USE DEF Inv
<1>1. /\ pc' = "idle" /\ result' = TRUE
      /\ storage' = [storage EXCEPT !.initialized = TRUE]
  BY DEF Initialized, Return
<1>2. storage' \in Storages
  BY <1>1 DEF TypeOK, Storages
<1>3. NeverOverdriven' /\ On'
  BY DEF VoltInv, NeverOverdriven, On
<1>4. PowerInv' /\ VoltInv' /\ CallInv' /\ TrimInv' /\ HighInv' /\ LowInv' /\ CardInv'
  BY <1>1, <1>3, Succeeds DEF On
<1>5. TypeOK'
  BY <1>1, <1>2 DEF TypeOK, Keep, callVars
<1>6. /\ VoltagesAgree' = VoltagesAgree /\ Plain' = Plain
      /\ Default' = Default
  BY DEF VoltagesAgree, Plain, Default, SameClock, SameTiming
<1>7. Default' /\ Plain' /\ (~h'.fault => VoltagesAgree') /\ card.mode = 12
  BY <1>6 DEF HighInv, CardInv, Identifying
<1>8. ModesAgree'
  <2>1. h'.hispd = FALSE /\ h'.vdd_180 = FALSE /\ h'.tap = "fixed"
    BY <1>7 DEF Plain, Hosts
  <2>2. card'.mode = 12 /\ h'.width = card'.width
    BY <1>7
  <2>3. h'.hispd = (card'.mode = 25 /\ ~h'.vdd_180)
    <3>1. (card'.mode = 25 /\ ~h'.vdd_180) = FALSE
      BY <2>2
    <3> QED BY <2>1, <3>1, Zenon
  <2>4. (card'.mode \in {50, 104}) = (h'.tap = "tuned")
    BY <2>1, <2>2
  <2> QED BY <2>1, <2>2, <2>3, <2>4 DEF ModesAgree
<1>9. rounds = 2 => h'.trim = console.soc
  BY DEF TrimInv, SameSupply
<1>10. CardFrequency(h)' <= Limit'
  <2>1. CardFrequency(h)' = 24727
    BY <1>7, Frequencies DEF Default
  <2>2. Limit' = 25000
    BY <1>7 DEF Limit
  <2> QED BY <2>1, <2>2
<1>11. ReadyInv'
  BY <1>7, <1>8, <1>9, <1>10 DEF ReadyInv, ReadyAgrees, Keep
<1> QED BY <1>4, <1>5, <1>11

\* A command behind the identification whose answer ends the bring-up.
LEMMA Refuses ==
  ASSUME Inv, Live, Failed, Keep, UNCHANGED <<rounds, is_version_1, storage>>,
         h' \in Hosts, SameSupply(h', h), h'.ldo2 = h.ldo2, h'.fault = h.fault,
         card' \in Cards, card'.volt = card.volt,
         (card'.st = "off") = (card.st = "off"),
         card.st = "off" => card' = card
  PROVE  Inv'
<1> USE DEF Inv
<1>1. NeverOverdriven' /\ ~storage'.initialized
  BY LiveFacts DEF VoltInv, NeverOverdriven
<1>2. pc' \in {"slower", "idle"} /\ result' \in {result, FALSE}
  BY FailedIs
<1>3. TypeOK'
  BY <1>2 DEF TypeOK, Keep, callVars
<1> QED BY <1>1, <1>3, GivesUp

LEMMA RowCommandInv == Inv /\ RowCommand => Inv'
<1> SUFFICES ASSUME Inv, RowCommand PROVE Inv'
  OBVIOUS
<1> USE DEF Inv
<1>1. /\ pc \in DOMAIN Row /\ On /\ ~card.switching
      /\ card' = [card EXCEPT !.st = Row[pc].to] /\ pc' = Row[pc].next
      /\ h' = IF pc = "csd" /\ ~storage.is_low_voltage
              THEN sdmmc_setup_clock(h, "SD_DS12") ELSE h
      /\ Keep /\ UNCHANGED <<storage, is_version_1, rounds, result>>
  BY DEF RowCommand, Answers, Next_, KeepAll, On
<1>2. /\ pc \in {"cid", "rca", "csd", "select", "blocklen", "cardDetect"}
      /\ Row[pc].to \in {"ident", "stby", "tran"}
      /\ pc' \in {"rca", "csd", "select", "blocklen", "cardDetect", "scr"}
      /\ pc \in {"cid", "rca"} => pc' \in {"rca", "csd"}
      /\ pc \notin {"cid", "rca"} =>
           /\ pc' \in {"select", "blocklen", "cardDetect", "scr"}
           /\ Row[pc].to \in {"stby", "tran"}
  BY <1>1, RowIs
<1>3. Live /\ Live'
  BY <1>2 DEF Live, Commands
<1>4. /\ card' \in Cards /\ card'.st = Row[pc].to /\ card'.volt = card.volt
      /\ card'.width = card.width /\ card'.mode = card.mode
      /\ card'.switching = card.switching
  BY <1>1, <1>2 DEF TypeOK, Cards, States
<1>5. card.width = h.width /\ card.mode = 12
  BY <1>1, <1>2, <1>3 DEF CardInv
<1>6. card.st # "off" /\ card'.st # "off"
  BY <1>1, <1>2, <1>4 DEF On
<1>7. CASE pc \in {"select", "blocklen", "cardDetect"}
  <2>1. h' = h
    BY <1>1, <1>7
  <2>2. SameClock(h', h) /\ SameTiming(h', h) /\ SameSupply(h', h) /\ h' \in Hosts
    BY <2>1 DEF SameClock, SameTiming, SameSupply, TypeOK
  <2> QED
    BY <1>1, <1>2, <1>3, <1>4, <1>5, <1>7, <2>1, <2>2, Proceeds
       DEF Identifying
<1>8. CASE pc \in {"cid", "rca", "csd"}
  <2> DEFINE set == pc = "csd" /\ ~storage.is_low_voltage
  <2>1. storage.is_low_voltage => Default
    BY <1>1, <1>3, <1>8 DEF LowInv
  <2>2. ~storage.is_low_voltage => Plain /\ Slow
    BY <1>1, <1>3, <1>8 DEF HighInv, Identifying
  <2>3. /\ h' \in Hosts /\ SameWires(h', h)
        /\ set => Default' /\ Plain'
        /\ ~set => h' = h
    <3>1. CASE set
      <4>1. /\ "SD_DS12" \in Timings /\ "SD_DS12" # "SD_ID"
            /\ CardClock["SD_DS12"].clock = 25000
        BY ClockTable DEF Timings
      <4>2. h' = sdmmc_setup_clock(h, "SD_DS12") /\ h \in Hosts
        BY <1>1, <3>1 DEF TypeOK
      <4>3. Knows(h)
        BY <2>2, <3>1 DEF Knows, Slow
      <4>4. /\ h' \in Hosts /\ SameWires(h', h) /\ h'.tap = "fixed"
            /\ h'.div = 0 /\ h'.source = HostClock(25000) /\ h'.known = 25000
            /\ ~h'.hispd /\ ~h'.vdd_180
        BY <4>1, <4>2, <4>3, SetupClockIs, TimingIs
      <4> QED BY <3>1, <4>4 DEF Default, Plain
    <3>2. CASE ~set
      <4>1. h' = h
        BY <1>1, <3>2
      <4> QED BY <3>2, <4>1 DEF SameWires, TypeOK
    <3> QED BY <3>1, <3>2
  <2>4. SameSupply(h', h) /\ NeverOverdriven' /\ ~storage'.initialized
    BY <1>1, <1>3, <1>4, <2>3, LiveFacts
       DEF SameSupply, SameWires, VoltInv, NeverOverdriven
  <2>5. PowerInv' /\ VoltInv' /\ CallInv' /\ TrimInv' /\ ReadyInv'
    BY <1>1, <1>3, <1>6, <2>4, GoesOn
  <2>6. TypeOK'
    BY <1>1, <1>3, <1>4, <2>3 DEF TypeOK, Keep, callVars, Live
  <2>7. HighInv'
    <3> SUFFICES ASSUME ~storage.is_low_voltage PROVE HighInv'
      BY <1>1 DEF HighInv
    <3>1. Plain /\ Slow /\ (~h.fault => VoltagesAgree /\ card.volt = SDMMC_POWER_3_3)
      BY <1>1, <1>3, <1>8 DEF HighInv, Identifying
    <3>2. Plain'
      BY <2>3, <3>1 DEF Plain
    <3>3. IF pc' \in Identifying THEN Slow' ELSE Default'
      BY <1>2, <1>8, <2>3, <3>1 DEF Identifying, Slow
    <3>4. ~h'.fault => VoltagesAgree' /\ card'.volt = SDMMC_POWER_3_3
      <4>1. h.vdd_180 = FALSE /\ h'.vdd_180 = FALSE
        BY <2>3, <3>1, <3>2 DEF Plain, TypeOK, Hosts
      <4> QED BY <1>4, <2>3, <3>1, <4>1 DEF VoltagesAgree, SameWires
    <3>5. pc' \notin {"tuning", "switchVoltage", "lowVoltage", "status"}
      BY <1>2
    <3> QED BY <3>2, <3>3, <3>4, <3>5 DEF HighInv
  <2>8. LowInv'
    <3> SUFFICES ASSUME storage.is_low_voltage PROVE LowInv'
      BY <1>1 DEF LowInv
    <3>1. h' = h
      BY <2>3
    <3>2. /\ bus_low_voltage_support' = bus_low_voltage_support
          /\ VoltagesAgree' = VoltagesAgree /\ Default' = Default
          /\ Uhs(12)' = Uhs(12)
      BY <1>1, <1>4, <3>1
         DEF bus_low_voltage_support, bus_width, type, Keep, VoltagesAgree,
             Default, Uhs
    <3> QED
      BY <1>1, <1>2, <1>3, <1>4, <1>8, <3>1, <3>2 DEF LowInv, Unswitched
  <2>9. CardInv'
    BY <1>2, <1>4, <1>5, <1>8, <2>3 DEF CardInv, Identifying, SameWires
  <2> QED BY <2>5, <2>6, <2>7, <2>8, <2>9
<1> QED BY <1>2, <1>7, <1>8

\* What a command that is answered behind the identification knows.
LEMMA AnsweredIs ==
  ASSUME Inv, Answers(pc),
         pc \in {"scr", "busWidth", "switchGet", "check", "set", "tuning",
                 "status"}
  PROVE  /\ Live /\ On /\ ~card.switching
         /\ card.width = h.width
         /\ card.st \in {"stby", "tran"}
         /\ pc \notin {"tuning", "status"} => card.mode = 12
<1>1. Live /\ On /\ ~card.switching
  BY DEF Answers, Live, On, Commands
<1> QED BY <1>1 DEF Inv, CardInv, Identifying

\* What follows the bus width.
LEMMA SpeedStepInv ==
  ASSUME Inv, Live, pc \in {"scr", "busWidth"}, NEW width, SpeedStep(width),
         Keep, UNCHANGED <<rounds, is_version_1>>,
         h' \in Hosts, SameClock(h', h), SameTiming(h', h), SameSupply(h', h),
         h'.pwrcon = h.pwrcon, h'.cal = h.cal, h'.pwr_det = h.pwr_det,
         h'.io_on = h.io_on, h'.ldo2_on = h.ldo2_on, h'.ldo2 = h.ldo2,
         h'.fault = h.fault,
         card' \in Cards, card'.volt = card.volt,
         On, ~card.switching, card'.st \in {"stby", "tran"},
         card'.width = h'.width, card'.mode = card.mode
  PROVE  Inv'
<1>1. /\ pc \notin Identifying \cup {"tuning", "status"}
      /\ "switchGet" \notin Identifying \cup {"tuning", "status"}
      /\ "switchGet" \in Commands
  BY DEF Identifying, Commands
<1>2. CASE Next_("switchGet") /\ UNCHANGED storage
  <2>1. pc' = "switchGet" /\ result' = result /\ Live'
    BY <1>1, <1>2 DEF Next_, Live
  <2> QED BY <1>1, <1>2, <2>1, Proceeds
<1>3. CASE Failed /\ UNCHANGED storage
  BY <1>3, Refuses DEF On
<1>4. CASE Initialized /\ ~storage.is_low_voltage
  BY <1>1, <1>4, ReadyAtDefault
<1> QED BY <1>2, <1>3, <1>4 DEF SpeedStep

LEMMA get_scrInv == Inv /\ get_scr => Inv'
<1> SUFFICES ASSUME Inv, get_scr PROVE Inv'
  OBVIOUS
<1>1. /\ pc = "scr" /\ Answers(pc) /\ Keep
      /\ UNCHANGED <<h, card, is_version_1, rounds>>
      /\ \/ Next_("busWidth") /\ UNCHANGED storage
         \/ SpeedStep(h.width)
  BY DEF get_scr, Answers, hwVars
<1>2. /\ Live /\ On /\ ~card.switching /\ card.width = h.width
      /\ card.st \in {"stby", "tran"}
  BY <1>1, AnsweredIs
<1>3. /\ h' \in Hosts /\ card' \in Cards
      /\ SameClock(h', h) /\ SameTiming(h', h) /\ SameSupply(h', h)
  BY <1>1 DEF Inv, TypeOK, SameClock, SameTiming, SameSupply
<1>4. CASE Next_("busWidth") /\ UNCHANGED storage
  <2>1. /\ pc' = "busWidth" /\ result' = result /\ Live'
        /\ pc \notin Identifying \cup {"tuning", "status"}
        /\ pc' \notin Identifying \cup {"tuning", "status"}
    BY <1>1, <1>4 DEF Next_, Live, Commands, Identifying
  <2> QED BY <1>1, <1>2, <1>3, <1>4, <2>1, Proceeds
<1>5. CASE SpeedStep(h.width)
  BY <1>1, <1>2, <1>3, <1>5, SpeedStepInv
<1> QED BY <1>1, <1>4, <1>5

LEMMA set_bus_widthInv == Inv /\ set_bus_width => Inv'
<1> SUFFICES ASSUME Inv, set_bus_width PROVE Inv'
  OBVIOUS
<1>1. /\ pc = "busWidth" /\ Answers(pc) /\ Keep
      /\ card' = [card EXCEPT !.width = 4] /\ h' = sdmmc_set_bus_width(h, 4)
      /\ UNCHANGED <<is_version_1, rounds>>
      /\ SpeedStep(4)
  BY DEF set_bus_width, HostWidth, Answers
<1>2. /\ Live /\ On /\ ~card.switching /\ card.st \in {"stby", "tran"}
  BY <1>1, AnsweredIs
<1>3. h \in Hosts /\ card \in Cards
  BY DEF Inv, TypeOK
<1>4. /\ h' \in Hosts /\ SameClock(h', h) /\ SameTiming(h', h)
      /\ SameSupply(h', h) /\ h'.width = 4
      /\ h'.pwrcon = h.pwrcon /\ h'.cal = h.cal /\ h'.pwr_det = h.pwr_det
      /\ h'.io_on = h.io_on /\ h'.ldo2_on = h.ldo2_on /\ h'.ldo2 = h.ldo2
      /\ h'.fault = h.fault
  BY <1>1, <1>3, BusWidthIs DEF SameSupply
<1>5. /\ card' \in Cards /\ card'.volt = card.volt /\ card'.width = 4
      /\ card'.st = card.st /\ card'.mode = card.mode
  <2>1. 4 \in Widths
    BY DEF Widths
  <2> QED BY <1>1, <1>3, <2>1 DEF Cards
<1> QED BY <1>1, <1>2, <1>4, <1>5, SpeedStepInv

LEMMA switch_getInv == Inv /\ switch_get => Inv'
<1> SUFFICES ASSUME Inv, switch_get PROVE Inv'
  OBVIOUS
<1>1. /\ pc = "switchGet" /\ Answers(pc) /\ Keep
      /\ UNCHANGED <<h, card, is_version_1, rounds>>
      /\ \/ Next_("check") /\ UNCHANGED storage
         \/ Failed /\ UNCHANGED storage
         \/ Initialized /\ ~storage.is_low_voltage
  BY DEF switch_get, Answers, hwVars
<1>2. /\ Live /\ On /\ ~card.switching /\ card.width = h.width
      /\ card.st \in {"stby", "tran"}
      /\ pc \notin Identifying \cup {"tuning", "status"}
  BY <1>1, AnsweredIs DEF Identifying
<1>3. /\ h' \in Hosts /\ card' \in Cards
      /\ SameClock(h', h) /\ SameTiming(h', h) /\ SameSupply(h', h)
  BY <1>1 DEF Inv, TypeOK, SameClock, SameTiming, SameSupply
<1>4. CASE Next_("check") /\ UNCHANGED storage
  <2>1. /\ pc' = "check" /\ result' = result /\ Live'
        /\ pc' \notin Identifying \cup {"tuning", "status"}
    BY <1>1, <1>4 DEF Next_, Live, Commands, Identifying
  <2> QED BY <1>1, <1>2, <1>3, <1>4, <2>1, Proceeds
<1>5. CASE Failed /\ UNCHANGED storage
  BY <1>1, <1>2, <1>3, <1>5, Refuses DEF On
<1>6. CASE Initialized /\ ~storage.is_low_voltage
  BY <1>1, <1>2, <1>3, <1>6, ReadyAtDefault
<1> QED BY <1>1, <1>4, <1>5, <1>6

LEMMA SwitchCheckInv == Inv /\ SwitchCheck => Inv'
<1> SUFFICES ASSUME Inv, SwitchCheck PROVE Inv'
  OBVIOUS
<1>1. /\ pc = "check" /\ Answers(pc) /\ Keep
      /\ UNCHANGED <<h, card, is_version_1, rounds, storage, result>>
      /\ pc' = "set"
  BY DEF SwitchCheck, Answers, hwVars, KeepAll, Next_
<1>2. /\ Live /\ On /\ ~card.switching /\ card.width = h.width
      /\ card.st \in {"stby", "tran"}
      /\ pc \notin Identifying \cup {"tuning", "status"}
  BY <1>1, AnsweredIs DEF Identifying
<1>3. /\ h' \in Hosts /\ card' \in Cards
      /\ SameClock(h', h) /\ SameTiming(h', h) /\ SameSupply(h', h)
  BY <1>1 DEF Inv, TypeOK, SameClock, SameTiming, SameSupply
<1>4. Live' /\ pc' \notin Identifying \cup {"tuning", "status"}
  BY <1>1 DEF Live, Commands, Identifying
<1> QED BY <1>1, <1>2, <1>3, <1>4, Proceeds

\* The speed that a card at 1.8 V is set to is a function of what nothing
\* between the two calls changes.
LEMMA FallbackKept ==
  ASSUME Keep
  PROVE  /\ bus_low_voltage_support' = bus_low_voltage_support
         /\ Fallback' = Fallback
BY DEF Keep, bus_low_voltage_support, bus_width, type, Fallback

LEMMA FallbackTimed ==
  ASSUME TypeOK, bus_low_voltage_support
  PROVE  /\ Fallback.type \in Timings
         /\ Fallback.type \notin {"SD_ID", "SD_DS12", "SD_HS25"}
         /\ (Fallback.function \in {50, 104}) =
              (Fallback.type \in {"UHS_SDR50", "UHS_SDR82", "UHS_SDR104"})
<1>1. /\ Fallback.function \in {12, 25, 50, 104}
      /\ Fallback.type \in {"UHS_SDR12", "UHS_SDR25", "UHS_SDR50",
                            "UHS_SDR82", "UHS_SDR104"}
      /\ Fallback.type = "UHS_SDR12" <=> Fallback.function = 12
      /\ Fallback.type = "UHS_SDR25" <=> Fallback.function = 25
  BY FallbackIs
<1> QED BY <1>1 DEF Timings

LEMMA SwitchSetInv == Inv /\ SwitchSet => Inv'
<1> SUFFICES ASSUME Inv, SwitchSet PROVE Inv'
  OBVIOUS
<1> USE DEF Inv
<1>1. /\ pc = "set" /\ Answers(pc) /\ Keep
      /\ card' = [card EXCEPT !.mode = Function] /\ h' = AfterSwitch
      /\ pc' = IF storage.is_low_voltage THEN "tuning" ELSE "status"
      /\ UNCHANGED <<is_version_1, rounds, storage, result>>
  BY DEF SwitchSet, Answers, KeepAll, Next_
<1>2. /\ Live /\ On /\ ~card.switching /\ card.width = h.width
      /\ card.st \in {"stby", "tran"} /\ card.mode = 12
      /\ h \in Hosts /\ card \in Cards
  BY <1>1, AnsweredIs DEF TypeOK
<1>3. Live'
  BY <1>1 DEF Live, Commands
<1>4. storage.is_low_voltage =>
        /\ bus_low_voltage_support /\ card.volt = SDMMC_POWER_1_8
        /\ ~h.fault => VoltagesAgree
        /\ Default /\ Uhs(12) /\ h.tap = "fixed"
  BY <1>1, <1>2 DEF LowInv
<1>5. ~storage.is_low_voltage =>
        /\ Plain /\ Default
        /\ ~h.fault => VoltagesAgree /\ card.volt = SDMMC_POWER_3_3
  BY <1>1, <1>2 DEF HighInv, Identifying
<1>6. Function \in Modes
  BY <1>4, FallbackIs DEF Function, Modes
<1>7. /\ card' \in Cards /\ card'.mode = Function /\ card'.volt = card.volt
      /\ card'.st = card.st /\ card'.width = card.width
      /\ card'.switching = card.switching
  BY <1>1, <1>2, <1>6 DEF Cards
<1>8. On' /\ card.st # "off"
  BY <1>2, <1>7 DEF On
<1>9. CASE storage.is_low_voltage
  <2> DEFINE t == Fallback.type
             c == CardClock[t].clock
  <2>1. h' = sdmmc_setup_clock(h, t) /\ t \in Timings /\ t # "SD_ID"
        /\ t \notin {"SD_ID", "SD_DS12", "SD_HS25"}
    BY <1>1, <1>4, <1>9, FallbackTimed DEF AfterSwitch
  <2>2. Knows(h)
    BY <1>4, <1>9 DEF Knows, Default
  <2>3. /\ Timing(h, t).hispd = h.hispd /\ Timing(h, t).vdd_180
        /\ Timing(h, t).uhs = IF t = "UHS_SDR25" THEN 25
                              ELSE IF t = "UHS_SDR12" THEN 12 ELSE 104
    BY <1>2, <2>1, TimingIs
  <2>4. /\ h' \in Hosts /\ SameWires(h', h)
        /\ h'.hispd = Timing(h, t).hispd /\ h'.vdd_180 = Timing(h, t).vdd_180
        /\ h'.uhs = Timing(h, t).uhs
        /\ h'.div = 0 /\ h'.tap = "fixed"
        /\ h'.source = HostClock(c) /\ h'.known = c
    <3> HIDE DEF t
    <3> QED BY <1>2, <2>1, <2>2, SetupClockIs
  <2>5. pc' = "tuning" /\ storage' = storage
    BY <1>1, <1>9
  <2>6. SameSupply(h', h) /\ NeverOverdriven' /\ ~storage'.initialized
    BY <1>2, <1>7, <2>4, <2>5, LiveFacts
       DEF SameSupply, SameWires, VoltInv, NeverOverdriven
  <2>7. PowerInv' /\ VoltInv' /\ CallInv' /\ TrimInv' /\ ReadyInv'
    BY <1>1, <1>2, <1>3, <1>7, <1>8, <2>6, GoesOn
  <2>8. TypeOK'
    BY <1>1, <1>3, <1>7, <2>4 DEF TypeOK, Keep, callVars, Live
  <2>9. HighInv'
    BY <1>9, <2>5 DEF HighInv
  <2>10. LowInv'
    <3>1. Fallback' = Fallback /\ bus_low_voltage_support'
      BY <1>1, <1>4, <1>9, FallbackKept
    <3>2. card'.mode = Fallback.function
      BY <1>7, <1>9 DEF Function
    <3>3. Uhs(card.mode)'
      <4>1. h'.uhs = IF card'.mode = 50 THEN 104 ELSE card'.mode
        BY <1>4, <1>9, <2>3, <2>4, <3>2, FallbackIs
      <4>2. ~h'.hispd /\ h'.vdd_180
        BY <1>4, <1>9, <2>3, <2>4 DEF Uhs
      <4> QED BY <4>1, <4>2 DEF Uhs
    <3>4. ~h'.fault => VoltagesAgree'
      <4>1. h.vdd_180 = TRUE /\ h'.vdd_180 = TRUE
        BY <1>2, <1>4, <1>9, <2>3, <2>4 DEF Uhs, Hosts
      <4> QED BY <1>4, <1>7, <1>9, <2>4, <4>1 DEF VoltagesAgree, SameWires
    <3>5. h'.source = HostClock(CardClock[Fallback'.type].clock)
      BY <2>4, <3>1
    <3> QED
      BY <1>4, <1>7, <1>9, <2>4, <2>5, <3>1, <3>2, <3>3, <3>4, <3>5
         DEF LowInv, Unswitched
  <2>11. CardInv'
    BY <1>2, <1>7, <2>4, <2>5 DEF CardInv, SameWires, Identifying
  <2> QED BY <2>7, <2>8, <2>9, <2>10, <2>11
<1>10. CASE ~storage.is_low_voltage
  <2>1. h' = h /\ pc' = "status" /\ storage' = storage /\ card'.mode = 25
    BY <1>1, <1>7, <1>10 DEF AfterSwitch, Function
  <2>2. SameSupply(h', h) /\ NeverOverdriven' /\ ~storage'.initialized
    BY <1>2, <1>7, <2>1, LiveFacts
       DEF SameSupply, VoltInv, NeverOverdriven
  <2>3. PowerInv' /\ VoltInv' /\ CallInv' /\ TrimInv' /\ ReadyInv'
    BY <1>1, <1>2, <1>3, <1>7, <1>8, <2>2, GoesOn
  <2>4. TypeOK'
    BY <1>1, <1>3, <1>7, <2>1 DEF TypeOK, Keep, callVars, Live
  <2>5. VoltagesAgree' = VoltagesAgree /\ Plain' = Plain /\ Default' = Default
    BY <1>7, <2>1 DEF VoltagesAgree, Plain, Default
  <2>6. HighInv'
    BY <1>5, <1>7, <1>10, <2>1, <2>5 DEF HighInv, Identifying
  <2>7. LowInv'
    BY <1>10, <2>1 DEF LowInv
  <2>8. CardInv'
    BY <1>2, <1>7, <2>1 DEF CardInv, Identifying
  <2> QED BY <2>3, <2>4, <2>6, <2>7, <2>8
<1> QED BY <1>9, <1>10

LEMMA tuning_executeInv == Inv /\ tuning_execute => Inv'
<1> SUFFICES ASSUME Inv, tuning_execute PROVE Inv'
  OBVIOUS
<1> USE DEF Inv
<1>1. /\ pc = "tuning" /\ Answers(pc) /\ Keep
      /\ h' = Tuned(h, Fallback.type) /\ pc' = "status"
      /\ UNCHANGED <<card, is_version_1, rounds, storage, result>>
  BY DEF tuning_execute, Answers, KeepAll, Next_
<1>2. /\ Live /\ On /\ ~card.switching /\ card.width = h.width
      /\ card.st \in {"stby", "tran"} /\ h \in Hosts
  BY <1>1, AnsweredIs DEF TypeOK
<1>3. Live'
  BY <1>1 DEF Live, Commands
<1>4. /\ storage.is_low_voltage
      /\ bus_low_voltage_support /\ card.volt = SDMMC_POWER_1_8
      /\ ~h.fault => VoltagesAgree
      /\ card.mode = Fallback.function /\ Uhs(card.mode)
      /\ h.source = HostClock(CardClock[Fallback.type].clock) /\ h.div = 0
      /\ h.tap = "fixed"
  BY <1>1, <1>2 DEF HighInv, LowInv
<1>5. /\ h' \in Hosts /\ SameClock(h', h) /\ SameWires(h', h)
      /\ h'.hispd = h.hispd /\ h'.vdd_180 = h.vdd_180 /\ h'.uhs = h.uhs
      /\ h'.tap = IF Fallback.type \in {"UHS_SDR50", "UHS_SDR82", "UHS_SDR104"}
                  THEN "tuned" ELSE h.tap
  BY <1>1, <1>2, <1>4, FallbackTimed, TunedIs
<1>6. SameSupply(h', h) /\ NeverOverdriven' /\ ~storage'.initialized
  BY <1>1, <1>2, <1>5, LiveFacts
     DEF SameSupply, SameWires, VoltInv, NeverOverdriven
<1>7. PowerInv' /\ VoltInv' /\ CallInv' /\ TrimInv' /\ ReadyInv'
  BY <1>1, <1>2, <1>3, <1>6, GoesOn
<1>8. TypeOK'
  BY <1>1, <1>3, <1>5 DEF TypeOK, Keep, callVars, Live
<1>9. HighInv'
  BY <1>1, <1>4 DEF HighInv
<1>10. LowInv'
  <2>1. Fallback' = Fallback /\ bus_low_voltage_support'
    BY <1>1, <1>4, FallbackKept
  <2>2. h'.tap = IF card.mode \in {50, 104} THEN "tuned" ELSE "fixed"
    BY <1>4, <1>5, FallbackTimed
  <2>3. VoltagesAgree' = VoltagesAgree /\ Uhs(card.mode)' = Uhs(card.mode)
    BY <1>1, <1>5 DEF VoltagesAgree, Uhs, SameWires
  <2>4. h'.fault = h.fault /\ h'.source = h.source /\ h'.div = h.div
    BY <1>5 DEF SameWires, SameClock
  <2> QED
    BY <1>1, <1>4, <2>1, <2>2, <2>3, <2>4 DEF LowInv, Unswitched
<1>11. CardInv'
  BY <1>1, <1>2, <1>5 DEF CardInv, SameWires, Identifying
<1> QED BY <1>7, <1>8, <1>9, <1>10, <1>11

\* No access mode that a card at 1.8 V is set to is too slow for its clock.
LEMMA FastEnough ==
  ASSUME TypeOK, bus_low_voltage_support, card.mode = Fallback.function,
         card.st \in {"stby", "tran"},
         h.source = HostClock(CardClock[Fallback.type].clock), h.div = 0
  PROVE  CardFrequency(h) <= Limit
<1> DEFINE f == Fallback.function
           t == Fallback.type
           c == CardClock[t].clock
<1>1. /\ f \in {12, 25, 50, 104}
      /\ t \in {"UHS_SDR12", "UHS_SDR25", "UHS_SDR50", "UHS_SDR82",
                "UHS_SDR104"}
      /\ t = "UHS_SDR12" <=> f = 12 
      /\ t = "UHS_SDR25" <=> f = 25
      /\ t = "UHS_SDR50" <=> f = 50
  BY FallbackIs
<1>2. /\ card.mode = 12 => Limit = 25000
      /\ card.mode = 25 => Limit = 50000
      /\ card.mode = 50 => Limit = 100000
      /\ card.mode = 104 => Limit = 208000
  BY DEF Limit
<1> HIDE DEF f, t
<1>3. h.source = HostClock(c) /\ h.div = 0 /\ card.mode = f
  BY DEF f, t
<1>4. CASE t = "UHS_SDR12"
  <2>1. c = 25000 /\ Limit = 25000
    BY <1>1, <1>2, <1>3, <1>4 DEF CardClock
  <2>2. CardFrequency(h) = 24727
    BY <1>3, <2>1, Frequencies
  <2> QED BY <2>1, <2>2
<1>5. CASE t = "UHS_SDR25"
  <2>1. c = 50000 /\ Limit = 50000
    BY <1>1, <1>2, <1>3, <1>5 DEF CardClock
  <2>2. CardFrequency(h) = 48000
    BY <1>3, <2>1, Frequencies
  <2> QED BY <2>1, <2>2
<1>6. CASE t = "UHS_SDR50"
  <2>1. c = 100000 /\ Limit = 100000
    BY <1>1, <1>2, <1>3, <1>6 DEF CardClock
  <2>2. CardFrequency(h) = 99840
    BY <1>3, <2>1, Frequencies
  <2> QED BY <2>1, <2>2
<1>7. CASE t = "UHS_SDR82"
  <2>1. c = 164000 /\ Limit = 208000
    BY <1>1, <1>2, <1>3, <1>7 DEF CardClock
  <2>2. CardFrequency(h) = 163200
    BY <1>3, <2>1, Frequencies
  <2> QED BY <2>1, <2>2
<1>8. CASE t = "UHS_SDR104"
  <2>1. c = 200000 /\ Limit = 208000
    BY <1>1, <1>2, <1>3, <1>8 DEF CardClock
  <2>2. CardFrequency(h) = 199680
    BY <1>3, <2>1, Frequencies
  <2> QED BY <2>1, <2>2
<1> QED BY <1>1, <1>4, <1>5, <1>6, <1>7, <1>8

LEMMA check_statusInv == Inv /\ check_status => Inv'
<1> SUFFICES ASSUME Inv, check_status PROVE Inv'
  OBVIOUS
<1> USE DEF Inv
<1>1. /\ pc = "status" /\ Answers(pc) /\ Keep
      /\ h' = IF storage.is_low_voltage THEN sdmmc_card_clock_powersave(h, TRUE)
              ELSE sdmmc_setup_clock(h, "SD_HS25")
      /\ pc' = "idle" /\ result' = TRUE
      /\ storage' = [storage EXCEPT !.initialized = TRUE]
      /\ UNCHANGED <<card, is_version_1, rounds>>
  BY DEF check_status, Answers, Initialized, Return
<1>2. /\ Live /\ On /\ ~card.switching /\ card.width = h.width
      /\ card.st \in {"stby", "tran"} /\ h \in Hosts
  BY <1>1, AnsweredIs DEF TypeOK
<1>3. storage' \in Storages /\ storage'.initialized
  BY <1>1 DEF TypeOK, Storages
<1>4. ASSUME h' \in Hosts, SameSupply(h', h), h'.ldo2 = h.ldo2,
             h'.fault = h.fault, h'.width = h.width, ~h'.fault => VoltagesAgree',
             ModesAgree', CardFrequency(h)' <= Limit'
      PROVE  Inv'
  <2>1. NeverOverdriven'
    BY <1>1, <1>4 DEF VoltInv, NeverOverdriven
  <2>2. /\ PowerInv' /\ VoltInv' /\ CallInv' /\ TrimInv'
        /\ HighInv' /\ LowInv' /\ CardInv'
    BY <1>1, <1>2, <1>4, <2>1, Succeeds
  <2>3. TypeOK'
    BY <1>1, <1>3, <1>4 DEF TypeOK, Keep, callVars
  <2>4. rounds = 2 => h'.trim = console.soc
    BY <1>2, <1>4 DEF TrimInv, SameSupply
  <2>5. ReadyInv'
    BY <1>1, <1>4, <2>4 DEF ReadyInv, ReadyAgrees, Keep
  <2> QED BY <2>2, <2>3, <2>5
<1>5. CASE storage.is_low_voltage
  <2>1. /\ bus_low_voltage_support /\ card.volt = SDMMC_POWER_1_8
        /\ ~h.fault => VoltagesAgree
        /\ card.mode = Fallback.function /\ Uhs(card.mode)
        /\ h.source = HostClock(CardClock[Fallback.type].clock) /\ h.div = 0
        /\ h.tap = IF card.mode \in {50, 104} THEN "tuned" ELSE "fixed"
    BY <1>1, <1>2, <1>5 DEF LowInv
  <2>2. /\ h' \in Hosts /\ SameButClock(h', h) /\ h'.cal = h.cal
        /\ h'.card_clock_enabled = h.card_clock_enabled
    BY <1>1, <1>2, <1>5, PowersaveIs
  <2>3. SameSupply(h', h)
    BY <2>2 DEF SameSupply, SameButClock
  <2>4. ~h'.fault => VoltagesAgree'
    BY <1>1, <2>1, <2>2 DEF VoltagesAgree, SameButClock, SameTiming
  <2>5. ModesAgree'
    <3>1. h'.hispd = FALSE /\ h'.vdd_180 = TRUE
      BY <2>1, <2>2 DEF Uhs, SameButClock, SameTiming, Hosts
    <3>2. (card.mode = 25 /\ ~h'.vdd_180) = FALSE
      BY <3>1
    <3>3. h'.hispd = (card.mode = 25 /\ ~h'.vdd_180)
      BY <3>1, <3>2, Zenon
    <3>4. (card.mode \in {50, 104}) = (h'.tap = "tuned")
      BY <2>1, <2>2 DEF SameButClock, SameTiming
    <3>5. h'.uhs = (IF card.mode = 50 THEN 104 ELSE card.mode)
          /\ h'.width = card.width
      BY <1>2, <2>1, <2>2 DEF SameButClock, SameTiming, Uhs
    <3> QED BY <1>1, <3>3, <3>4, <3>5 DEF ModesAgree
  <2>6. CardFrequency(h)' <= Limit'
    <3>1. CardFrequency(h) <= Limit
      BY <1>2, <2>1, FastEnough
    <3>2. CardFrequency(h)' = CardFrequency(h)
      BY <2>2 DEF CardFrequency, SameButClock, SameClock
    <3>3. Limit' = Limit
      BY <1>1 DEF Limit
    <3> QED BY <3>1, <3>2, <3>3
  <2> QED BY <1>4, <2>2, <2>3, <2>4, <2>5, <2>6 DEF SameButClock
<1>6. CASE ~storage.is_low_voltage
  <2>1. /\ Plain /\ Default /\ card.mode = 25
        /\ ~h.fault => VoltagesAgree /\ card.volt = SDMMC_POWER_3_3
    BY <1>1, <1>2, <1>6 DEF HighInv, Identifying
  <2>2. /\ "SD_HS25" \in Timings /\ "SD_HS25" # "SD_ID"
        /\ "SD_HS25" \notin {"SD_ID", "SD_DS12"}
    BY DEF Timings
  <2>3. CardClock["SD_HS25"].clock = 50000
    BY DEF CardClock
  <2>4. Knows(h)
    BY <2>1 DEF Knows, Default
  <2>5. h' = sdmmc_setup_clock(h, "SD_HS25")
    BY <1>1, <1>6
  <2>6. /\ h' \in Hosts /\ SameWires(h', h) /\ h'.tap = "fixed"
        /\ h'.div = 0 /\ h'.source = HostClock(50000)
        /\ h'.hispd /\ ~h'.vdd_180
    BY <1>2, <2>2, <2>3, <2>4, <2>5, SetupClockIs, TimingIs
  <2>7. SameSupply(h', h) /\ h'.width = h.width /\ h'.ldo2 = h.ldo2
        /\ h'.fault = h.fault
    BY <2>6 DEF SameSupply, SameWires
  <2>8. h'.hispd = TRUE /\ h'.vdd_180 = FALSE /\ h.vdd_180 = FALSE
    BY <1>2, <2>1, <2>6 DEF Plain, Hosts
  <2>9. ~h'.fault => VoltagesAgree'
    <3> SUFFICES ASSUME ~h'.fault PROVE VoltagesAgree'
      OBVIOUS
    <3>1. h'.vdd_180 = h.vdd_180 /\ card' = card
      BY <1>1, <2>8
    <3>2. /\ h'.ldo2_on = h.ldo2_on /\ h'.io_on = h.io_on /\ h'.ldo2 = h.ldo2
          /\ h'.pwrcon = h.pwrcon /\ h'.pwr_det = h.pwr_det /\ h'.cal = h.cal
      BY <2>6 DEF SameWires
    <3>3. VoltagesAgree
      BY <2>1, <2>6, <3>1 DEF SameWires
    <3> HIDE DEF Inv
    <3> QED BY <3>1, <3>2, <3>3 DEF VoltagesAgree
  <2>10. ModesAgree'
    <3>1. (card.mode = 25 /\ ~h'.vdd_180) = TRUE
      BY <2>1, <2>8
    <3>2. h'.hispd = (card.mode = 25 /\ ~h'.vdd_180)
      BY <2>8, <3>1, Zenon
    <3>3. (card.mode \in {50, 104}) = (h'.tap = "tuned")
      BY <2>1, <2>6
    <3> QED BY <1>1, <1>2, <2>7, <2>8, <3>2, <3>3 DEF ModesAgree
  <2>11. CardFrequency(h)' <= Limit'
    <3>1. CardFrequency(h)' = 48000
      BY <2>6, Frequencies
    <3>2. Limit' = 50000
      BY <1>1, <1>2, <2>1 DEF Limit
    <3> QED BY <3>1, <3>2
  <2> QED BY <1>4, <2>6, <2>7, <2>9, <2>10, <2>11
<1> QED BY <1>5, <1>6

LEMMA UnpoweredIs ==
  ASSUME h \in Hosts, NEW s \in Sources
  PROVE  LET k == Unpowered(s)
         IN /\ k \in Hosts /\ k.pin = FALSE
            /\ k.card_clock_enabled = h.card_clock_enabled
            /\ k.clock_stopped = h.clock_stopped /\ k.t210b01 = h.t210b01
            /\ k.trim = h.trim
<1> DEFINE k == Unpowered(s)
<1>1. k = [h EXCEPT !.pin = FALSE, !.source = s]
  BY DEF Unpowered
<1> HIDE DEF k
<1>2. k \in Hosts
  BY <1>1 DEF Hosts
<1> QED BY <1>1, <1>2 DEF Hosts, k

LEMMA PowerCutInv == Inv /\ PowerCut => Inv'
<1> SUFFICES ASSUME Inv, PowerCut PROVE Inv'
  OBVIOUS
<1> USE DEF Inv
<1>1. /\ cut' = TRUE /\ card' = OffCard
      /\ entry' = [entry EXCEPT !.power = FALSE, !.cut = TRUE]
      /\ UNCHANGED <<console, storage, sd_mode, pc, op, looping, is_version_1,
                     result, rounds>>
  BY DEF PowerCut
<1>5. /\ entry' \in Device!Card /\ entry'.cut = TRUE /\ entry'.power = FALSE
      /\ entry'.exhausted = entry.exhausted /\ entry'.clock = entry.clock
      /\ entry'.initialized = entry.initialized
  <2>1. entry \in Device!Card
    BY DEF TypeOK
  <2> QED BY <1>1, <2>1 DEF Device!Card
<1>4. /\ h' \in Hosts /\ h'.pin = FALSE
      /\ h'.card_clock_enabled = h.card_clock_enabled
      /\ h'.clock_stopped = h.clock_stopped /\ h'.t210b01 = h.t210b01
      /\ h'.trim = h.trim
  <2>1. h \in Hosts /\ h.source \in Sources
    BY DEF TypeOK, Hosts
  <2>2. CutSources \subseteq Sources
    BY <2>1, SMT DEF Sources, Clocks, CutSources
  <2>3. PICK s \in CutSources : h' = Unpowered(s)
    BY DEF PowerCut
  <2> QED BY <2>1, <2>2, <2>3, UnpoweredIs
<1>6. card' \in Cards /\ ~On' /\ card'.volt = SDMMC_POWER_3_3
  BY <1>1, OffCardIs DEF On
<1>7. TypeOK'
  BY <1>1, <1>4, <1>5, <1>6 DEF TypeOK
<1>8. PowerInv'
  BY <1>1, <1>4, <1>6 DEF PowerInv, On, Live
<1>9. VoltInv'
  BY <1>6, VoltsDiffer DEF VoltInv, NeverOverdriven
<1>10. Now = entry => Now' = entry'
  <2> SUFFICES ASSUME Now = entry PROVE Now' = entry'
    OBVIOUS
  <2>1. Now \in Device!Card
    BY NowTyped
  <2>2. /\ Now'.power = FALSE /\ Now'.cut = TRUE /\ Now'.clock = Now.clock
        /\ Now'.initialized = Now.initialized
        /\ Now'.exhausted = Now.exhausted
    BY <1>1, <1>4 DEF Now
  <2>3. Now' \in Device!Card
    <3>1. h'.pin \in BOOLEAN /\ h'.card_clock_enabled \in BOOLEAN
          /\ storage.initialized \in BOOLEAN /\ cut' \in BOOLEAN
      BY <1>1, <1>4 DEF Hosts, TypeOK, Storages
    <3>2. (sd_mode = SD_INIT_FAIL) \in BOOLEAN
      OBVIOUS
    <3> QED BY <1>1, <3>1, <3>2 DEF Now, Device!Card
  <2> QED BY <1>5, <2>1, <2>2, <2>3, SameCard
<1>11. CallInv'
  BY <1>1, <1>5, <1>10 DEF CallInv, Live
<1>12. TrimInv'
  BY <1>1, <1>4 DEF TrimInv, Live
<1>13. HighInv' /\ LowInv' /\ CardInv'
  BY <1>6 DEF HighInv, LowInv, CardInv
<1>14. ReadyInv'
  BY <1>6 DEF ReadyInv, ReadyAgrees, Ready, On
<1> QED BY <1>7, <1>8, <1>9, <1>11, <1>12, <1>13, <1>14

LEMMA StutterInv == Inv /\ UNCHANGED vars => Inv'
<1> SUFFICES ASSUME Inv, UNCHANGED vars PROVE Inv'
  OBVIOUS
<1>1. UNCHANGED <<console, h, card, storage, sd_mode, pc, op, looping, entry,
                  is_version_1, result, cut, rounds>>
  BY DEF vars, hwVars, callVars
<1>2. TypeOK' = TypeOK
  BY <1>1 DEF TypeOK
<1>3. PowerInv' = PowerInv /\ VoltInv' = VoltInv /\ TrimInv' = TrimInv
  BY <1>1 DEF PowerInv, VoltInv, NeverOverdriven, TrimInv, Live, On
<1>4. CallInv' = CallInv
  BY <1>1 DEF CallInv, Live, Now
<1>5. /\ VoltagesAgree' = VoltagesAgree /\ ModesAgree' = ModesAgree
      /\ Limit' = Limit /\ CardFrequency(h)' = CardFrequency(h)
      /\ Fallback' = Fallback
      /\ bus_low_voltage_support' = bus_low_voltage_support
  BY <1>1
     DEF VoltagesAgree, ModesAgree, Limit, CardFrequency, Fallback, type,
         bus_low_voltage_support, bus_width
<1>6. HighInv' = HighInv /\ LowInv' = LowInv
  BY <1>1, <1>5
     DEF HighInv, LowInv, Live, On, Plain, Slow, Default, Uhs
<1>7. CardInv' = CardInv /\ ReadyInv' = ReadyInv
  BY <1>1, <1>5 DEF CardInv, ReadyInv, ReadyAgrees, Ready, Live, On
<1> QED BY <1>2, <1>3, <1>4, <1>6, <1>7 DEF Inv

LEMMA InvNext == Inv /\ [Next]_vars => Inv'
BY CallEndInv, CallInitializeInv, CallReinitializeInv, NextSpeedInv,
   NoSpeedLeftInv, SdmmcInitInv, CommandFailsInv, go_idle_stateInv,
   IfCondFailsInv, send_if_condInv, get_op_condInv, SwitchInv,
   enable_low_voltageInv, RowCommandInv, get_scrInv, set_bus_widthInv,
   switch_getInv, SwitchCheckInv, SwitchSetInv, tuning_executeInv,
   check_statusInv, PowerCutInv, StutterInv
   DEF Next, InCall

LEMMA InvInvariant == Spec => []Inv
BY InvInit, InvNext, PTL DEF Spec

-----------------------------------------------------------------------------
(* The properties                                                          *)

LEMMA InvNotTooFast == Inv => NotTooFast
<1> SUFFICES ASSUME Inv, pc \in Commands \/ storage.initialized,
                    card.st # "off", ~card.switching
             PROVE  CardFrequency(h) <= Limit
  BY DEF NotTooFast
<1> USE DEF Inv
<1> DEFINE early == /\ card.st \in {"idle", "ready", "ident"}
                    /\ card.volt = SDMMC_POWER_3_3
<1>1. /\ early => Limit = 400
      /\ ~early => /\ card.mode = 12 => Limit = 25000
                   /\ card.mode = 25 => Limit = 50000
                   /\ card.mode = 50 => Limit = 100000
                   /\ card.mode = 104 => Limit = 208000
  BY DEF Limit
<1>2. card.mode \in {12, 25, 50, 104}
  BY DEF TypeOK, Cards, Modes
<1> HIDE DEF early
<1>3. Limit \in Int /\ Limit >= 400 /\ (~early => Limit >= 25000)
  BY <1>1, <1>2
<1>4. card.st \in {"stby", "tran"} \/ card.volt # SDMMC_POWER_3_3
        => ~early
  BY DEF early
<1>5. CASE storage.initialized
  BY <1>5 DEF ReadyInv, On
<1>6. CASE pc \in Commands /\ ~storage.is_low_voltage
  <2>1. Live /\ On
    BY <1>6 DEF Live, On
  <2>2. CASE pc \in Identifying
    <3>1. CardFrequency(h) = 386
      BY <1>6, <2>1, <2>2, Frequencies DEF HighInv, Slow
    <3> QED BY <1>3, <3>1
  <2>3. CASE pc \notin Identifying
    <3>1. CardFrequency(h) = 24727
      BY <1>6, <2>1, <2>3, Frequencies DEF HighInv, Default
    <3>2. card.st \in {"stby", "tran"}
      BY <2>1, <2>3 DEF CardInv
    <3> QED BY <1>3, <1>4, <3>1, <3>2
  <2> QED BY <2>2, <2>3
<1>7. CASE pc \in Commands /\ storage.is_low_voltage
  <2>1. Live /\ On
    BY <1>7 DEF Live, On
  <2>2. CASE pc \in {"tuning", "status"}
    <3>1. card.st \in {"stby", "tran"}
      BY <2>1, <2>2 DEF CardInv, Identifying
    <3> QED BY <1>7, <2>1, <2>2, <3>1, FastEnough DEF LowInv
  <2>3. CASE pc \notin {"tuning", "status"}
    <3>1. CardFrequency(h) = 24727
      BY <1>7, <2>1, <2>3, Frequencies DEF LowInv, Default
    <3>2. card.volt # SDMMC_POWER_3_3
      BY <1>7, <2>1, VoltsDiffer DEF LowInv
    <3> QED BY <1>3, <1>4, <3>1, <3>2
  <2> QED BY <2>2, <2>3
<1> QED BY <1>5, <1>6, <1>7

\* Every variable of the bring-up keeps to its type (sdmmc.c, 1384 to 1493).
THEOREM TypeCorrect == Spec => []TypeOK
<1>1. Inv => TypeOK
  BY DEF Inv
<1> QED BY InvInvariant, <1>1, PTL

\* When a bring-up has marked a card initialized, the voltages, the modes and
\* the trim values of card and host agree, whatever failed on the way there
\* (sdmmc.c, 1384 to 1493; sdmmc_driver.c, 1226).
THEOREM CardAndHostAgree == Spec => []ReadyAgrees
<1>1. Inv => ReadyAgrees
  BY DEF Inv, ReadyInv
<1> QED BY InvInvariant, <1>1, PTL

\* No step of any number of bring-ups feeds 3.3 V to a card that signals at
\* 1.8 V (sdmmc_driver.c, 1175 and 1402; nx_sd.c, 42).
THEOREM CardIsNotOverdriven == Spec => []NeverOverdriven
<1>1. Inv => NeverOverdriven
  BY DEF Inv, VoltInv
<1> QED BY InvInvariant, <1>1, PTL

\* No command goes out faster than the card can take, whatever clock source the
\* bootloader or the boot sysmodule left behind (clock.c, 349;
\* sdmmc_driver.c, 350 to 362).
THEOREM CommandsAreSlowEnough == Spec => []NotTooFast
BY InvInvariant, InvNotTooFast, PTL

\* sdmmc_storage_end that says it has switched the card off has, behind a
\* transfer as behind a bring-up that failed at any command, whatever host that
\* left (nx_sd.c, 42; sdmmc_driver.c, 1270 and 1340).
THEOREM EndTakesThePower == Spec => EndSwitchesOff
<1>1. ASSUME Inv, EndDone
      PROVE  card'.st = "off" /\ ~h'.pin
  BY <1>1, PowerCycleIs, OffCardIs DEF Inv
<1>2. Inv /\ [Next]_vars
        => [(CallEnd \/ CallReinitialize \/ NextSpeed) /\ EndDone
              => card'.st = "off" /\ ~h'.pin]_vars
  BY <1>1
<1> QED BY InvInvariant, <1>2, PTL DEF Spec, EndSwitchesOff

-----------------------------------------------------------------------------
(* The refinement of SdDevice                                              *)

\* A step in the middle of a call is none of the abstract driver's; the others
\* are the end of the call, at a speed or at none.
LEMMA StepKinds ==
  ASSUME Inv, InCall, ~NoSpeedLeft
  PROVE  /\ pc # "idle" /\ entry' = entry
         /\ \/ pc' # "idle" /\ result' = result
            \/ /\ pc' = "idle" /\ result' = FALSE /\ Failed /\ Keep
               /\ sd_mode # SD_INIT_FAIL /\ ~storage'.initialized
            \/ /\ pc' = "idle" /\ result' = TRUE /\ Live /\ Keep
               /\ storage'.initialized
<1> DEFINE Kind ==
      /\ pc # "idle" /\ entry' = entry
      /\ \/ pc' # "idle" /\ result' = result
         \/ /\ pc' = "idle" /\ result' = FALSE /\ Failed /\ Keep
            /\ sd_mode # SD_INIT_FAIL /\ ~storage'.initialized
         \/ /\ pc' = "idle" /\ result' = TRUE /\ Live /\ Keep
            /\ storage'.initialized
<1> SUFFICES Kind
  OBVIOUS
<1>1. Live => ~storage.initialized /\ sd_mode # SD_INIT_FAIL
  BY LiveFacts
<1>2. ASSUME Live, Keep, NEW to, to # "idle", Next_(to)
      PROVE  Kind
  BY <1>2 DEF Live, Commands, Keep, callVars, Next_
<1>3. ASSUME Live, Keep, Failed, UNCHANGED storage
      PROVE  Kind
  <2>1. pc # "idle" /\ entry' = entry
    BY <1>3 DEF Live, Commands, Keep, callVars
  <2>2. CASE pc' = "idle" /\ result' = FALSE
    BY <1>1, <1>3, <2>1, <2>2
  <2>3. CASE pc' # "idle" /\ result' = result
    BY <2>1, <2>3
  <2> QED BY <1>3, <2>2, <2>3 DEF Failed, Next_, Return
<1>4. ASSUME Live, Keep, Initialized
      PROVE  Kind
  <2>1. pc # "idle" /\ entry' = entry
    BY <1>4 DEF Live, Commands, Keep, callVars
  <2>2. pc' = "idle" /\ result' = TRUE
    BY <1>4 DEF Initialized, Return
  <2>3. storage'.initialized
    BY <1>4 DEF Initialized, Inv, TypeOK, Storages
  <2> QED BY <1>4, <2>1, <2>2, <2>3
<1>5. ASSUME Live, Keep, NEW width, SpeedStep(width)
      PROVE  Kind
  <2>1. "switchGet" # "idle"
    OBVIOUS
  <2> HIDE DEF Kind
  <2> QED BY <1>2, <1>3, <1>4, <1>5, <2>1 DEF SpeedStep
<1> HIDE DEF Kind
<1>6. CASE NextSpeed
  <2>1. pc = "slower" /\ pc' = "init" /\ entry' = entry /\ result' = result
    BY <1>6 DEF NextSpeed, Next_, callVars
  <2> QED BY <2>1 DEF Kind
<1>7. CASE sdmmc_init_
  <2>1. /\ pc = "init" /\ entry' = entry /\ Keep /\ sd_mode # SD_INIT_FAIL
        /\ ~storage'.initialized
        /\ Next_("goIdle") \/ Failed
    BY <1>7 DEF sdmmc_init_, Keep, callVars, Zero
  <2>2. CASE Next_("goIdle")
    BY <2>1, <2>2 DEF Next_, Kind
  <2>3. CASE Failed
    <3>1. CASE looping /\ sd_mode # SD_INIT_FAIL
      <4>1. pc' = "slower" /\ result' = result
        BY <2>3, <3>1 DEF Failed, Next_
      <4> QED BY <2>1, <4>1 DEF Kind
    <3>2. CASE ~(looping /\ sd_mode # SD_INIT_FAIL)
      <4>1. pc' = "idle" /\ result' = FALSE
        BY <2>3, <3>2 DEF Failed, Return
      <4> QED BY <2>1, <2>3, <4>1 DEF Kind
    <3> QED BY <3>1, <3>2
  <2> QED BY <2>1, <2>2, <2>3
<1>8. ASSUME pc \in Commands \cup {"lowVoltage"} PROVE Live
  BY <1>8 DEF Live
<1>9. CASE CommandFails
  BY <1>3, <1>8, <1>9 DEF CommandFails, KeepAll
<1>10. CASE go_idle_state
  BY <1>2, <1>8, <1>10 DEF go_idle_state, KeepAll, Commands
<1>11. CASE IfCondFails
  BY <1>2, <1>8, <1>11 DEF IfCondFails, Commands
<1>12. CASE send_if_cond
  BY <1>2, <1>3, <1>8, <1>12 DEF send_if_cond, Answers, Commands
<1>13. CASE get_op_cond
  <2>1. (IF SwitchAgreed THEN "switchVoltage" ELSE "cid") # "idle"
    OBVIOUS
  <2> QED BY <1>2, <1>8, <1>13, <2>1 DEF get_op_cond, Answers, Commands
<1>14. CASE SwitchAnswered
  BY <1>2, <1>8, <1>14 DEF SwitchAnswered, Answers, Commands, KeepAll
<1>15. CASE SwitchFails
  BY <1>2, <1>8, <1>15 DEF SwitchFails, Answers, Commands, KeepAll
<1>16. CASE enable_low_voltage
  BY <1>2, <1>3, <1>8, <1>16 DEF enable_low_voltage
<1>17. CASE RowCommand
  <2> DEFINE to == Row[pc].next
  <2>1. /\ pc \in DOMAIN Row /\ Next_(to) /\ Keep
    BY <1>17 DEF RowCommand, KeepAll
  <2>2. pc \in Commands /\ to # "idle"
    BY <2>1, RowIs DEF Commands
  <2> HIDE DEF to
  <2>3. Live
    BY <1>8, <2>2
  <2> QED BY <1>2, <2>1, <2>2, <2>3
<1>18. CASE get_scr
  <2>1. "busWidth" # "idle" /\ "scr" \in Commands
    BY DEF Commands
  <2> QED BY <1>2, <1>5, <1>8, <1>18, <2>1 DEF get_scr, Answers
<1>19. CASE set_bus_width
  BY <1>5, <1>8, <1>19 DEF set_bus_width, Answers, Commands
<1>20. CASE switch_get
  <2>1. "check" # "idle" /\ "switchGet" \in Commands
    BY DEF Commands
  <2> QED BY <1>2, <1>3, <1>4, <1>8, <1>20, <2>1 DEF switch_get, Answers
<1>21. CASE SwitchCheck
  BY <1>2, <1>8, <1>21 DEF SwitchCheck, Answers, Commands, KeepAll
<1>22. CASE SwitchSet
  <2>1. (IF storage.is_low_voltage THEN "tuning" ELSE "status") # "idle"
    OBVIOUS
  <2> QED BY <1>2, <1>8, <1>22, <2>1 DEF SwitchSet, Answers, Commands, KeepAll
<1>23. CASE tuning_execute
  BY <1>2, <1>8, <1>23 DEF tuning_execute, Answers, Commands, KeepAll
<1>24. CASE check_status
  BY <1>4, <1>8, <1>24 DEF check_status, Answers, Commands
<1> QED
  BY <1>6, <1>7, <1>9, <1>10, <1>11, <1>12, <1>13, <1>14, <1>15, <1>16, <1>17,
     <1>18, <1>19, <1>20, <1>21, <1>22, <1>23, <1>24 DEF InCall

LEMMA NowTypedNext == TypeOK' => Now' \in Device!Card
<1> SUFFICES ASSUME TypeOK' PROVE Now' \in Device!Card
  OBVIOUS
<1>1. /\ h'.pin \in BOOLEAN /\ h'.card_clock_enabled \in BOOLEAN
      /\ storage'.initialized \in BOOLEAN /\ cut' \in BOOLEAN
  BY DEF TypeOK, Hosts, Storages
<1>2. (sd_mode' = SD_INIT_FAIL) \in BOOLEAN
  OBVIOUS
<1> QED BY <1>1, <1>2 DEF Now, Device!Card

LEMMA NowFields ==
  /\ Now.power = h.pin /\ Now.clock = h.card_clock_enabled
  /\ Now.initialized = storage.initialized
  /\ Now.exhausted = (sd_mode = SD_INIT_FAIL) /\ Now.cut = cut
  /\ Now'.power = h'.pin /\ Now'.clock = h'.card_clock_enabled
  /\ Now'.initialized = storage'.initialized
  /\ Now'.exhausted = (sd_mode' = SD_INIT_FAIL) /\ Now'.cut = cut'
BY DEF Now

\* What End and PowerCut make of a card.
LEMMA OffIs ==
  ASSUME NEW c \in Device!Card
  PROVE  /\ Device!Off(c) \in Device!Card
         /\ Device!Off(c).power = FALSE /\ Device!Off(c).clock = FALSE
         /\ Device!Off(c).initialized = FALSE
         /\ Device!Off(c).exhausted = c.exhausted /\ Device!Off(c).cut = c.cut
BY DEF Device!Off, Device!Card

LEMMA CutIs ==
  ASSUME NEW c \in Device!Card
  PROVE  LET d == [c EXCEPT !.power = FALSE, !.cut = TRUE]
         IN /\ d \in Device!Card /\ d.power = FALSE /\ d.cut = TRUE
            /\ d.clock = c.clock /\ d.initialized = c.initialized
            /\ d.exhausted = c.exhausted
BY DEF Device!Card

LEMMA DeviceNext ==
  Inv /\ Inv' /\ [Next]_vars
    => [Device!Next]_<<IF pc = "idle" THEN Now ELSE entry, result>>
<1> DEFINE dcard == IF pc = "idle" THEN Now ELSE entry
           Outcome == [ok |-> result', card |-> dcard']
<1> SUFFICES ASSUME Inv, Inv', [Next]_vars
             PROVE  Device!Next \/ (dcard' = dcard /\ result' = result)
  OBVIOUS
<1>1. /\ Now \in Device!Card /\ Now' \in Device!Card
      /\ entry \in Device!Card /\ entry' \in Device!Card
  BY NowTyped, NowTypedNext DEF Inv, TypeOK
<1>2. /\ pc = "idle" => dcard = Now
      /\ pc # "idle" => dcard = entry
      /\ pc' = "idle" => dcard' = Now'
      /\ pc' # "idle" => dcard' = entry'
  OBVIOUS
<1>e. Outcome \in Device!EndOutcomes(dcard) => Device!Next
  BY DEF Device!Next, Device!End, Device!Returns
<1>i. Outcome \in Device!InitOutcomes(dcard) => Device!Next
  BY DEF Device!Next, Device!Initialize, Device!Returns
<1>t. Outcome \in Device!TransferOutcomes(dcard) => Device!Next
  BY DEF Device!Next, Device!Transfer, Device!Returns
<1>p. \A d : d = dcard' /\ d = [dcard EXCEPT !.power = FALSE, !.cut = TRUE]
             /\ result' = result => Device!Next
  BY DEF Device!Next, Device!PowerCut
<1>o. Outcome.ok = result' /\ Outcome.card = dcard'
  OBVIOUS
<1>3. Device!Plausible(Now')
  BY NowFields DEF Inv, PowerInv, Device!Plausible
<1> HIDE DEF dcard
<1>4. CASE CallEnd
  <2>1. pc = "idle" /\ pc' = "idle" /\ UNCHANGED <<sd_mode, cut>>
    BY <1>4 DEF CallEnd
  <2>2. CASE EndDone /\ result' = TRUE
    <3>1. /\ h'.pin = FALSE /\ h'.card_clock_enabled = FALSE
          /\ storage'.initialized = FALSE /\ Now.clock
      BY <2>2, PowerCycleIs, NowFields DEF Inv, TypeOK, Hosts, Storages
    <3>2. Now' = Device!Off(Now)
      <4> DEFINE d == Device!Off(Now)
      <4>1. /\ d \in Device!Card /\ d.power = FALSE /\ d.clock = FALSE
            /\ d.initialized = FALSE /\ d.exhausted = Now.exhausted
            /\ d.cut = Now.cut
        BY <1>1, OffIs
      <4>2. Now'.power = FALSE /\ Now'.clock = FALSE /\ Now'.initialized = FALSE
        BY <3>1, NowFields
      <4>3. Now'.exhausted = Now.exhausted /\ Now'.cut = Now.cut
        BY <2>1, NowFields
      <4> HIDE DEF d
      <4>4. Now' = d
        BY <1>1, <4>1, <4>2, <4>3, SameCard
      <4> QED BY <4>4 DEF d
    <3> QED
      BY <1>2, <1>e, <2>1, <2>2, <3>1, <3>2 DEF Device!EndOutcomes
  <2>3. CASE EndFailed /\ result' = FALSE
    <3>1. Now' = Now
      BY <1>1, <2>1, <2>3, EndFailedIs, NowFields, SameCard DEF Inv
    <3> QED BY <1>2, <1>e, <2>1, <2>3, <3>1 DEF Device!EndOutcomes
  <2> QED BY <1>4, <2>2, <2>3 DEF CallEnd
<1>5. CASE CallInitialize \/ CallReinitialize
  <2>1. /\ pc = "idle" /\ pc' = "init" /\ entry' = Now /\ result' = result
    BY <1>5 DEF CallInitialize, CallReinitialize, Next_
  <2> QED BY <1>2, <2>1
<1>6. CASE NoSpeedLeft
  <2>1. /\ pc = "init" /\ pc' = "idle" /\ result' = FALSE
        /\ sd_mode = SD_INIT_FAIL
        /\ UNCHANGED <<h, storage, sd_mode, op, looping, entry, cut>>
    BY <1>6 DEF NoSpeedLeft, Failed, Return, hwVars, callVars
  <2>2. /\ Now' = Now /\ Now.exhausted = TRUE /\ Now.cut = cut
        /\ Now.clock = h.card_clock_enabled
        /\ Now.initialized = storage.initialized
    BY <2>1, NowFields DEF Now
  <2>3. dcard = entry /\ dcard' = Now
    BY <1>2, <2>1, <2>2
  <2>4. op \in {"init", "io"} /\ entry.cut = cut
    BY <2>1 DEF Inv, CallInv
  <2>5. CASE op = "io"
    <3>1. entry.initialized
      BY <2>1, <2>5 DEF Inv, CallInv
    <3>2. Now.initialized => Now.clock
      BY <2>2 DEF Inv, PowerInv
    <3>3. Outcome \in Device!TransferOutcomes(entry)
      BY <1>1, <1>3, <2>1, <2>2, <2>3, <2>4, <3>1, <3>2
         DEF Device!TransferOutcomes
    <3> QED BY <1>t, <2>3, <3>3
  <2>6. CASE op = "init" /\ entry.exhausted
    <3>1. Now = entry
      BY <2>1, <2>6 DEF Inv, CallInv
    <3> QED BY <1>i, <2>1, <2>3, <2>6, <3>1 DEF Device!InitOutcomes
  <2>7. CASE op = "init" /\ ~entry.exhausted
    <3>1. ~Now.initialized
      BY <2>1, <2>2, <2>7 DEF Inv, CallInv
    <3>2. Outcome \in Device!InitOutcomes(entry)
      BY <1>1, <1>3, <2>1, <2>2, <2>3, <2>4, <2>7, <3>1
         DEF Device!InitOutcomes
    <3> QED BY <1>i, <2>3, <3>2
  <2> QED BY <2>4, <2>5, <2>6, <2>7
<1>7. CASE InCall /\ ~NoSpeedLeft
  <2>1. pc # "idle" /\ entry' = entry /\ dcard = entry
    BY <1>2, <1>7, StepKinds
  <2>2. CASE pc' # "idle" /\ result' = result
    BY <1>2, <2>1, <2>2
  <2>3. CASE /\ pc' = "idle" /\ result' = FALSE /\ Failed /\ Keep
             /\ sd_mode # SD_INIT_FAIL /\ ~storage'.initialized
    <3>1. ~looping
      BY <2>3 DEF Failed, Next_
    <3>2. /\ op = "io" /\ entry.initialized /\ entry.cut = cut
          /\ ~entry.exhausted
      BY <2>1, <2>3, <3>1 DEF Inv, CallInv
    <3>3. /\ ~Now'.initialized /\ Now'.cut = entry.cut /\ dcard' = Now'
      BY <1>2, <2>3, <3>2, NowFields DEF Keep
    <3>4. Outcome \in Device!TransferOutcomes(entry)
      BY <1>1, <1>3, <2>3, <3>2, <3>3 DEF Device!TransferOutcomes
    <3> QED BY <1>t, <2>1, <3>4
  <2>4. CASE /\ pc' = "idle" /\ result' = TRUE /\ Live /\ Keep
             /\ storage'.initialized
    <3>1. /\ op \in {"init", "io"} /\ entry.cut = cut /\ ~entry.exhausted
          /\ sd_mode # SD_INIT_FAIL /\ (op = "io" => entry.initialized)
      BY <2>4, LiveFacts
    <3>2. h'.card_clock_enabled
      BY <2>4 DEF Inv, PowerInv
    <3>3. /\ Now'.initialized /\ Now'.clock /\ ~Now'.exhausted
          /\ Now'.cut = entry.cut /\ dcard' = Now'
      BY <1>2, <2>4, <3>1, <3>2, NowFields DEF Keep
    <3>4. Now' \in Device!Up(entry)
      BY <1>1, <1>3, <3>3 DEF Device!Up
    <3>5. CASE op = "io"
      <4>1. Outcome \in Device!TransferOutcomes(entry)
        BY <2>4, <3>1, <3>3, <3>4, <3>5 DEF Device!TransferOutcomes
      <4> QED BY <1>t, <2>1, <4>1
    <3>6. CASE op = "init"
      <4>1. Outcome \in Device!InitOutcomes(entry)
        BY <2>4, <3>1, <3>3, <3>4, <3>6 DEF Device!InitOutcomes
      <4> QED BY <1>i, <2>1, <4>1
    <3> QED BY <3>1, <3>5, <3>6
  <2> QED BY <1>7, <2>2, <2>3, <2>4, StepKinds
<1>8. CASE PowerCut
  <2>1. /\ cut' = TRUE /\ entry' = [entry EXCEPT !.power = FALSE, !.cut = TRUE]
        /\ UNCHANGED <<storage, sd_mode, pc, result>>
    BY <1>8 DEF PowerCut
  <2>2. card' = OffCard
    BY <1>8 DEF PowerCut
  <2>3. h'.pin = FALSE
    BY <2>2, OffCardIs DEF Inv, PowerInv, On
  <2>4. h'.card_clock_enabled = h.card_clock_enabled
    <3>1. PICK s \in CutSources : h' = Unpowered(s)
      BY <1>8 DEF PowerCut
    <3>2. h \in Hosts /\ h.source \in Sources
      BY DEF Inv, TypeOK, Hosts
    <3>3. CutSources \subseteq Sources
      BY <3>2, SMT DEF Sources, Clocks, CutSources
    <3> QED BY <3>1, <3>2, <3>3, UnpoweredIs
  <2>5. Now' = [Now EXCEPT !.power = FALSE, !.cut = TRUE]
    <3> DEFINE d == [Now EXCEPT !.power = FALSE, !.cut = TRUE]
    <3>1. /\ d \in Device!Card /\ d.power = FALSE /\ d.cut = TRUE
          /\ d.clock = Now.clock /\ d.initialized = Now.initialized
          /\ d.exhausted = Now.exhausted
      BY <1>1, CutIs
    <3> HIDE DEF d
    <3>2. Now'.power = FALSE /\ Now'.clock = Now.clock
      BY <2>3, <2>4, NowFields
    <3>3. /\ Now'.initialized = Now.initialized /\ Now'.cut = TRUE
          /\ Now'.exhausted = Now.exhausted
      BY <2>1, NowFields
    <3>4. Now' = d
      BY <1>1, <3>1, <3>2, <3>3, SameCard
    <3> QED BY <3>4 DEF d
  <2>6. dcard' = [dcard EXCEPT !.power = FALSE, !.cut = TRUE]
    BY <1>2, <2>1, <2>5
  <2> QED BY <1>p, <2>1, <2>6
<1>9. CASE UNCHANGED vars
  <2>1. Now' = Now /\ pc' = pc /\ entry' = entry /\ result' = result
    BY <1>9 DEF vars, hwVars, callVars, Now
  <2> QED BY <1>2, <2>1
<1> QED BY <1>4, <1>5, <1>6, <1>7, <1>8, <1>9 DEF Next, InCall

\* Command by command, and whatever fails, a bring-up does to the card what the
\* hooks' model takes it to do in one step (nx_sd.c, 33 to 91; sdmmc.c, 1384
\* to 1493).
THEOREM Implements == Spec => ImplementsDevice
<1>1. Init => Device!Init
  <2> SUFFICES ASSUME Init PROVE Device!Init
    OBVIOUS
  <2>1. Now \in Device!Card
    BY InvInit, NowTyped DEF Inv
  <2>2. pc = "idle" /\ result = TRUE /\ cut = FALSE /\ sd_mode = 4
    BY DEF Init, SD_UHS_SDR104
  <2>3. ~h.card_clock_enabled
    BY DEF Init, Left
  <2>4. ~storage.initialized
    BY DEF Init, Zero
  <2>5. ~Now.clock /\ ~Now.initialized /\ ~Now.cut /\ ~Now.exhausted
    <3>1. sd_mode # SD_INIT_FAIL
      BY <2>2 DEF SD_INIT_FAIL
    <3> QED BY <2>2, <2>3, <2>4, <3>1, NowFields
  <2> QED BY <2>1, <2>2, <2>5 DEF Device!Init, Device!FreshCards
<1> QED
  BY InvInvariant, <1>1, DeviceNext, PTL
     DEF Spec, ImplementsDevice, Device!Spec

=============================================================================
