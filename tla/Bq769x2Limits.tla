--------------------------- MODULE Bq769x2Limits ---------------------------
(***************************************************************************)
(* What configure() of the bq769x2 driver makes of the configuration, one  *)
(* operator per configure function.  Units as in IcConf.                   *)
(***************************************************************************)
EXTENDS IcConf, TLC

CONSTANTS
  BoardMaxCurrent,  \* board-max-current at the shunt, in uV
  BoardRegs         \* regulators switched on by reg0-config and reg12-config

\* Settings of the board that are written without conversion.
Board == "board"

\* LSB of the voltage thresholds and of the overcurrent thresholds.
CellStep == 506
ShuntStep == 2000

scd_thresholds == <<10, 20, 40, 60, 80, 100, 125, 150, 175, 200, 250, 300,
                    350, 400, 450, 500>>

(***************************************************************************)
(* init_config(): FET_ENABLE is only sent when nothing has failed before;  *)
(* the number of cells is only written when they match the stack voltage.  *)
(***************************************************************************)
BeforeFetEnable == [CC_GAIN |-> Board, DA |-> 6, FETS |-> {}]
AfterFetEnable ==
  [POWER |-> "no sleep", BODY_DIODE_TH |-> 500, FET_OPTIONS |-> Board,
   PDSG_TIMEOUT |-> 0, PIN_CONFIG |-> Board,
   REG0 |-> BoardRegs \intersect {0}, REG12 |-> BoardRegs \intersect {1, 2},
   CBAL_MAX_CELLS |-> Board, VCELL_MODE |-> Board]

InitConfig ==
  FailingWith({{r, "FET_EN"} : r \in DOMAIN BeforeFetEnable}
                \union {{r} : r \in DOMAIN AfterFetEnable \union {"FET_EN"}},
              Part(BeforeFetEnable @@ [FET_EN |-> 1] @@ AfterFetEnable, <<>>))

--------------------------------------------------------------------------
cov_threshold(c) ==
  CLAMP(U8(lroundf(c.cell_ov_limit, CellStep)), 20, 110)
cov_hyst(c) ==
  CLAMP(U8(lroundf(AtLeast(c.cell_ov_limit - c.cell_ov_reset, 0), CellStep)),
        2, 20)
\* 3.3 ms per unit.
VoltageDelay(ms) == CLAMP(U16(lroundf(10 * ms, 33)), 1, 2047)

CellOvp(c) ==
  LET t == cov_threshold(c)
      h == cov_hyst(c)
      d == VoltageDelay(c.cell_ov_delay_ms)
  IN  Part([COV_THRESHOLD |-> t, COV_RECOV_HYST |-> h, COV_DELAY |-> d],
           [cell_ov_limit |-> t * CellStep,
            cell_ov_reset |-> (t - h) * CellStep,
            cell_ov_delay_ms |-> (33 * d) \div 10])

cuv_threshold(c) ==
  CLAMP(U8(lroundf(c.cell_uv_limit, CellStep)), 20, 90)
cuv_hyst(c) ==
  CLAMP(U8(lroundf(AtLeast(c.cell_uv_reset - c.cell_uv_limit, 0), CellStep)),
        2, 20)

CellUvp(c) ==
  LET t == cuv_threshold(c)
      h == cuv_hyst(c)
      d == VoltageDelay(c.cell_uv_delay_ms)
  IN  Enabling({"CUV"},
        Part([CUV_THRESHOLD |-> t, CUV_RECOV_HYST |-> h, CUV_DELAY |-> d],
             [cell_uv_limit |-> t * CellStep,
              cell_uv_reset |-> (t + h) * CellStep,
              cell_uv_delay_ms |-> (33 * d) \div 10]))

--------------------------------------------------------------------------
TempThreshold(t) == CLAMP(t, -40, 120)

TempLimits(c) ==
  LET hyst == CLAMP(c.temp_limit_hyst, 1, 20)
      otc == TempThreshold(c.chg_ot_limit)
      otd == TempThreshold(c.dis_ot_limit)
      utc == TempThreshold(c.chg_ut_limit)
      utd == TempThreshold(c.dis_ut_limit)
      recovery == [OTC |-> otc - hyst, OTD |-> otd - hyst,
                   UTC |-> utc + hyst, UTD |-> utd + hyst]
      implausible == \/ c.dis_ot_limit < 0
                     \/ c.chg_ot_limit < 0
                     \/ c.dis_ot_limit < c.dis_ut_limit + 20
                     \/ c.chg_ot_limit < c.chg_ut_limit + 20
  IN  IF implausible THEN Refused(Nothing)
      ELSE Enabling({"OTC", "OTD", "UTC", "UTD"},
             Part([OTC_THRESHOLD |-> otc, OTD_THRESHOLD |-> otd,
                   UTC_THRESHOLD |-> utc, UTD_THRESHOLD |-> utd,
                   OTC_RECOVERY |-> TempThreshold(recovery.OTC),
                   OTD_RECOVERY |-> TempThreshold(recovery.OTD),
                   UTC_RECOVERY |-> TempThreshold(recovery.UTC),
                   UTD_RECOVERY |-> TempThreshold(recovery.UTD)],
                  [chg_ot_limit |-> otc, dis_ot_limit |-> otd,
                   chg_ut_limit |-> utc, dis_ut_limit |-> utd,
                   temp_limit_hyst |-> hyst]))

--------------------------------------------------------------------------
\* 2 mV per unit of the threshold; 3.3 ms and 6.6 ms of offset in the delay.
oc_threshold_Up(limit, most) ==  \* mutant
  CLAMP(U8(AtMost(limit, BoardMaxCurrent) \div ShuntStep + 1), 2, most)

oc_threshold(limit, most) ==
  CLAMP(U8(lroundf(AtMost(limit, BoardMaxCurrent), ShuntStep)), 2, most)
oc_delay(ms) == CLAMP(lroundf(10 * ms - 66, 33), 1, 127)
OcDelayMs(d) == lroundf(66 + 33 * d, 10)

ChgOcp(c) ==
  LET t == oc_threshold(c.chg_oc_limit, 62)
      d == oc_delay(c.chg_oc_delay_ms)
  IN  Enabling({"OCC"},
        Part([OCC_THRESHOLD |-> t, OCC_DELAY |-> d],
             [chg_oc_limit |-> t * ShuntStep,
              chg_oc_delay_ms |-> OcDelayMs(d)]))

DisOcp(c) ==
  LET t == oc_threshold(c.dis_oc_limit, 100)
      d == oc_delay(c.dis_oc_delay_ms)
  IN  Enabling({"OCD1"},
        Part([OCD1_THRESHOLD |-> t, OCD1_DELAY |-> d],
             [dis_oc_limit |-> t * ShuntStep,
              dis_oc_delay_ms |-> OcDelayMs(d)]))

DisScp(c) ==
  LET t == ChosenEntry(scd_thresholds, U16(c.dis_sc_limit \div 1000))
      d == CLAMP(U16(c.dis_sc_delay_us \div 15 + 1), 1, 31)
  IN  Part([SCD_THRESHOLD |-> t - 1, SCD_DELAY |-> d],
           [dis_sc_limit |-> scd_thresholds[t] * 1000,
            dis_sc_delay_us |-> (d - 1) * 15])

--------------------------------------------------------------------------
(***************************************************************************)
(* Voltages and currents are truncated to mV and mA.  The limits of dis-   *)
(* charging apply to balancing, too.  The configuration is only touched    *)
(* when all has been written.                                              *)
(***************************************************************************)
Balancing(c) ==
  LET min == c.bal_cell_voltage_min \div 10
      delta == c.bal_cell_voltage_diff \div 10
  IN  OnSuccess(
        Part([CBAL_MIN_CELL_V |-> min, CBAL_MIN_DELTA |-> delta,
              CBAL_MIN_CELL_TEMP |-> TempThreshold(c.dis_ut_limit),
              CBAL_MAX_CELL_TEMP |-> TempThreshold(c.dis_ot_limit),
              CURR_TH |-> c.bal_idle_current,
              CBAL_CONF |-> IF c.auto_balancing THEN 3 ELSE 0],
             [bal_cell_voltage_min |-> 10 * min,
              bal_cell_voltage_diff |-> 10 * delta]))

\* Errors that the IC can signal with its ALERT pin.
AlertsA == {"CELL_UNDERVOLTAGE", "CELL_OVERVOLTAGE", "SHORT_CIRCUIT",
            "DIS_OVERCURRENT", "CHG_OVERCURRENT"}
AlertsB == {"DIS_UNDERTEMP", "DIS_OVERTEMP", "CHG_UNDERTEMP", "CHG_OVERTEMP",
            "INT_OVERTEMP", "FET_OVERTEMP"}

Alerts(c) ==
  Part([ALERT_MASK_A |-> c.alert_mask \intersect AlertsA,
        ALERT_MASK_B |-> c.alert_mask \intersect AlertsB,
        ALARM_DEFAULT_MASK |-> {"SF_ALERT"}],
       [alert_mask |-> c.alert_mask \intersect (AlertsA \union AlertsB)])

\* The voltages of the regulators are kept, REG0 .. REG2 switched on or off.
\* The first access reads REG12.
VoltageRegs(c) ==
  LET part ==
        Part([REG0 |-> c.vregs_enable \intersect {0},
              REG12 |-> c.vregs_enable \intersect {1, 2}],
             [vregs_enable |-> c.vregs_enable \intersect {0, 1, 2}])
  IN  OnSuccess(FailingWith(part.failures \union {DOMAIN part.writes}, part))
=============================================================================
