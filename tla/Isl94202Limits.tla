--------------------------- MODULE Isl94202Limits ---------------------------
(***************************************************************************)
(* What configure() of the isl94202 driver makes of the configuration, and *)
(* how isl94202_interface.c fits voltages, delays and current limits into  *)
(* registers.  Only current limits are stored back.  Units as in IcConf.   *)
(***************************************************************************)
EXTENDS IcConf

\* Thresholds of the data sheet at the shunt, in mV.
ocd_thresholds == <<4, 8, 16, 24, 32, 48, 64, 96>>
occ_thresholds == <<1, 2, 4, 6, 8, 12, 16, 24>>
dsc_thresholds == <<16, 24, 32, 48, 64, 96, 128, 256>>

DELAY_US == 0
DELAY_MS == 1
DELAY_S == 2
DELAY_MIN == 3

\* Bits C-E, in front of a voltage or of unit and value of a delay.
ExtraBits(n) == 4096 * n
UnitBits(unit) == 1024 * unit

\* isl94202_write_voltage(): voltage * 4095 * 3 / 1.8 / 8
VoltageRaw(v) == U16((v * 819) \div 9600)
VoltageFits(v) == VoltageRaw(v) <= 4095
write_voltage(v, extra) == ExtraBits(extra) + VoltageRaw(v)

\* isl94202_write_delay(): a value above 10 bits goes to the next unit.
DelayFits(unit, value) ==
  /\ unit <= DELAY_MIN
  /\ value > 1023 => unit <= DELAY_S
write_delay(unit, value, extra) ==
  LET larger == IF unit < DELAY_S THEN value \div 1000 ELSE value \div 60
  IN  ExtraBits(extra) + (IF value > 1023 THEN UnitBits(unit + 1) + larger
                                          ELSE UnitBits(unit) + value)

\* The rejected ones among these writes are left out.
Writes(accepted, part) ==
  [part EXCEPT !.writes = [r \in DOMAIN part.writes \intersect accepted
                             |-> part.writes[r]],
               !.failures = {{r} : r \in DOMAIN part.writes \intersect accepted},
               !.refused = ~ DOMAIN part.writes \subseteq accepted]

CellLimits(limit, reset, delay, names) ==
  LET accepted == {n \in {names[1]} : VoltageFits(limit)}
                    \union {n \in {names[2]} : VoltageFits(reset)}
                    \union {n \in {names[3]} : DelayFits(DELAY_MS, U16(delay))}
  IN  Writes(accepted,
        Part([n \in {names[1], names[2], names[3]} |->
                IF n = names[1] THEN write_voltage(limit, 1)
                ELSE IF n = names[2] THEN write_voltage(reset, 0)
                ELSE write_delay(DELAY_MS, U16(delay), 0)],
             <<>>))

CellOvp(c) == CellLimits(c.cell_ov_limit, c.cell_ov_reset, c.cell_ov_delay_ms,
                         <<"OVL_CPW", "OVR", "OVDT">>)
CellUvp(c) == CellLimits(c.cell_uv_limit, c.cell_uv_reset, c.cell_uv_delay_ms,
                         <<"UVL_LPW", "UVR", "UVDT">>)

--------------------------------------------------------------------------
\* isl94202_activate() ends with the first write that fails.
Activation ==
  FailingWith({{"MOD_CELL", "SETUP0", "CTRL2"}, {"SETUP0", "CTRL2"}, {"CTRL2"}},
    Part([MOD_CELL |-> "cells of the board", SETUP0 |-> {"XT2M"},
          CTRL2 |-> {"UCFET"}], <<>>))

--------------------------------------------------------------------------
\* isl94202_write_current_limit()
ChosenThreshold(thresholds, limit) ==
  ChosenEntry(thresholds, U16(limit \div 1000))
CurrentLimit(thresholds, limit, unit, delay) ==
  write_delay(unit, U16(delay), ChosenThreshold(thresholds, limit) - 1)
AppliedLimit(thresholds, limit) ==
  1000 * thresholds[ChosenThreshold(thresholds, limit)]

ChgOcp(c) ==
  OnSuccess(Part(
    [OCCT_OCC |-> CurrentLimit(occ_thresholds, c.chg_oc_limit, DELAY_MS,
                               c.chg_oc_delay_ms)],
    [chg_oc_limit |-> AppliedLimit(occ_thresholds, c.chg_oc_limit)]))

DisOcp_Upper(c) ==  \* mutant
  OnSuccess(Part(
    [OCDT_OCD |-> CurrentLimit(ocd_thresholds, c.dis_oc_limit, DELAY_MS,
                               c.dis_oc_delay_ms)],
    [dis_oc_limit |-> 1000 * ocd_thresholds[
       AtMost(ChosenThreshold(ocd_thresholds, c.dis_oc_limit) + 1, 8)]]))

DisOcp(c) ==
  OnSuccess(Part(
    [OCDT_OCD |-> CurrentLimit(ocd_thresholds, c.dis_oc_limit, DELAY_MS,
                               c.dis_oc_delay_ms)],
    [dis_oc_limit |-> AppliedLimit(ocd_thresholds, c.dis_oc_limit)]))

DisScp(c) ==
  OnSuccess(Part(
    [SCDT_SCD |-> CurrentLimit(dsc_thresholds, c.dis_sc_limit, DELAY_US,
                               c.dis_sc_delay_us)],
    [dis_sc_limit |-> AppliedLimit(dsc_thresholds, c.dis_sc_limit)]))

--------------------------------------------------------------------------
\* Voltage of the thermistor divider in uV, and its ADC value at gain 2.
lut_temp_degc == <<80, 50, 25, 0, -40>>
lut_temp_volt == <<153000, 295000, 463000, 710000, 755000>>

TempRaw(t) ==
  ((interpolate(lut_temp_degc, lut_temp_volt, t) * 91) \div 20000) % 4096

\* The error of the last write is not collected.
TempLimits(c) ==
  Unreported({"DUTR"}, Part(
       [COTS |-> TempRaw(c.chg_ot_limit),
        COTR |-> TempRaw(c.chg_ot_limit - c.temp_limit_hyst),
        CUTS |-> TempRaw(c.chg_ut_limit),
        CUTR |-> TempRaw(c.chg_ut_limit + c.temp_limit_hyst),
        DOTS |-> TempRaw(c.dis_ot_limit),
        DOTR |-> TempRaw(c.dis_ot_limit - c.temp_limit_hyst),
        DUTS |-> TempRaw(c.dis_ut_limit),
        DUTR |-> TempRaw(c.dis_ut_limit + c.temp_limit_hyst)], <<>>))

\* EOC is set to the same voltage as CBMIN to balance in idle, too.
Balancing(c) ==
  LET min == c.bal_cell_voltage_min
      diff == c.bal_cell_voltage_diff
      accepted == {n \in {"CBMIN", "EOC"} : VoltageFits(min)}
                    \union {n \in {"CBMINDV"} : VoltageFits(diff)}
                    \union {"CBMAX", "CBMAXDV", "SETUP1"}
  IN  Writes(accepted,
        Part([CBMIN |-> write_voltage(min, 0), CBMAX |-> write_voltage(45000, 0),
              CBMINDV |-> write_voltage(diff, 0),
              CBMAXDV |-> write_voltage(10000, 0),
              EOC |-> write_voltage(min, 0),
              SETUP1 |-> IF c.auto_balancing THEN {"CBDC", "CB_EOC"} ELSE {}],
             <<>>))
=============================================================================
