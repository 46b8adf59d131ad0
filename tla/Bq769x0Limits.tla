--------------------------- MODULE Bq769x0Limits ---------------------------
(***************************************************************************)
(* What configure() of the bq769x0 driver makes of the configuration.      *)
(* The limits of the cell voltages depend on gain and offset of the ADC,   *)
(* which are read from the IC when it is activated.  Units as in IcConf.   *)
(***************************************************************************)
EXTENDS IcConf

CONSTANT AnyTrip  \* bytes that stand for all results of undefined arithmetic

scd_delays == <<70, 100, 200, 400>>                        \* us
scd_thresholds == <<44, 67, 89, 111, 133, 155, 178, 200>>  \* mV
ocd_delays == <<8, 20, 40, 80, 160, 320, 640, 1280>>       \* ms
ocd_thresholds == <<17, 22, 28, 33, 39, 44, 50, 56, 61, 67, 72, 78, 83, 89,
                    94, 100>>                              \* mV
uv_delays == <<1, 4, 8, 16>>                               \* s
ov_delays == <<1, 2, 4, 8>>                                \* s

--------------------------------------------------------------------------
(***************************************************************************)
(* The 14 bit ADC value of a limit in mV has a fixed start of two bits and *)
(* a fixed end of four; the trip register holds the byte between.  The     *)
(* limit times 1000 is an int of 32 bits, and the gain is 0 unless the     *)
(* activation has read it: both are undefined in C.                        *)
(***************************************************************************)
Undefined(mV, adc) ==
  adc.gain = 0 \/ Abs(mV - adc.offset) > 2147483

Quotient(mV, adc) == Truncated((mV - adc.offset) * 1000, adc.gain)

Trips(mV, adc) ==
  IF Undefined(mV, adc) THEN AnyTrip ELSE {U8(Quotient(mV, adc) \div 16)}

\* (1U << 13 | trip << 4) and (1U << 12 | trip << 4), for trips of 9 bits
OvLevel(trip) == 8192 + 16 * trip
UvLevel(trip) == 4096 + 16 * U8(trip)

\* The number of mV, stored in a field in V.
Stored(level, adc) == 10000 * ((level * adc.gain) \div 1000 + adc.offset)

\* The delays of the configuration are in ms, those of the table in s.
CellOvp(c, adc, trip) ==
  LET d == ChosenEntry(ov_delays, c.cell_ov_delay_ms)
  IN  FailingWith({{"OV_TRIP", "OV_DELAY"}, {"OV_DELAY"}}, OnSuccess(
        Part([OV_TRIP |-> trip, OV_DELAY |-> d - 1],
             [cell_ov_limit |-> Stored(OvLevel(trip), adc),
              cell_ov_delay_ms |-> ov_delays[d]])))

\* Rounded up after it has been cut to a byte; the register takes a byte.
CellUvp(c, adc, trip) ==
  LET d == ChosenEntry(uv_delays, c.cell_uv_delay_ms)
      rounded == trip + 1
  IN  FailingWith({{"UV_TRIP", "UV_DELAY"}, {"UV_DELAY"}}, OnSuccess(
        Part([UV_TRIP |-> U8(rounded), UV_DELAY |-> d - 1],
             [cell_uv_limit |-> Stored(UvLevel(rounded), adc),
              cell_uv_delay_ms |-> uv_delays[d]])))

CellOvps(c, adc) ==
  {CellOvp(c, adc, t) : t \in Trips(c.cell_ov_limit \div 10, adc)}
CellUvps(c, adc) ==
  {CellUvp(c, adc, t) : t \in Trips(c.cell_uv_limit \div 10, adc)}

--------------------------------------------------------------------------
\* activate() switches the ADC on and discharging and charging off.  The
\* offset is a signed byte in the IC, but taken for an unsigned one.
Activation ==
  Part([SYS_CTRL1 |-> {"ADC_EN", "TEMP_SEL"}, SYS_CTRL2 |-> {"CC_EN"}], <<>>)

adc_gain(register) == 365 + register
adc_offset(register) == U8(register)
\* The extremes of what can be read.
AnyAdc == {[gain |-> adc_gain(0), offset |-> adc_offset(0)],
           [gain |-> adc_gain(31), offset |-> adc_offset(-1)]}

--------------------------------------------------------------------------
\* Temperatures and the current of charging are supervised by the driver.
TempLimits(c) ==
  Cached(Part([dis_ot_limit |-> c.dis_ot_limit, dis_ut_limit |-> c.dis_ut_limit,
               chg_ot_limit |-> c.chg_ot_limit, chg_ut_limit |-> c.chg_ut_limit,
               temp_limit_hyst |-> c.temp_limit_hyst], <<>>))

ChgOcp(c) ==
  Cached(Part([chg_oc_limit |-> c.chg_oc_limit,
               chg_oc_delay_ms |-> c.chg_oc_delay_ms], <<>>))

DisOcp(c) ==
  LET t == ChosenEntry(ocd_thresholds, c.dis_oc_limit \div 1000)
      d == ChosenEntry(ocd_delays, c.dis_oc_delay_ms)
  IN  OnSuccess(Part([PROTECT2 |-> <<t - 1, d - 1>>],
                     [dis_oc_limit |-> 1000 * ocd_thresholds[t],
                      dis_oc_delay_ms |-> ocd_delays[d]]))

DisScp(c) ==
  LET t == ChosenEntry(scd_thresholds, c.dis_sc_limit \div 1000)
      d == ChosenEntry(scd_delays, c.dis_sc_delay_us)
  IN  OnSuccess(Part([PROTECT1 |-> <<t - 1, d - 1>>],
                     [dis_sc_limit |-> 1000 * scd_thresholds[t],
                      dis_sc_delay_us |-> scd_delays[d]]))

\* Bq769x0Balancing models what automatic balancing does with these.
Balancing(c) ==
  Cached(Part([bal_cell_voltage_diff |-> c.bal_cell_voltage_diff,
               bal_cell_voltage_min |-> c.bal_cell_voltage_min,
               bal_idle_current |-> c.bal_idle_current,
               bal_idle_delay |-> c.bal_idle_delay,
               auto_balancing |-> c.auto_balancing], <<>>))

Alerts(c) == Cached(Part([alert_mask |-> c.alert_mask], <<>>))
=============================================================================
