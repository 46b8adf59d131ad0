------------------------------- MODULE IcConf -------------------------------
(***************************************************************************)
(* The configuration of the BMS ICs (struct bms_ic_conf), its defaults,    *)
(* and what a part of a driver's configure() makes of it.                  *)
(*                                                                         *)
(* Units: voltages in 0.1 mV, currents as the voltage they cause at the    *)
(* shunt in uV, temperatures in degrees, delays as in the source.          *)
(***************************************************************************)
EXTENDS Conversions, FiniteSets

CellTypes == {"LFP", "NMC", "LTO"}

\* Error flags that can be assigned to alerts.
Errors == {"CELL_UNDERVOLTAGE", "CELL_OVERVOLTAGE", "SHORT_CIRCUIT",
           "DIS_OVERCURRENT", "CHG_OVERCURRENT", "DIS_UNDERTEMP",
           "DIS_OVERTEMP", "CHG_UNDERTEMP", "CHG_OVERTEMP", "INT_OVERTEMP",
           "FET_OVERTEMP", "OPEN_WIRE", "CELL_FAILURE", "DIS_OFF", "CHG_OFF"}

CellVoltages(type) ==
  [LFP |-> [ov |-> 38000, ov_reset |-> 34000, bal |-> 33000,
            uv_reset |-> 31000, uv |-> 25000],
   NMC |-> [ov |-> 42500, ov_reset |-> 40500, bal |-> 38000,
            uv_reset |-> 35000, uv |-> 30000],
   LTO |-> [ov |-> 28500, ov_reset |-> 27000, bal |-> 25000,
            uv_reset |-> 21000, uv |-> 19000]][type]

\* bms_init_config(): 1 C is the limit of both currents.
bms_init_config(type, capacity) ==
  LET v == CellVoltages(type)
  IN  [cell_ov_limit |-> v.ov, cell_ov_reset |-> v.ov_reset,
       cell_ov_delay_ms |-> 2000,
       cell_uv_limit |-> v.uv, cell_uv_reset |-> v.uv_reset,
       cell_uv_delay_ms |-> 2000,
       chg_oc_limit |-> capacity, chg_oc_delay_ms |-> 320,
       dis_oc_limit |-> capacity, dis_oc_delay_ms |-> 320,
       dis_sc_limit |-> 2 * capacity, dis_sc_delay_us |-> 200,
       dis_ut_limit |-> -20, dis_ot_limit |-> 45,
       chg_ut_limit |-> 0, chg_ot_limit |-> 45, temp_limit_hyst |-> 5,
       bal_cell_voltage_diff |-> 100, bal_cell_voltage_min |-> v.bal,
       bal_idle_current |-> 100, bal_idle_delay |-> 1800,
       auto_balancing |-> TRUE, vregs_enable |-> {}, alert_mask |-> Errors]

--------------------------------------------------------------------------
(***************************************************************************)
(* A part of configure(): the values it writes to registers, the sets of   *)
(* registers that may be left unwritten when a transfer fails, and those   *)
(* for which that is not reported, what it stores back in the configura-   *)
(* tion as actually applied, and whether it does so after an error, the    *)
(* protections it enables at last, and whether it refuses its input.       *)
(***************************************************************************)
Part(writes, back) ==
  [writes |-> writes, failures |-> {{r} : r \in DOMAIN writes},
   unreported |-> {}, back |-> back, backOnError |-> TRUE,
   enables |-> {}, refused |-> FALSE]

Enabling(protections, part) == [part EXCEPT !.enables = protections]
OnSuccess(part) == [part EXCEPT !.backOnError = FALSE]
\* The transfers of the part end with the first that fails.
FailingWith(failures, part) == [part EXCEPT !.failures = failures]
Unreported(registers, part) == [part EXCEPT !.unreported = registers]
\* Values in the memory of the driver.
Cached(part) == FailingWith({}, part)
Refused(part) == [part EXCEPT !.refused = TRUE]
Nothing == Part(<<>>, <<>>)
=============================================================================
