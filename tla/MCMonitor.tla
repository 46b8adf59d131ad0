----------------------------- MODULE MCMonitor -----------------------------
(***************************************************************************)
(* Instances of Monitor.                                                   *)
(***************************************************************************)
EXTENDS Monitor

MCLimits == [chg_oc_limit |-> 4, chg_ot_limit |-> 45, chg_ut_limit |-> 0,
             dis_ot_limit |-> 45, dis_ut_limit |-> -20, temp_limit_hyst |-> 5]

Flagged == [cells |-> <<3700, 3600, 3690>>, stack |-> 10990, temps |-> <<25, 46>>,
            current |-> 1, flags |-> {"CELL_OVERVOLTAGE"}]
Warm == [Flagged EXCEPT !.temps = <<25, 42>>, !.flags = {}]
\* One cell is missing, or its wire is open.
TwoCells == [Warm EXCEPT !.cells = <<3700, 0, 3690>>, !.stack = 7390,
                         !.current = -3, !.temps = <<30, 35>>]
OpenWire == [TwoCells EXCEPT !.stack = 10990]

MCBatteries == {Flagged, Warm, TwoCells, OpenWire}
MCGarbageCurrents == {-9, 9}
MCGarbageFlags == {{}, {"CELL_OVERVOLTAGE"}}
=============================================================================
