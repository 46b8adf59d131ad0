------------------------------ MODULE MCBms ------------------------------
(***************************************************************************)
(* Values for TLC: one flag of each class that the two error masks tell    *)
(* apart, and one current on each side of both ideal diode thresholds.     *)
(***************************************************************************)
EXTENDS Bms

MCFaults   == {"CELL_OVERVOLTAGE", "CELL_UNDERVOLTAGE"}
MCFaultsOff == {"CELL_UNDERVOLTAGE", "CHG_OFF"}
MCFaultsAll == {"CELL_OVERVOLTAGE", "CELL_UNDERVOLTAGE", "INT_OVERTEMP"}
MCCurrents == {-6, 0, 6}
==========================================================================
