---------------------------- MODULE Measurement ----------------------------
(***************************************************************************)
(* What read_data() of the drivers makes of the battery: voltages with     *)
(* their statistics, temperatures, current and error flags in struct       *)
(* bms_ic_data, for every transfer that may fail; and the detection of the *)
(* connected cells by the bq769x2 driver.                                  *)
(*                                                                         *)
(* A battery b is a record of what the IC measures: the voltages of its    *)
(* cells and of the stack in mV, temperatures in degrees, the current, and *)
(* the error flags of the IC.  failed is the set of transfers that fail.   *)
(***************************************************************************)
EXTENDS Conversions, FiniteSetsExt, Functions

CONSTANTS
  Limits,          \* limits that the bq769x0 driver supervises, see IcConf
  GarbageCurrents, \* what the isl94202 driver makes of an uninitialised
  GarbageFlags     \* buffer

ASSUME MeasurementAssumption ==
  /\ {Limits.temp_limit_hyst, Limits.chg_oc_limit} \subseteq Nat
  /\ {Limits.chg_ot_limit, Limits.chg_ut_limit, Limits.dis_ot_limit,
      Limits.dis_ut_limit} \subseteq Int
  /\ GarbageCurrents \subseteq Int /\ GarbageFlags # {}

Cell(i) == <<"cell", i>>
Temp(i) == <<"temp", i>>
Transfers(b) ==
  {Cell(i) : i \in DOMAIN b.cells} \union {Temp(i) : i \in DOMAIN b.temps}
    \union {<<"stack", 0>>, <<"current", 0>>, <<"status", 0>>}

SumOf(f) == FoldFunction(LAMBDA x, y : x + y, 0, f)

\* A failed read leaves the local variable as it was before.
Carried(values, failures, first) ==
  [i \in DOMAIN values |->
     LET good == {j \in 1 .. i : j \notin failures}
     IN  IF good = {} THEN first ELSE values[Max(good)]]

\* What comes before the first failure.
Prefix(values, failures) == {i \in DOMAIN values : \A j \in failures : i < j}

FailedCells(b, failed) == {i \in DOMAIN b.cells : Cell(i) \in failed}
FailedTemps(b, failed) == {i \in DOMAIN b.temps : Temp(i) \in failed}

--------------------------------------------------------------------------
(***************************************************************************)
(* Cell voltages.  Without a connected cell the average is NaN, which com- *)
(* pares like a value below all others in the code that uses it.           *)
(***************************************************************************)
Connected(voltages) == {i \in DOMAIN voltages : voltages[i] > 500}
NaN == -1

Average(voltages) ==
  LET connected == Connected(voltages)
  IN  IF connected = {} THEN NaN
      ELSE SumOf([i \in connected |-> voltages[i]]) \div Cardinality(connected)

\* The extremes start from 0 V and 10 V, or from the first cell.
WithStatistics(chip, d, voltages) ==
  LET low == {voltages[i] : i \in Connected(voltages)}
  IN  [d EXCEPT !.voltages = voltages,
                !.connected = Cardinality(Connected(voltages)),
                !.avg = Average(voltages),
                !.max = Max(Range(voltages) \union
                              IF chip = "isl94202" THEN {} ELSE {0}),
                !.min = Min(low \union IF chip = "isl94202" THEN {voltages[1]}
                                       ELSE {10000})]

ReadCells(chip, d, b, failed) ==
  LET failures == FailedCells(b, failed)
      read == Prefix(b.cells, failures)
  IN  IF chip = "bq769x0" /\ failures # {}
      THEN [d EXCEPT !.voltages = [i \in DOMAIN @ |->
                                     IF i \in read THEN b.cells[i] ELSE @[i]]]
      ELSE WithStatistics(chip, d, Carried(b.cells, failures, 0))

\* The isl94202 driver takes the sum of the cells.
ReadTotal(chip, d, b, failed) ==
  LET fails == <<"stack", 0>> \in failed
  IN  [d EXCEPT !.total =
         IF chip = "isl94202"
         THEN SumOf([i \in Connected(d.voltages) |-> d.voltages[i]])
         ELSE IF ~ fails THEN b.stack
         ELSE IF chip = "bq769x0" THEN @ ELSE 0]

--------------------------------------------------------------------------
WithTemps(d, temps) ==
  [d EXCEPT !.temps = temps, !.tmax = Max(Range(temps)), !.tmin = Min(Range(temps))]

\* The extremes are updated with each thermistor.
ReadTempsBq769x0(d, b, failed) ==
  LET read == Prefix(b.temps, FailedTemps(b, failed))
      values == {b.temps[i] : i \in read}
  IN  IF read = {} THEN d
      ELSE [d EXCEPT !.temps = [i \in DOMAIN @ |->
                                  IF i \in read THEN b.temps[i] ELSE @[i]],
                     !.tmax = Max(values), !.tmin = Min(values)]

\* 0 K in degrees.
ReadTempsBq769x2(d, b, failed) ==
  WithTemps(d, Carried(b.temps, FailedTemps(b, failed), -273))

\* There is one thermistor for the cells, and the table of its voltages ends
\* at -40 and 80 degrees.  When it cannot be read, the reading of the internal
\* temperature is taken for its voltage, which gives 39 to 67 degrees.
ReadTempsIsl94202(d, b, failed) ==
  LET values == IF Temp(1) \in failed THEN {39, 67}
                ELSE {CLAMP(b.temps[1], -40, 80)}
  IN  {[d EXCEPT !.tmax = v, !.tmin = v] : v \in values}

ReadTemps(chip, d, b, failed) ==
  IF chip = "bq769x0" THEN {ReadTempsBq769x0(d, b, failed)}
  ELSE IF chip = "bq769x2" THEN {ReadTempsBq769x2(d, b, failed)}
  ELSE ReadTempsIsl94202(d, b, failed)

ReadCurrent(chip, d, b, failed) ==
  LET values == IF <<"current", 0>> \notin failed THEN {b.current}
                ELSE IF chip = "bq769x0" THEN {d.current}
                ELSE IF chip = "bq769x2" THEN {0}
                ELSE GarbageCurrents
  IN  {[d EXCEPT !.current = v] : v \in values}

--------------------------------------------------------------------------
(***************************************************************************)
(* Error flags.  The driver of the bq769x0 supervises the temperatures and *)
(* the charging current, with what has been read of them.                  *)
(***************************************************************************)
\* mutant
Hysteresis_None(flag, d) == 0

Hysteresis(flag, d) == IF flag \in d.flags THEN Limits.temp_limit_hyst ELSE 0
If(condition, flag) == {f \in {flag} : condition}

Supervised(d) ==
  If(d.current > Limits.chg_oc_limit, "CHG_OVERCURRENT")
  \union If(d.tmax > Limits.chg_ot_limit - Hysteresis("CHG_OVERTEMP", d),
            "CHG_OVERTEMP")
  \union If(d.tmin < Limits.chg_ut_limit + Hysteresis("CHG_UNDERTEMP", d),
            "CHG_UNDERTEMP")
  \union If(d.tmax > Limits.dis_ot_limit - Hysteresis("DIS_OVERTEMP", d),
            "DIS_OVERTEMP")
  \union If(d.tmin < Limits.dis_ut_limit + Hysteresis("DIS_UNDERTEMP", d),
            "DIS_UNDERTEMP")

ReadErrorFlags(chip, d, b, failed) ==
  LET values == IF <<"status", 0>> \in failed
                THEN IF chip = "isl94202" THEN GarbageFlags ELSE {d.flags}
                ELSE {b.flags \union IF chip = "bq769x0" THEN Supervised(d) ELSE {}}
  IN  {[d EXCEPT !.flags = v] : v \in values}

--------------------------------------------------------------------------
(***************************************************************************)
(* read_data() with BMS_IC_DATA_ALL, the results in ic_data, and whether   *)
(* it returns 0.                                                           *)
(***************************************************************************)
NoData(b) ==
  [voltages |-> [i \in DOMAIN b.cells |-> 0], connected |-> 0, avg |-> 0,
   min |-> 0, max |-> 0, total |-> 0, temps |-> [i \in DOMAIN b.temps |-> 0],
   tmin |-> 0, tmax |-> 0, current |-> 0, flags |-> {}]

ReadData(chip, d, b, failed) ==
  LET voltages == ReadTotal(chip, ReadCells(chip, d, b, failed), b, failed)
  IN  UNION {UNION {ReadErrorFlags(chip, d2, b, failed) :
                      d2 \in ReadCurrent(chip, d1, b, failed)} :
               d1 \in ReadTemps(chip, voltages, b, failed)}

\* mutant
Succeeds_Overwritten(chip, failed) == chip = "isl94202" \/ <<"status", 0>> \notin failed

Succeeds(chip, failed) == chip = "isl94202" \/ failed = {}

(***************************************************************************)
(* detect_cells() of the bq769x2: the set of the cells it takes for con-   *)
(* nected is written to VCELL_MODE when their sum agrees with the voltage  *)
(* of the stack, read in 10 mV.  The bounds are unsigned.                  *)
(***************************************************************************)
StackRead(b, failed) == IF <<"stack", 0>> \in failed THEN 32767 ELSE b.stack \div 10
DetectedVoltages(b, failed) ==
  Carried(b.cells, FailedCells(b, failed), StackRead(b, failed))

\* mutant
Plausible_Always(sum, stack, n) == TRUE

Plausible(sum, stack, n) ==
  /\ stack >= 50 * n
  /\ sum \in stack - 50 * n .. stack + 50 * n

detect_cells(b, failed) ==
  LET voltages == DetectedVoltages(b, failed)
      cells == Connected(voltages)
      sum == SumOf([i \in cells |-> voltages[i]])
  IN  IF Plausible(sum, 10 * StackRead(b, failed), Cardinality(cells))
      THEN {cells} ELSE {}
=============================================================================
