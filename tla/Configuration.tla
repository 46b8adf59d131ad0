--------------------------- MODULE Configuration ---------------------------
(***************************************************************************)
(* The configuration of the BMS IC: from its defaults or the non-volatile  *)
(* memory at boot, changed by ThingSet requests, applied to the registers  *)
(* of the IC by configure(), stored back as actually applied, and saved.   *)
(*                                                                         *)
(* The main thread configures the IC at boot while the ThingSet thread     *)
(* already accepts requests; nothing locks the configuration.  The MCU may *)
(* restart at any time, the IC keeps its registers.  Transfers may fail.   *)
(***************************************************************************)
EXTENDS Integers, Sequences, FiniteSets

CONSTANTS
  Chips,           \* the drivers looked at
  CellType,        \* CONFIG_CELL_TYPE
  Capacity,        \* CONFIG_BAT_CAPACITY_AH, as 1 C at the shunt in uV
  NewCapacity,     \* new_capacity of the presets, likewise
  BoardMaxCurrent, \* board-max-current, likewise
  BoardRegs,       \* regulators switched on by the device tree
  Adc,             \* gain and offset in the bq769x0
  AnyTrip,         \* see Bq769x0Limits
  Asked,           \* <<item, value>> pairs that are written by ThingSet
  MayFail,         \* registers whose writes may fail
  PresetTypes,     \* cell types of the presets that are called
  MaxEvents,       \* bound of requests and restarts
  MaxBootEvents,   \* bound of those while the main thread is booting
  MaxFaults        \* bound of failing transfers

Bq769x0 == INSTANCE Bq769x0Limits
Bq769x2 == INSTANCE Bq769x2Limits
Isl94202 == INSTANCE Isl94202Limits
INSTANCE IcConf

ASSUME ConfigurationAssumption ==
  /\ Chips \subseteq {"bq769x0", "bq769x2", "isl94202"}
  /\ CellType \in CellTypes
  /\ {Capacity, NewCapacity, BoardMaxCurrent} \subseteq Nat
  /\ BoardRegs \subseteq {0, 1, 2}
  /\ Adc.gain \in 365 .. 396 /\ Adc.offset \in 0 .. 255
  /\ AnyTrip \subseteq 0 .. 255 /\ AnyTrip # {}
  /\ {MaxEvents, MaxBootEvents, MaxFaults} \subseteq Nat
  /\ MaxBootEvents <= MaxEvents
  /\ PresetTypes \subseteq CellTypes

VARIABLES
  chip,
  conf,      \* bms.ic_conf
  asked,     \* the configuration as loaded or written, before it was rounded;
             \* a request that is overwritten is not asked for any longer
  regs,      \* registers of the IC that have been written, and their values
  enabled,   \* protections enabled in the bq769x2
  update,    \* bq769x2: config update mode
  adc,       \* bq769x0: dev_data->adc_gain, adc_offset
  stored,    \* items in the non-volatile memory
  queued,    \* thingset_storage_save_queued()
  thread,    \* the threads "Main" and "ThingSet"
  settled,   \* the thread whose configure() was the last, had no error and
             \* was not disturbed, or "none"
  events, faults

vars == <<chip, conf, asked, regs, enabled, update, adc, stored, queued,
          thread, settled, events, faults>>
ic == <<regs, enabled, update>>
bounds == <<events, faults>>

--------------------------------------------------------------------------
(***************************************************************************)
(* The parts of configure() with BMS_IC_CONF_ALL, in their order.          *)
(***************************************************************************)
PartNames == <<"CellOvp", "CellUvp", "TempLimits", "ChgOcp", "DisOcp",
               "DisScp", "Balancing", "Alerts", "VoltageRegs">>

LastPart == [bq769x0 |-> 8, bq769x2 |-> 9, isl94202 |-> 7][chip]

Bq769x0Outcomes(name, c) ==
  CASE name = "CellOvp" -> Bq769x0!CellOvps(c, adc)
    [] name = "CellUvp" -> Bq769x0!CellUvps(c, adc)
    [] name = "TempLimits" -> {Bq769x0!TempLimits(c)}
    [] name = "ChgOcp" -> {Bq769x0!ChgOcp(c)}
    [] name = "DisOcp" -> {Bq769x0!DisOcp(c)}
    [] name = "DisScp" -> {Bq769x0!DisScp(c)}
    [] name = "Balancing" -> {Bq769x0!Balancing(c)}
    [] name = "Alerts" -> {Bq769x0!Alerts(c)}

Bq769x2Outcome(name, c) ==
  CASE name = "CellOvp" -> Bq769x2!CellOvp(c)
    [] name = "CellUvp" -> Bq769x2!CellUvp(c)
    [] name = "TempLimits" -> Bq769x2!TempLimits(c)
    [] name = "ChgOcp" -> Bq769x2!ChgOcp(c)
    [] name = "DisOcp" -> Bq769x2!DisOcp(c)
    [] name = "DisScp" -> Bq769x2!DisScp(c)
    [] name = "Balancing" -> Bq769x2!Balancing(c)
    [] name = "Alerts" -> Bq769x2!Alerts(c)
    [] name = "VoltageRegs" -> Bq769x2!VoltageRegs(c)

Isl94202Outcome(name, c) ==
  CASE name = "CellOvp" -> Isl94202!CellOvp(c)
    [] name = "CellUvp" -> Isl94202!CellUvp(c)
    [] name = "TempLimits" -> Isl94202!TempLimits(c)
    [] name = "ChgOcp" -> Isl94202!ChgOcp(c)
    [] name = "DisOcp" -> Isl94202!DisOcp(c)
    [] name = "DisScp" -> Isl94202!DisScp(c)
    [] name = "Balancing" -> Isl94202!Balancing(c)

\* More than one only where the arithmetic of the bq769x0 is undefined.
Outcomes(i, c) ==
  IF chip = "bq769x0" THEN Bq769x0Outcomes(PartNames[i], c)
  ELSE IF chip = "bq769x2" THEN {Bq769x2Outcome(PartNames[i], c)}
  ELSE {Isl94202Outcome(PartNames[i], c)}

\* What a failing transfer may leave unwritten.
Lost(part) == {lost \in part.failures : lost \intersect MayFail # {}}

Overlaid(f, g) ==
  [k \in DOMAIN f \union DOMAIN g |-> IF k \in DOMAIN g THEN g[k] ELSE f[k]]

--------------------------------------------------------------------------
Idle == [pc |-> "idle"]
Booting == [pc |-> "activate"]

\* Items that have TS_SUBSET_NVM.
Volatile == {"auto_balancing", "vregs_enable", "alert_mask"}
Saved_Forgets(c) ==  \* mutant
  [item \in DOMAIN c \ (Volatile \union {"dis_sc_limit"}) |-> c[item]]
Saved(c) == [item \in DOMAIN c \ Volatile |-> c[item]]

Defaults == bms_init_config(CellType, Capacity)
NotRead == [gain |-> 0, offset |-> 0]

\* The items of ThingSet are saved, and numbers.
ASSUME AskedAssumption ==
  \A write \in Asked : write[1] \in DOMAIN Defaults \ Volatile /\ write[2] \in Int

Init ==
  /\ chip \in Chips
  /\ conf = Defaults /\ asked = Defaults
  /\ regs = <<>>
  /\ enabled = {"COV", "SCD"}
  /\ update = FALSE
  /\ adc = NotRead
  /\ stored = <<>> /\ queued = FALSE
  /\ thread = [Main |-> Booting, ThingSet |-> Idle]
  /\ settled = "none"
  /\ events = 0 /\ faults = 0

\* One more transfer fails.
Fault == faults < MaxFaults /\ faults' = faults + 1
\* All transfers of a step succeed, or ok is FALSE.
Transfers(ok) == IF ok THEN UNCHANGED faults ELSE Fault

Other(t) == IF t = "Main" THEN "ThingSet" ELSE "Main"
Busy(t) == thread[t].pc # "idle"
Goes(t, pc) == thread' = [thread EXCEPT ![t].pc = pc]

(***************************************************************************)
(* Entry of configure(): the thread notes whether it has the IC for itself *)
(* and spoils it for the other.                                            *)
(***************************************************************************)
Enters(t, preset) ==
  /\ thread' =
       [thread EXCEPT
          ![t] = [pc |-> IF chip = "bq769x2" THEN "enter" ELSE "write",
                  part |-> 1, err |-> FALSE, preset |-> preset,
                  alone |-> ~ Busy(Other(t)),
                  back |-> <<>>, enables |-> {}, seen |-> {}],
          ![Other(t)] = IF "alone" \in DOMAIN @
                        THEN [@ EXCEPT !.alone = FALSE] ELSE @]
  /\ settled' = "none"

--------------------------------------------------------------------------
(***************************************************************************)
(* Boot: bms_ic_set_mode(ACTIVE), then configure() whatever came of it.    *)
(***************************************************************************)
Written(part, lost) ==
  regs' = Overlaid(regs, [r \in DOMAIN part.writes \ lost |-> part.writes[r]])

\* A failed activation leaves the gain 0, or reads garbage on the stack.
ActivateBq769x0 ==
  /\ chip = "bq769x0"
  /\ thread.Main.pc = "activate"
  /\ \/ adc' = Adc /\ Written(Bq769x0!Activation, {}) /\ UNCHANGED faults
     \/ /\ \/ adc' = NotRead /\ UNCHANGED regs
           \/ adc' = Adc /\ \E lost \in Lost(Bq769x0!Activation) :
                              Written(Bq769x0!Activation, lost)
           \/ adc' \in Bq769x0!AnyAdc /\ Written(Bq769x0!Activation, {})
        /\ Fault
  /\ Enters("Main", FALSE)
  /\ UNCHANGED <<chip, conf, asked, enabled, update, stored, queued, events>>

\* Ends with the first transfer that fails.
ActivateIsl94202 ==
  /\ chip = "isl94202"
  /\ thread.Main.pc = "activate"
  /\ \E lost \in {{}} \union Lost(Isl94202!Activation) :
       /\ Written(Isl94202!Activation, lost)
       /\ Transfers(lost = {})
  /\ Enters("Main", FALSE)
  /\ UNCHANGED <<chip, conf, asked, enabled, update, adc, stored, queued, events>>

\* The IC has answered; reading its device number is repeated until then.
ActivateBq769x2 ==
  /\ chip = "bq769x2"
  /\ thread.Main.pc = "activate"
  /\ thread' = [thread EXCEPT !.Main = [pc |-> "init", err |-> FALSE]]
  /\ UNCHANGED <<chip, conf, asked, ic, adc, stored, queued, settled, bounds>>

\* config_update_mode(TRUE): after an error the mode may be on or not.
UpdateModeEntered(ok) ==
  update' \in IF ok THEN {TRUE} ELSE {update, TRUE}
UpdateModeLeft(ok) ==
  update' \in IF ok THEN {FALSE} ELSE {update, FALSE}

\* config_update_mode(true) and init_config(); the mode is left only after
\* both have succeeded.
InitConfig ==
  /\ thread.Main.pc = "init"
  /\ \E lost \in {{}} \union Lost(Bq769x2!InitConfig), ok \in BOOLEAN :
       /\ Written(Bq769x2!InitConfig, lost)
       /\ UpdateModeEntered(ok)
       /\ Transfers(ok /\ lost = {})
       /\ \/ ok /\ lost = {} /\ Goes("Main", "initialised") /\ UNCHANGED settled
          \/ ~ (ok /\ lost = {}) /\ Enters("Main", FALSE)
  /\ UNCHANGED <<chip, conf, asked, enabled, adc, stored, queued, events>>

LeaveInit ==
  /\ thread.Main.pc = "initialised"
  /\ \E ok \in BOOLEAN : UpdateModeLeft(ok) /\ Transfers(ok)
  /\ Enters("Main", FALSE)
  /\ UNCHANGED <<chip, conf, asked, regs, enabled, adc, stored, queued, events>>

--------------------------------------------------------------------------
(***************************************************************************)
(* configure(), one part after another.                                    *)
(***************************************************************************)
\* Whatever comes of it, the parts follow.
EnterUpdateMode(t) ==
  /\ thread[t].pc = "enter"
  /\ \E ok \in BOOLEAN :
       /\ UpdateModeEntered(ok)
       /\ Transfers(ok)
       /\ thread' = [thread EXCEPT ![t].pc = "write", ![t].err = ~ ok]
  /\ UNCHANGED <<chip, conf, asked, regs, enabled, adc, stored, queued, settled, events>>

\* The thread goes on with what remains of its part, or with the next part.
Continues(th) ==
  IF th.back # <<>> THEN [th EXCEPT !.pc = "back"]
  ELSE IF th.enables # {} THEN [th EXCEPT !.pc = "read"]
  ELSE IF th.part < LastPart THEN [th EXCEPT !.pc = "write", !.part = @ + 1]
  ELSE [th EXCEPT !.pc = IF chip = "bq769x2" THEN "leave" ELSE "finish"]

\* The thread with an outcome and what remains of its part.
With(th, failed, back, enables) ==
  [th EXCEPT !.err = @ \/ failed, !.back = back, !.enables = enables, !.seen = {}]

\* The values are computed from the configuration and written.  Protections
\* are only enabled when that succeeded.
WritePart(t) ==
  /\ thread[t].pc = "write"
  /\ \E part \in Outcomes(thread[t].part, conf) :
     \E lost \in {{}} \union Lost(part) :
       LET failed == part.refused \/ ~ lost \subseteq part.unreported
           skipped == failed /\ ~ part.backOnError
       IN  /\ Written(part, lost)
           /\ Transfers(lost = {})
           /\ thread' =
                [thread EXCEPT ![t] = Continues(
                   With(@, failed, IF skipped THEN <<>> ELSE part.back,
                        IF failed THEN {} ELSE part.enables))]
  /\ UNCHANGED <<chip, conf, asked, enabled, update, adc, stored, queued,
                 settled, events>>

\* The values actually applied replace those that were asked for, also those
\* that the other thread has asked for in the meantime.
StoreBack(t) ==
  /\ thread[t].pc = "back"
  /\ conf' = Overlaid(conf, thread[t].back)
  /\ asked' = IF thread[t].alone THEN asked ELSE Overlaid(asked, thread[t].back)
  /\ thread' = [thread EXCEPT ![t] = Continues(With(@, FALSE, <<>>, @.enables))]
  /\ UNCHANGED <<chip, ic, adc, stored, queued, settled, bounds>>

\* PROT_ENABLED_A and _B are read, changed and written back.
Registers == {{"COV", "CUV", "SCD", "OCC", "OCD1"}, {"OTC", "OTD", "UTC", "UTD"}}
RegisterOf(protections) == CHOOSE r \in Registers : protections \subseteq r

ReadEnabled(t) ==
  /\ thread[t].pc = "read"
  /\ LET register == RegisterOf(thread[t].enables)
     IN  \/ /\ thread' = [thread EXCEPT ![t].pc = "enable",
                                        ![t].seen = enabled \intersect register]
            /\ UNCHANGED faults
         \/ /\ thread' = [thread EXCEPT ![t] = Continues(With(@, TRUE, <<>>, {}))]
            /\ Fault
  /\ UNCHANGED <<chip, conf, asked, ic, adc, stored, queued, settled, events>>

WriteEnabled_Overwrites(t) ==  \* mutant
  /\ thread[t].pc = "enable"
  /\ LET th == thread[t]
     IN  \E ok \in BOOLEAN :
           /\ enabled' = IF ok THEN (enabled \ RegisterOf(th.enables)) \union th.enables
                         ELSE enabled
           /\ Transfers(ok)
           /\ thread' = [thread EXCEPT ![t] = Continues(With(@, ~ ok, <<>>, {}))]
  /\ UNCHANGED <<chip, conf, asked, regs, update, adc, stored, queued, settled, events>>

WriteEnabled(t) ==
  /\ thread[t].pc = "enable"
  /\ LET th == thread[t]
         register == RegisterOf(th.enables)
     IN  \E ok \in BOOLEAN :
           /\ enabled' = IF ok
                         THEN (enabled \ register) \union th.seen \union th.enables
                         ELSE enabled
           /\ Transfers(ok)
           /\ thread' = [thread EXCEPT ![t] = Continues(With(@, ~ ok, <<>>, {}))]
  /\ UNCHANGED <<chip, conf, asked, regs, update, adc, stored, queued, settled, events>>

LeaveUpdateMode_Unreported(t) ==  \* mutant
  /\ thread[t].pc = "leave"
  /\ \E ok \in BOOLEAN :
       /\ UpdateModeLeft(ok)
       /\ Transfers(ok)
       /\ Goes(t, "finish")
  /\ UNCHANGED <<chip, conf, asked, regs, enabled, adc, stored, queued, settled, events>>

LeaveUpdateMode(t) ==
  /\ thread[t].pc = "leave"
  /\ \E ok \in BOOLEAN :
       /\ UpdateModeLeft(ok)
       /\ Transfers(ok)
       /\ thread' = [thread EXCEPT ![t].pc = "finish", ![t].err = @ \/ ~ ok]
  /\ UNCHANGED <<chip, conf, asked, regs, enabled, adc, stored, queued, settled, events>>

\* A written item is saved in any case, a preset when it was configured.
Finish_NotQueued(t) ==  \* mutant
  /\ thread[t].pc = "finish"
  /\ queued' = (queued \/ (t = "ThingSet" /\ ~ thread[t].preset))
  /\ settled' = IF thread[t].alone /\ ~ thread[t].err THEN t ELSE "none"
  /\ thread' = [thread EXCEPT ![t] = Idle]
  /\ UNCHANGED <<chip, conf, asked, ic, adc, stored, bounds>>

Finish(t) ==
  /\ thread[t].pc = "finish"
  /\ queued' = (queued \/ (t = "ThingSet" /\ (thread[t].preset => ~ thread[t].err)))
  /\ settled' = IF thread[t].alone /\ ~ thread[t].err THEN t ELSE "none"
  /\ thread' = [thread EXCEPT ![t] = Idle]
  /\ UNCHANGED <<chip, conf, asked, ic, adc, stored, bounds>>

--------------------------------------------------------------------------
(***************************************************************************)
(* ThingSet requests, the storage, and restarts of the MCU.                *)
(***************************************************************************)
Event ==
  /\ events < IF Busy("Main") THEN MaxBootEvents ELSE MaxEvents
  /\ events' = events + 1

Request ==
  /\ thread.ThingSet.pc = "idle"
  /\ Event
  /\ UNCHANGED <<chip, ic, adc, stored, queued, faults>>

\* data_objects_update_conf() after an item has been written.
WriteItem ==
  /\ Request
  /\ \E write \in Asked :
       /\ conf' = [conf EXCEPT ![write[1]] = write[2]]
       /\ asked' = [asked EXCEPT ![write[1]] = write[2]]
  /\ Enters("ThingSet", FALSE)

\* bat_preset()
Preset ==
  /\ Request
  /\ \E type \in PresetTypes : conf' = bms_init_config(type, NewCapacity)
  /\ asked' = conf'
  /\ Enters("ThingSet", TRUE)

Save ==
  /\ queued
  /\ queued' = FALSE
  /\ stored' = Saved(conf)
  /\ UNCHANGED <<chip, conf, asked, ic, adc, thread, settled, bounds>>

\* The defaults, then what is stored.
Loaded == Overlaid(Defaults, stored)

Restart ==
  /\ Event
  /\ conf' = Loaded /\ asked' = Loaded
  /\ adc' = NotRead
  /\ queued' = FALSE
  /\ thread' = [Main |-> Booting, ThingSet |-> Idle]
  /\ settled' = "none"
  /\ UNCHANGED <<chip, ic, stored, faults>>

Activate ==
  \/ ActivateBq769x0 \/ ActivateIsl94202
  \/ ActivateBq769x2 \/ InitConfig \/ LeaveInit

Configure(t) ==
  \/ EnterUpdateMode(t) \/ WritePart(t) \/ StoreBack(t) \/ ReadEnabled(t)
  \/ WriteEnabled(t) \/ LeaveUpdateMode(t) \/ Finish(t)

Next ==
  \/ Activate
  \/ \E t \in {"Main", "ThingSet"} : Configure(t)
  \/ WriteItem \/ Preset \/ Save \/ Restart

Spec == Init /\ [][Next]_vars

--------------------------------------------------------------------------
(***************************************************************************)
(* Properties.                                                             *)
(***************************************************************************)

\* Types of the variables; items that are counted are integers.
Counted == DOMAIN Defaults \ Volatile

TypeOK ==
  /\ chip \in Chips
  /\ DOMAIN conf = DOMAIN Defaults /\ DOMAIN asked = DOMAIN Defaults
  /\ \A item \in Counted : conf[item] \in Int /\ asked[item] \in Int
  /\ DOMAIN stored \in {{}, Counted}
  /\ enabled \subseteq UNION Registers
  /\ update \in BOOLEAN /\ queued \in BOOLEAN
  /\ settled \in {"none", "Main", "ThingSet"}
  /\ events \in 0 .. MaxEvents /\ faults \in 0 .. MaxFaults

\* The last configure() was successful and had the IC for itself.
Settled == settled # "none"

\* The parts that store back in the unit of the configuration (see
\* LimitsInVolt).
Parts == IF chip = "bq769x0" THEN 3 .. LastPart ELSE 1 .. LastPart

\* configure() of this configuration would write what is in the registers.
\* The isl94202 does not report a failed write of DUTR.
InRegisters(c) ==
  \A i \in Parts : \E part \in Outcomes(i, c) :
    \A r \in DOMAIN part.writes \ part.unreported :
      r \in DOMAIN regs /\ regs[r] = part.writes[r]

\* ... and would leave the configuration as it is.
ShowsApplied(c) ==
  \A i \in Parts : \E part \in Outcomes(i, c) :
    \A item \in DOMAIN part.back : c[item] = part.back[item]

\* After a successful configure() the configuration that ThingSet shows is
\* the one that is in the IC: applying it again changes neither the registers
\* nor the configuration, although parts read what others stored back
\* (data_objects.c:291, "Actually applied config can be retrieved").
AppliedIsShown == Settled => InRegisters(conf) /\ ShowsApplied(conf)

\* What is stored for the next boot leads to the registers that the last
\* successful request has left, whenever the storage got round to saving.
StoredIsApplied == settled = "ThingSet" /\ ~ queued => InRegisters(Loaded)

\* The bq769x2 is back in its normal mode after a successful configure(),
\* also when the activation failed or the MCU was reset in the update mode.
UpdateModeEnds == Settled => ~ update

\* After a successful configure() that no other disturbed all protections of
\* the bq769x2 are enabled, whatever was lost or interrupted before.
AllProtected == Settled /\ chip = "bq769x2" => enabled = UNION Registers

CurrentLimits == [chg_oc_limit |-> 4, dis_oc_limit |-> 5, dis_sc_limit |-> 6]

LowestSetting(item) ==
  UNION {{part.back[i] : i \in {item} \intersect DOMAIN part.back} :
           part \in Outcomes(CurrentLimits[item], [conf EXCEPT ![item] = 0])}

\* Half a step of the bq769x2; the others choose the lower setting.
Rounding == IF chip = "bq769x2" THEN 1000 ELSE 0

\* A current limit that has been applied is not above the one that was asked
\* for, however often it has been rounded and stored back since; but for the
\* lowest setting of the IC (isl94202_interface.c:93, "choose lower current
\* limit if target setting not exactly possible").  A request is lost when the
\* other thread stores its rounding of the value before over it.
LimitsAsAsked ==
  Settled => \A item \in DOMAIN CurrentLimits :
    \/ conf[item] <= asked[item] + Rounding
    \/ conf[item] \in LowestSetting(item)

--------------------------------------------------------------------------
(***************************************************************************)
(* Not satisfied by the code.                                              *)
(***************************************************************************)

InVolt(level) == 10 * ((level * adc.gain) \div 1000 + adc.offset)

\* The limits of the cell voltages that ThingSet shows after a successful
\* configure() of the bq769x0 are those in the registers, in the unit of the
\* configuration (bms_ic.h:69, "Cell over-voltage limit (V)").
LimitsInVolt ==
  Settled /\ chip = "bq769x0" =>
    /\ conf.cell_ov_limit = InVolt(Bq769x0!OvLevel(regs.OV_TRIP))
    /\ conf.cell_uv_limit = InVolt(Bq769x0!UvLevel(regs.UV_TRIP))

\* When both threads have configured the bq769x2 without an error, the charge
\* overcurrent protection is enabled (bq769x2.c:296, "OCC protection needs to
\* be enabled, as it is not active by default").
ChargeProtected ==
  chip = "bq769x2" /\ ~ Busy("Main") /\ ~ Busy("ThingSet") /\ faults = 0
    => "OCC" \in enabled
=============================================================================
