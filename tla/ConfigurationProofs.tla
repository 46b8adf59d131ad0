------------------------ MODULE ConfigurationProofs ------------------------
(***************************************************************************)
(* Proofs about the configuration of the BMS IC, for any drivers, limits,  *)
(* requests, restarts and failing transfers.                               *)
(*                                                                         *)
(* 1. The config update mode of the bq769x2 ends with every successful     *)
(*    configure() (UpdateInv).                                             *)
(* 2. The configuration keeps its types.  After a successful configure()   *)
(*    it is in the registers and shown as applied, what is stored leads to *)
(*    the same registers, and all protections are enabled (ConfInv).  This *)
(*    rests on Settling: a part that is computed again from what it has    *)
(*    stored back does the same again.                                     *)
(* 3. Current limits are as they were asked for, but for the steps of the  *)
(*    IC (LimitInv).                                                       *)
(***************************************************************************)
EXTENDS Configuration, TLAPS

Ids == {"Main", "ThingSet"}
Fields == {"pc", "part", "err", "preset", "alone", "back", "enables", "seen"}
ConfigurePcs == {"enter", "write", "back", "read", "enable", "leave", "finish"}

\* A thread that is in configure().
InConfigure(x) ==
  /\ x = [f \in Fields |-> x[f]]
  /\ x.pc \in ConfigurePcs
  /\ x.err \in BOOLEAN /\ x.alone \in BOOLEAN
  /\ x.pc = "enter" => chip = "bq769x2"

\* A thread before or after it.
Outside(x) ==
  \/ x = Idle
  \/ x = Booting
  \/ x.pc = "init" /\ DOMAIN x = {"pc", "err"} /\ chip = "bq769x2"
  \/ x.pc = "initialised" /\ DOMAIN x = {"pc", "err"} /\ chip = "bq769x2"

Threads ==
  /\ thread = [t \in Ids |-> thread[t]]
  /\ \A t \in Ids : InConfigure(thread[t]) \/ Outside(thread[t])
  /\ update \in BOOLEAN

\* A thread that thinks it has the IC for itself has.
Alone ==
  \A t \in Ids : InConfigure(thread[t]) /\ thread[t].alone => ~ Busy(Other(t))

\* At the end of an undisturbed configure() without errors the mode is left.
Left ==
  /\ chip # "bq769x2" => ~ update
  /\ \A t \in Ids :
       InConfigure(thread[t]) /\ thread[t].pc = "finish"
         /\ thread[t].alone /\ ~ thread[t].err => ~ update

\* As long as a success counts, nobody uses the IC.
Rest == Settled => ~ update /\ \A t \in Ids : ~ Busy(t)

UpdateInv == Threads /\ Alone /\ Left /\ Rest

LEMMA Others ==
  ASSUME NEW t \in Ids
  PROVE  /\ Other(t) \in Ids /\ Other(t) # t /\ Other(Other(t)) = t
         /\ Ids = {t, Other(t)}
BY DEF Ids, Other

\* What goes on in configure() after a part.
LEMMA ContinuesInConfigure ==
  ASSUME NEW x, InConfigure(x)
  PROVE  /\ InConfigure(Continues(x))
         /\ Continues(x).alone = x.alone
         /\ Continues(x).pc = "finish" => chip # "bq769x2"
<1>1. CASE x.back # <<>>
  <2>1. Continues(x) = [x EXCEPT !.pc = "back"]
      BY <1>1 DEF Continues
  <2> QED
      BY <2>1 DEF InConfigure, Fields, ConfigurePcs
<1>2. CASE x.back = <<>> /\ x.enables # {}
  <2>1. Continues(x) = [x EXCEPT !.pc = "read"]
      BY <1>2 DEF Continues
  <2> QED
      BY <2>1 DEF InConfigure, Fields, ConfigurePcs
<1>3. CASE x.back = <<>> /\ x.enables = {} /\ x.part < LastPart
  <2>1. Continues(x) = [x EXCEPT !.pc = "write", !.part = x.part + 1]
      BY <1>3 DEF Continues
  <2> QED
      BY <2>1 DEF InConfigure, Fields, ConfigurePcs
<1>4. CASE x.back = <<>> /\ x.enables = {} /\ ~ (x.part < LastPart)
  <2>1. Continues(x) = [x EXCEPT !.pc = IF chip = "bq769x2" THEN "leave" ELSE "finish"]
      BY <1>4 DEF Continues
  <2> QED
      BY <2>1 DEF InConfigure, Fields, ConfigurePcs
<1> QED
    BY <1>1, <1>2, <1>3, <1>4

--------------------------------------------------------------------------
(***************************************************************************)
(* Steps.  The other thread is touched by Enters only, so that a step of   *)
(* one that is busy disturbs nothing another thread relies on.             *)
(***************************************************************************)
LEMMA PcsOutside == ASSUME NEW x, Outside(x) PROVE x.pc \notin ConfigurePcs
BY DEF Outside, Idle, Booting, ConfigurePcs

LEMMA ModeType ==
  ASSUME update \in BOOLEAN, NEW ok \in BOOLEAN,
         UpdateModeEntered(ok) \/ UpdateModeLeft(ok)
  PROVE  update' \in BOOLEAN
BY DEF UpdateModeEntered, UpdateModeLeft

LEMMA ModeLeft ==
  ASSUME NEW ok \in BOOLEAN, UpdateModeLeft(ok), ~ update \/ ok
  PROVE  ~ update'
<1>1. CASE ok
  <2>1. update' \in {FALSE}
      BY <1>1 DEF UpdateModeLeft
  <2> QED
      BY <2>1
<1>2. CASE ~ ok
  <2>1. update' \in {update, FALSE} /\ ~ update
      BY <1>2 DEF UpdateModeLeft
  <2> QED
      BY <2>1
<1> QED
    BY <1>1, <1>2

\* The other names of the next state.
LEMMA NextThread ==
  ASSUME chip' = chip, NEW t
  PROVE  /\ InConfigure(thread[t])' <=> InConfigure(thread'[t])
         /\ Outside(thread[t])' <=> Outside(thread'[t])
         /\ Busy(t)' <=> thread'[t].pc # "idle"
<1>1. InConfigure(thread[t])' <=> InConfigure(thread'[t])
    BY DEF InConfigure
<1>2. Outside(thread[t])' <=> Outside(thread'[t])
    BY DEF Outside, Idle, Booting
<1> QED
    BY <1>1, <1>2 DEF Busy

\* A step of a thread that was not idle and is not at its end.
LEMMA BusyStep ==
  ASSUME UpdateInv, chip' = chip, NEW t \in Ids, Busy(t), settled' = settled,
         NEW x, thread' = [thread EXCEPT ![t] = x],
         InConfigure(x) \/ Outside(x),
         InConfigure(x) => InConfigure(thread[t]) /\ x.alone = thread[t].alone,
         update' \in BOOLEAN, chip # "bq769x2" => ~ update',
         InConfigure(x) /\ x.pc = "finish" /\ x.alone /\ ~ x.err => ~ update'
  PROVE  UpdateInv'
<1>1. thread'[t] = x /\ thread'[Other(t)] = thread[Other(t)]
      /\ thread' = [u \in Ids |-> thread'[u]]
    BY Others DEF UpdateInv, Threads
<1>2. ~ (InConfigure(thread[Other(t)]) /\ thread[Other(t)].alone)
    BY Others DEF UpdateInv, Alone
<1>3. Threads'
  <2>1. \A u \in Ids : InConfigure(thread'[u]) \/ Outside(thread'[u])
      BY <1>1, Others DEF UpdateInv, Threads
  <2> QED
      BY <1>1, <2>1, NextThread DEF Threads
<1>4. Alone'
  <2>1. ASSUME NEW u \in Ids, InConfigure(thread'[u]), thread'[u].alone
        PROVE  thread'[Other(u)].pc = "idle"
    <3>1. u = t
        BY <1>1, <1>2, <2>1, Others
    <3>2. ~ Busy(Other(t))
        BY <1>1, <2>1, <3>1 DEF UpdateInv, Alone
    <3> QED
        BY <1>1, <3>1, <3>2 DEF Busy
  <2> QED
      BY <2>1, NextThread DEF Alone, Other
<1>5. Left'
  <2>1. ASSUME NEW u \in Ids, InConfigure(thread'[u]), thread'[u].pc = "finish",
               thread'[u].alone, ~ thread'[u].err
        PROVE  ~ update'
    <3>1. u = t
        BY <1>1, <1>2, <2>1, Others
    <3> QED
        BY <1>1, <2>1, <3>1
  <2> QED
      BY <2>1, NextThread DEF Left
<1>6. Rest'
    BY DEF UpdateInv, Rest, Settled
<1> QED
    BY <1>3, <1>4, <1>5, <1>6 DEF UpdateInv

\* A thread enters configure().
LEMMA EnteringStep ==
  ASSUME UpdateInv, chip' = chip, NEW t \in Ids, NEW preset, Enters(t, preset),
         update' \in BOOLEAN, chip # "bq769x2" => ~ update'
  PROVE  UpdateInv'
<1> DEFINE y == thread[Other(t)]
<1>1. /\ thread' = [u \in Ids |-> thread'[u]]
      /\ thread'[t] = [pc |-> IF chip = "bq769x2" THEN "enter" ELSE "write",
                       part |-> 1, err |-> FALSE, preset |-> preset,
                       alone |-> ~ Busy(Other(t)),
                       back |-> <<>>, enables |-> {}, seen |-> {}]
      /\ thread'[Other(t)] = IF "alone" \in DOMAIN y THEN [y EXCEPT !.alone = FALSE]
                             ELSE y
    BY Others DEF Enters, UpdateInv, Threads
<1>2. /\ InConfigure(thread'[t])
      /\ thread'[t].pc # "finish"
      /\ thread'[t].alone => ~ Busy(Other(t))
  <2> DEFINE z == thread'[t]
  <2>1. z = [f \in Fields |-> z[f]]
      BY <1>1 DEF Fields
  <2>2. z.err = FALSE
      BY <1>1
  <2>3. z.alone = ~ Busy(Other(t))
      BY <1>1
  <2>4. z.pc = IF chip = "bq769x2" THEN "enter" ELSE "write"
      BY <1>1
  <2>5. z.alone \in BOOLEAN /\ z.err \in BOOLEAN /\ (z.alone => ~ Busy(Other(t)))
      BY <2>2, <2>3
  <2>6. z.pc \in {"enter", "write"} /\ (z.pc = "enter" => chip = "bq769x2")
      BY <2>4
  <2> QED
      BY <2>1, <2>5, <2>6 DEF InConfigure, ConfigurePcs
<1>3. /\ InConfigure(thread'[Other(t)]) \/ Outside(thread'[Other(t)])
      /\ InConfigure(thread'[Other(t)]) => ~ thread'[Other(t)].alone
      /\ ~ Busy(Other(t)) => thread'[Other(t)].pc = "idle"
  <2>1. CASE InConfigure(y)
    <3>1. thread'[Other(t)] = [y EXCEPT !.alone = FALSE]
        BY <1>1, <2>1 DEF InConfigure, Fields
    <3> QED
        BY <2>1, <3>1 DEF InConfigure, Fields, ConfigurePcs, Busy
  <2>2. CASE Outside(y)
    <3>1. "alone" \notin DOMAIN y
        BY <2>2 DEF Outside, Idle, Booting
    <3>2. thread'[Other(t)] = y /\ y.pc \notin ConfigurePcs
        BY <1>1, <2>2, <3>1, PcsOutside
    <3> QED
        BY <2>2, <3>2 DEF InConfigure, Busy
  <2> QED
      BY <2>1, <2>2, Others DEF UpdateInv, Threads
<1>4. Threads'
  <2>1. \A u \in Ids : InConfigure(thread'[u]) \/ Outside(thread'[u])
      BY <1>2, <1>3, Others
  <2> QED
      BY <1>1, <2>1, NextThread DEF Threads
<1>5. Alone'
  <2>1. ASSUME NEW u \in Ids, InConfigure(thread'[u]), thread'[u].alone
        PROVE  thread'[Other(u)].pc = "idle"
      BY <1>2, <1>3, <2>1, Others
  <2> QED
      BY <2>1, NextThread DEF Alone, Other
<1>6. Left'
  <2>1. ASSUME NEW u \in Ids, InConfigure(thread'[u]), thread'[u].pc = "finish",
               thread'[u].alone
        PROVE  FALSE
      BY <1>2, <1>3, <2>1, Others
  <2> QED
      BY <2>1, NextThread DEF Left
<1>7. Rest'
    BY DEF Enters, Rest, Settled
<1> QED
    BY <1>4, <1>5, <1>6, <1>7 DEF UpdateInv

--------------------------------------------------------------------------
(***************************************************************************)
(* The inductive invariant, action by action.                              *)
(***************************************************************************)
LEMMA ThreadPc ==
  ASSUME UpdateInv, NEW t \in Ids
  PROVE  /\ thread[t].pc \in ConfigurePcs => InConfigure(thread[t])
         /\ thread[t].pc \in ConfigurePcs \union {"activate", "init", "initialised"} => Busy(t)
         /\ thread[t].pc \in {"enter", "init"} => chip = "bq769x2"
<1>1. InConfigure(thread[t]) \/ Outside(thread[t])
    BY DEF UpdateInv, Threads
<1>2. thread[t].pc \in ConfigurePcs => InConfigure(thread[t])
    BY <1>1, PcsOutside
<1>3. thread[t].pc = "init" => chip = "bq769x2"
    BY <1>1 DEF InConfigure, Outside, Idle, Booting, ConfigurePcs
<1> QED
    BY <1>2, <1>3 DEF Busy, ConfigurePcs, InConfigure

LEMMA UpdateInit == Init => UpdateInv
<1> SUFFICES ASSUME Init PROVE UpdateInv
    OBVIOUS
<1>1. thread = [u \in Ids |-> thread[u]] /\ \A u \in Ids : Outside(thread[u])
    BY DEF Init, Ids, Outside
<1>2. \A u \in Ids : ~ InConfigure(thread[u])
    BY <1>1, PcsOutside DEF InConfigure
<1>3. update = FALSE /\ settled = "none"
    BY DEF Init
<1> QED
    BY <1>1, <1>2, <1>3 DEF UpdateInv, Threads, Alone, Left, Rest, Settled

LEMMA EnterUpdateModeKeeps ==
  ASSUME UpdateInv, NEW t \in Ids, EnterUpdateMode(t) PROVE UpdateInv'
<1>1. PICK ok \in BOOLEAN :
        /\ UpdateModeEntered(ok)
        /\ thread' = [thread EXCEPT ![t].pc = "write", ![t].err = ~ ok]
    BY DEF EnterUpdateMode
<1> DEFINE x == [thread[t] EXCEPT !.pc = "write", !.err = ~ ok]
<1>2. /\ thread[t].pc = "enter" /\ InConfigure(thread[t]) /\ Busy(t)
      /\ chip = "bq769x2" /\ chip' = chip /\ settled' = settled
    BY ThreadPc DEF EnterUpdateMode, ConfigurePcs
<1>3. thread' = [thread EXCEPT ![t] = x]
    BY <1>1 DEF UpdateInv, Threads
<1>4. InConfigure(x) /\ x.alone = thread[t].alone /\ x.pc = "write"
    BY <1>2 DEF InConfigure, Fields, ConfigurePcs
<1>5. update' \in BOOLEAN
    BY <1>1, ModeType DEF UpdateInv, Threads
<1> HIDE DEF x
<1> QED
    BY <1>2, <1>3, <1>4, <1>5, BusyStep

\* A thread that goes on inside configure() without touching the mode.
LEMMA ConfigureStep ==
  ASSUME UpdateInv, NEW t \in Ids, InConfigure(thread[t]),
         NEW x, InConfigure(x), x.alone = thread[t].alone,
         x.pc = "finish" => chip # "bq769x2",
         thread' = [thread EXCEPT ![t] = x],
         UNCHANGED <<chip, update, settled>>
  PROVE  UpdateInv'
<1>1. Busy(t)
    BY DEF InConfigure, Busy, ConfigurePcs
<1>2. update' \in BOOLEAN /\ (chip # "bq769x2" => ~ update')
    BY DEF UpdateInv, Threads, Left
<1> QED
    BY <1>1, <1>2, BusyStep

\* ... with the outcome of a part, or of a step of it.
LEMMA OutcomeStep ==
  ASSUME UpdateInv, NEW t \in Ids, InConfigure(thread[t]),
         NEW failed \in BOOLEAN, NEW back, NEW enables,
         thread' = [thread EXCEPT ![t] = Continues(With(thread[t], failed, back, enables))],
         UNCHANGED <<chip, update, settled>>
  PROVE  UpdateInv'
<1> DEFINE y == With(thread[t], failed, back, enables)
<1>1. InConfigure(y) /\ y.alone = thread[t].alone
    BY DEF InConfigure, Fields, ConfigurePcs, With
<1> HIDE DEF y
<1>2. thread' = [thread EXCEPT ![t] = Continues(y)]
    BY DEF y
<1> QED
    BY <1>1, <1>2, ContinuesInConfigure, ConfigureStep

LEMMA WritePartKeeps ==
  ASSUME UpdateInv, NEW t \in Ids, WritePart(t) PROVE UpdateInv'
<1>1. /\ InConfigure(thread[t])
      /\ UNCHANGED <<chip, update, settled>>
    BY ThreadPc DEF WritePart, ConfigurePcs
<1>2. PICK failed \in BOOLEAN :
        \E back, enables :
          thread' = [thread EXCEPT ![t] = Continues(With(@, failed, back, enables))]
    BY DEF WritePart
<1>3. PICK back, enables :
        thread' = [thread EXCEPT ![t] = Continues(With(@, failed, back, enables))]
    BY <1>2
<1> QED
    BY <1>1, <1>3, OutcomeStep

LEMMA StoreBackKeeps ==
  ASSUME UpdateInv, NEW t \in Ids, StoreBack(t) PROVE UpdateInv'
<1>1. /\ InConfigure(thread[t])
      /\ UNCHANGED <<chip, update, settled>>
    BY ThreadPc DEF StoreBack, ConfigurePcs, ic
<1>2. thread' =
        [thread EXCEPT ![t] = Continues(With(@, FALSE, <<>>, @.enables))]
    BY DEF StoreBack
<1> QED
    BY <1>1, <1>2, OutcomeStep

LEMMA ReadEnabledKeeps ==
  ASSUME UpdateInv, NEW t \in Ids, ReadEnabled(t) PROVE UpdateInv'
<1>1. /\ InConfigure(thread[t])
      /\ UNCHANGED <<chip, update, settled>>
    BY ThreadPc DEF ReadEnabled, ConfigurePcs, ic
<1>2. \/ \E s : thread' = [thread EXCEPT ![t].pc = "enable", ![t].seen = s]
      \/ thread' = [thread EXCEPT ![t] = Continues(With(@, TRUE, <<>>, {}))]
    BY DEF ReadEnabled
<1>3. CASE \E s : thread' = [thread EXCEPT ![t].pc = "enable", ![t].seen = s]
  <2>1. PICK s : thread' = [thread EXCEPT ![t].pc = "enable", ![t].seen = s]
      BY <1>3
  <2> DEFINE x == [thread[t] EXCEPT !.pc = "enable", !.seen = s]
  <2>2. InConfigure(x) /\ x.alone = thread[t].alone /\ x.pc = "enable"
      BY <1>1 DEF InConfigure, Fields, ConfigurePcs
  <2>3. thread' = [thread EXCEPT ![t] = x]
      BY <2>1 DEF UpdateInv, Threads
  <2> HIDE DEF x
  <2> QED
      BY <1>1, <2>2, <2>3, ConfigureStep
<1>4. CASE thread' = [thread EXCEPT ![t] = Continues(With(@, TRUE, <<>>, {}))]
    BY <1>1, <1>4, OutcomeStep
<1> QED
    BY <1>2, <1>3, <1>4

LEMMA WriteEnabledKeeps ==
  ASSUME UpdateInv, NEW t \in Ids, WriteEnabled(t) PROVE UpdateInv'
<1>1. /\ InConfigure(thread[t])
      /\ UNCHANGED <<chip, update, settled>>
    BY ThreadPc DEF WriteEnabled, ConfigurePcs
<1>2. PICK failed \in BOOLEAN :
        thread' = [thread EXCEPT ![t] = Continues(With(@, failed, <<>>, {}))]
    BY DEF WriteEnabled
<1> QED
    BY <1>1, <1>2, OutcomeStep

LEMMA LeaveUpdateModeKeeps ==
  ASSUME UpdateInv, NEW t \in Ids, LeaveUpdateMode(t) PROVE UpdateInv'
<1>1. PICK ok \in BOOLEAN :
        /\ UpdateModeLeft(ok)
        /\ thread' = [thread EXCEPT ![t].pc = "finish", ![t].err = @ \/ ~ ok]
    BY DEF LeaveUpdateMode
<1> DEFINE x == [thread[t] EXCEPT !.pc = "finish", !.err = @ \/ ~ ok]
<1>2. /\ InConfigure(thread[t]) /\ Busy(t)
      /\ chip' = chip /\ settled' = settled
    BY ThreadPc DEF LeaveUpdateMode, ConfigurePcs
<1>3. thread' = [thread EXCEPT ![t] = x]
    BY <1>1 DEF UpdateInv, Threads
<1>4. InConfigure(x) /\ x.alone = thread[t].alone /\ (~ x.err => ok)
    BY <1>2 DEF InConfigure, Fields, ConfigurePcs
<1>5. update' \in BOOLEAN
    BY <1>1, ModeType DEF UpdateInv, Threads
<1>6. ~ update \/ ok => ~ update'
    BY <1>1, ModeLeft
<1>7. chip # "bq769x2" => ~ update'
    BY <1>6 DEF UpdateInv, Left
<1> HIDE DEF x
<1> QED
    BY <1>2, <1>3, <1>4, <1>5, <1>6, <1>7, BusyStep

LEMMA FinishKeeps ==
  ASSUME UpdateInv, NEW t \in Ids, Finish(t) PROVE UpdateInv'
<1>1. /\ thread[t].pc = "finish" /\ InConfigure(thread[t])
      /\ chip' = chip /\ update' = update
      /\ thread'[t] = Idle /\ thread'[Other(t)] = thread[Other(t)]
      /\ thread' = [u \in Ids |-> thread'[u]]
      /\ settled' = IF thread[t].alone /\ ~ thread[t].err THEN t ELSE "none"
    BY ThreadPc, Others DEF Finish, ConfigurePcs, ic, UpdateInv, Threads
<1>2. Outside(thread'[t]) /\ ~ InConfigure(thread'[t]) /\ thread'[t].pc = "idle"
    BY <1>1 DEF Outside, Idle, InConfigure, ConfigurePcs
<1>3. Threads'
  <2>1. \A u \in Ids : InConfigure(thread'[u]) \/ Outside(thread'[u])
      BY <1>1, <1>2, Others DEF UpdateInv, Threads
  <2> QED
      BY <1>1, <2>1, NextThread DEF Threads, UpdateInv
<1>4. Alone'
  <2>1. ASSUME NEW u \in Ids, InConfigure(thread'[u]), thread'[u].alone
        PROVE  thread'[Other(u)].pc = "idle"
      BY <1>1, <1>2, <2>1, Others
  <2> QED
      BY <1>1, <2>1, NextThread DEF Alone, Other
<1>5. Left'
  <2>1. ASSUME NEW u \in Ids, InConfigure(thread'[u]), thread'[u].pc = "finish",
               thread'[u].alone, ~ thread'[u].err
        PROVE  ~ update'
      BY <1>1, <1>2, <2>1, Others DEF UpdateInv, Left
  <2> QED
      BY <1>1, <2>1, NextThread DEF Left, UpdateInv
<1>6. Rest'
  <2>1. ASSUME settled' # "none"
        PROVE  ~ update' /\ \A u \in Ids : thread'[u].pc = "idle"
    <3>1. thread[t].alone /\ ~ thread[t].err
        BY <1>1, <2>1
    <3>2. ~ update /\ ~ Busy(Other(t))
        BY <1>1, <3>1 DEF UpdateInv, Left, Alone
    <3> QED
        BY <1>1, <1>2, <3>2, Others DEF Busy
  <2> QED
      BY <2>1 DEF Rest, Settled, Busy
<1> QED
    BY <1>3, <1>4, <1>5, <1>6 DEF UpdateInv

LEMMA ActivateKeeps == UpdateInv /\ Activate => UpdateInv'
<1> SUFFICES ASSUME UpdateInv, Activate PROVE UpdateInv'
    OBVIOUS
<1>0. "Main" \in Ids /\ thread.Main = thread["Main"] /\ update \in BOOLEAN
    BY DEF Ids, UpdateInv, Threads
<1>1. CASE ActivateBq769x0 \/ ActivateIsl94202
  <2>1. chip' = chip /\ update' = update /\ Enters("Main", FALSE)
      BY <1>1 DEF ActivateBq769x0, ActivateIsl94202
  <2>2. chip # "bq769x2" => ~ update'
      BY <2>1 DEF UpdateInv, Left
  <2> QED
      BY <1>0, <2>1, <2>2, EnteringStep
<1>2. CASE ActivateBq769x2
  <2> DEFINE x == [pc |-> "init", err |-> FALSE]
  <2>1. /\ chip = "bq769x2" /\ UNCHANGED <<chip, update, settled>>
        /\ Busy("Main") /\ thread' = [thread EXCEPT !["Main"] = x]
      BY <1>0, <1>2, ThreadPc DEF ActivateBq769x2, ic
  <2>2. x.pc = "init" /\ DOMAIN x = {"pc", "err"}
      OBVIOUS
  <2> HIDE DEF x
  <2>3. Outside(x) /\ ~ InConfigure(x)
      BY <2>1, <2>2 DEF Outside, InConfigure, ConfigurePcs
  <2> QED
      BY <1>0, <2>1, <2>3, BusyStep
<1>3. CASE InitConfig
  <2>1. PICK ok \in BOOLEAN :
          /\ UpdateModeEntered(ok)
          /\ \/ Goes("Main", "initialised") /\ settled' = settled
             \/ Enters("Main", FALSE)
      BY <1>3 DEF InitConfig
  <2>2. chip = "bq769x2" /\ chip' = chip /\ Busy("Main") /\ thread["Main"].pc = "init"
      BY <1>0, <1>3, ThreadPc DEF InitConfig
  <2>3. update' \in BOOLEAN
      BY <1>0, <2>1, ModeType
  <2>4. CASE Goes("Main", "initialised") /\ settled' = settled
    <3> DEFINE x == [thread["Main"] EXCEPT !.pc = "initialised"]
    <3>1. thread' = [thread EXCEPT !["Main"] = x]
        BY <2>4 DEF Goes
    <3>2. thread["Main"].pc \notin ConfigurePcs
        BY <2>2 DEF ConfigurePcs
    <3>3. DOMAIN thread["Main"] = {"pc", "err"}
        BY <1>0, <2>2, <3>2 DEF UpdateInv, Threads, Outside, InConfigure, Idle, Booting
    <3>4. x.pc = "initialised" /\ DOMAIN x = {"pc", "err"}
        BY <3>3
    <3> HIDE DEF x
    <3>5. Outside(x) /\ ~ InConfigure(x)
        BY <2>2, <3>4 DEF Outside, InConfigure, ConfigurePcs
    <3> QED
        BY <1>0, <2>2, <2>3, <2>4, <3>1, <3>5, BusyStep
  <2>5. CASE Enters("Main", FALSE)
      BY <1>0, <2>2, <2>3, <2>5, EnteringStep
  <2> QED
      BY <2>1, <2>4, <2>5
<1>4. CASE LeaveInit
  <2>1. PICK ok \in BOOLEAN : UpdateModeLeft(ok)
      BY <1>4 DEF LeaveInit
  <2>2. /\ chip' = chip /\ Enters("Main", FALSE)
        /\ thread["Main"].pc = "initialised"
      BY <1>0, <1>4 DEF LeaveInit
  <2>3. update' \in BOOLEAN
      BY <1>0, <2>1, ModeType
  <2>4. chip = "bq769x2"
      BY <1>0, <2>2 DEF UpdateInv, Threads, Outside, InConfigure, ConfigurePcs, Idle, Booting
  <2> QED
      BY <1>0, <2>2, <2>3, <2>4, EnteringStep
<1> QED
    BY <1>1, <1>2, <1>3, <1>4 DEF Activate

LEMMA RequestKeeps ==
  ASSUME UpdateInv, Request, NEW preset, Enters("ThingSet", preset) PROVE UpdateInv'
<1>1. "ThingSet" \in Ids /\ chip' = chip /\ update' = update
    BY DEF Ids, Request, ic
<1>2. update' \in BOOLEAN /\ (chip # "bq769x2" => ~ update')
    BY <1>1 DEF UpdateInv, Threads, Left
<1> QED
    BY <1>1, <1>2, EnteringStep

LEMMA RestartKeeps == ASSUME UpdateInv, Restart PROVE UpdateInv'
<1>1. /\ chip' = chip /\ update' = update /\ settled' = "none"
      /\ thread' = [u \in Ids |-> thread'[u]]
      /\ \A u \in Ids : thread'[u] = Idle \/ thread'[u] = Booting
    BY DEF Restart, ic, Ids
<1>2. \A u \in Ids : Outside(thread'[u]) /\ ~ InConfigure(thread'[u])
    BY <1>1, PcsOutside DEF Outside, InConfigure
<1>3. Threads'
    BY <1>1, <1>2, NextThread DEF Threads, UpdateInv
<1>4. Alone'
    BY <1>1, <1>2, NextThread DEF Alone
<1>5. Left'
    BY <1>1, <1>2, NextThread DEF Left, UpdateInv
<1> QED
    BY <1>1, <1>3, <1>4, <1>5 DEF UpdateInv, Rest, Settled

LEMMA UpdateNext == UpdateInv /\ [Next]_vars => UpdateInv'
<1> SUFFICES ASSUME UpdateInv, [Next]_vars PROVE UpdateInv'
    OBVIOUS
<1>1. CASE Activate
    BY <1>1, ActivateKeeps
<1>2. CASE \E t \in {"Main", "ThingSet"} : Configure(t)
    BY <1>2, EnterUpdateModeKeeps, WritePartKeeps, StoreBackKeeps, ReadEnabledKeeps,
       WriteEnabledKeeps, LeaveUpdateModeKeeps, FinishKeeps DEF Configure, Ids
<1>3. CASE WriteItem \/ Preset
    BY <1>3, RequestKeeps DEF WriteItem, Preset
<1>4. CASE Restart
    BY <1>4, RestartKeeps
<1>5. CASE Save \/ UNCHANGED vars
  <2>1. UNCHANGED <<chip, update, thread, settled>>
      BY <1>5 DEF Save, vars, ic
  <2>2. Threads' /\ Alone'
      BY <2>1, NextThread DEF UpdateInv, Threads, Alone, Busy
  <2>3. Left' /\ Rest'
      BY <2>1, NextThread DEF UpdateInv, Left, Rest, Settled, Busy
  <2> QED
      BY <2>2, <2>3 DEF UpdateInv
<1> QED
    BY <1>1, <1>2, <1>3, <1>4, <1>5 DEF Next

\* After a successful configure() that had the IC for itself, the IC is back
\* in its normal mode, also when an activation failed before or the MCU was
\* reset in the update mode.
THEOREM ModeEnds == Spec => []UpdateModeEnds
<1>1. UpdateInv => UpdateModeEnds
    BY DEF UpdateInv, Rest, UpdateModeEnds
<1> QED
    BY <1>1, UpdateInit, UpdateNext, PTL DEF Spec

--------------------------------------------------------------------------
(***************************************************************************)
(* Conversions: what has been rounded to a step of the IC is rounded to    *)
(* the same step again.                                                    *)
(***************************************************************************)
\* Delays of the voltage protections, in units of 3.3 ms.
Delays2 == 1 .. 2047

LEMMA VoltageDelayExact ==
  ASSUME NEW d \in Delays2
  PROVE  Bq769x2!VoltageDelay((33 * d) \div 10) = d
<1> DEFINE m == (33 * d) \div 10
<1>0. d \in 1 .. 2047
    BY DEF Delays2
<1>1. m \in Nat /\ 10 * m <= 33 * d /\ 33 * d < 10 * m + 10
    BY <1>0
<1> HIDE DEF m
<1>2. (2 * (10 * m) + 33) \div 66 = d
    BY <1>0, <1>1
<1>3. Bq769x2!lroundf(10 * m, 33) = d
    BY <1>1, <1>2 DEF Bq769x2!lroundf
<1> QED
    BY <1>0, <1>3 DEF Bq769x2!VoltageDelay, Bq769x2!U16, Bq769x2!CLAMP, Bq769x2!AtLeast, Bq769x2!AtMost, m

LEMMA OcDelayExact ==
  ASSUME NEW d \in 1 .. 127
  PROVE  Bq769x2!oc_delay(Bq769x2!OcDelayMs(d)) = d
<1> DEFINE m == (2 * (66 + 33 * d) + 10) \div 20
<1>1. m \in Nat /\ 20 * m <= 142 + 66 * d /\ 142 + 66 * d < 20 * m + 20
    OBVIOUS
<1>2. Bq769x2!OcDelayMs(d) = m
    BY DEF Bq769x2!OcDelayMs, Bq769x2!lroundf
<1> HIDE DEF m
<1>3. 10 * m - 66 >= 0 /\ (2 * (10 * m - 66) + 33) \div 66 = d
    BY <1>1
<1>4. Bq769x2!lroundf(10 * m - 66, 33) = d
    BY <1>1, <1>3 DEF Bq769x2!lroundf
<1> QED
    BY <1>2, <1>4 DEF Bq769x2!oc_delay, Bq769x2!CLAMP, Bq769x2!AtLeast, Bq769x2!AtMost

(***************************************************************************)
(* An entry that was chosen from a rising table.                           *)
(***************************************************************************)
LEMMA EntrySearch ==
  ASSUME NEW n \in 1 .. 16, NEW table \in [1 .. n -> Int], NEW value \in Int
  PROVE  \E i \in 1 .. n : /\ i = 1 \/ table[i] <= value
                           /\ \A j \in i + 1 .. n : table[j] > value
<1> DEFINE Last(m) == \E i \in 1 .. m : /\ i = 1 \/ table[i] <= value
                                       /\ \A j \in i + 1 .. m : table[j] > value
           Found == {m \in 1 .. n : Last(m)}
<1>1. 1 \in Found
    OBVIOUS
<1>2. ASSUME NEW m \in 1 .. n - 1, m \in Found PROVE m + 1 \in Found
  <2>1. PICK i \in 1 .. m : /\ i = 1 \/ table[i] <= value
                            /\ \A j \in i + 1 .. m : table[j] > value
      BY <1>2
  <2>2. CASE table[m + 1] <= value
    <3>1. Last(m + 1)
      <4>1. m + 1 \in 1 .. m + 1 /\ \A j \in (m + 1) + 1 .. m + 1 : table[j] > value
          OBVIOUS
      <4> QED
          BY <2>2, <4>1
    <3> QED
        BY <3>1
  <2>3. CASE ~ (table[m + 1] <= value)
    <3>1. \A j \in i + 1 .. m + 1 : table[j] > value
      <4> SUFFICES ASSUME NEW j \in i + 1 .. m + 1 PROVE table[j] > value
          OBVIOUS
      <4>1. CASE j = m + 1
          BY <2>3, <4>1
      <4>2. CASE j # m + 1
          BY <2>1, <4>2
      <4> QED
          BY <4>1, <4>2
    <3>2. Last(m + 1)
      <4>1. i \in 1 .. m + 1
          BY <2>1
      <4> QED
          BY <2>1, <3>1, <4>1
    <3> QED
        BY <3>2
  <2> QED
      BY <2>2, <2>3
<1> HIDE DEF Found
<1>3. n \in Found
  <2>1. \A m \in 1 .. 4 : m <= n => m \in Found
      BY <1>1, <1>2
  <2>2. \A m \in 5 .. 8 : m <= n => m \in Found
      BY <1>2, <2>1
  <2>3. \A m \in 9 .. 12 : m <= n => m \in Found
      BY <1>2, <2>2
  <2>4. \A m \in 13 .. 16 : m <= n => m \in Found
      BY <1>2, <2>3
  <2> QED
      BY <2>1, <2>2, <2>3, <2>4
<1> QED
    BY <1>3 DEF Found

Rising(table, n) ==
  /\ n \in 1 .. 16 /\ table \in [1 .. n -> Int] /\ Len(table) = n
  /\ \A i, j \in 1 .. n : i < j => table[i] < table[j]

LEMMA EntryChosen ==
  ASSUME NEW n, NEW table, Rising(table, n), NEW value \in Int
  PROVE  /\ ChosenEntry(table, value) \in 1 .. n
         /\ \/ ChosenEntry(table, value) = 1
            \/ table[ChosenEntry(table, value)] <= value
         /\ \A j \in ChosenEntry(table, value) + 1 .. n : table[j] > value
<1>1. n \in 1 .. 16 /\ table \in [1 .. n -> Int] /\ Len(table) = n /\ DOMAIN table = 1 .. n
    BY DEF Rising
<1>2. \E i \in 1 .. n : /\ i = 1 \/ table[i] <= value
                        /\ \A j \in i + 1 .. n : table[j] > value
    BY <1>1, EntrySearch
<1> QED
    BY <1>1, <1>2 DEF ChosenEntry

LEMMA EntryExact ==
  ASSUME NEW n, NEW table, Rising(table, n), NEW k \in 1 .. n
  PROVE  ChosenEntry(table, table[k]) = k
<1> DEFINE i == ChosenEntry(table, table[k])
<1>1. table[k] \in Int /\ n \in 1 .. 16 /\ table \in [1 .. n -> Int]
    BY DEF Rising
<1>2. /\ i \in 1 .. n /\ (i = 1 \/ table[i] <= table[k])
      /\ \A j \in i + 1 .. n : table[j] > table[k]
    BY <1>1, EntryChosen
<1> HIDE DEF i
<1>3. ~ (i < k)
    BY <1>1, <1>2
<1>4. ~ (k < i)
  <2> SUFFICES ASSUME k < i PROVE FALSE
      OBVIOUS
  <2>1. i # 1
      BY <1>1, <1>2
  <2>2. table[k] < table[i]
      BY <1>2 DEF Rising
  <2> QED
      BY <1>1, <1>2, <2>1, <2>2
<1> QED
    BY <1>1, <1>2, <1>3, <1>4 DEF i

LEMMA SameSearch ==
  /\ \A t, v : Bq769x0!ChosenEntry(t, v) = ChosenEntry(t, v)
  /\ \A t, v : Bq769x2!ChosenEntry(t, v) = ChosenEntry(t, v)
  /\ \A t, v : Isl94202!ChosenEntry(t, v) = ChosenEntry(t, v)
  BY DEF ChosenEntry, Bq769x0!ChosenEntry, Bq769x2!ChosenEntry, Isl94202!ChosenEntry

LEMMA RisingTables ==
  /\ Rising(Bq769x0!ov_delays, 4) /\ Rising(Bq769x0!uv_delays, 4)
  /\ Rising(Bq769x0!ocd_thresholds, 16) /\ Rising(Bq769x0!ocd_delays, 8)
  /\ Rising(Bq769x0!scd_thresholds, 8) /\ Rising(Bq769x0!scd_delays, 4)
  /\ Rising(Bq769x2!scd_thresholds, 16)
  /\ Rising(Isl94202!ocd_thresholds, 8) /\ Rising(Isl94202!occ_thresholds, 8)
  /\ Rising(Isl94202!dsc_thresholds, 8)
<1>1. Rising(Bq769x0!ov_delays, 4) /\ Rising(Bq769x0!uv_delays, 4)
      /\ Rising(Bq769x0!scd_delays, 4)
    BY DEF Rising, Bq769x0!ov_delays, Bq769x0!uv_delays, Bq769x0!scd_delays
<1>2. Rising(Bq769x0!ocd_thresholds, 16)
    BY DEF Rising, Bq769x0!ocd_thresholds
<1>3. Rising(Bq769x0!ocd_delays, 8) /\ Rising(Bq769x0!scd_thresholds, 8)
    BY DEF Rising, Bq769x0!ocd_delays, Bq769x0!scd_thresholds
<1>4. Rising(Bq769x2!scd_thresholds, 16)
    BY DEF Rising, Bq769x2!scd_thresholds
<1>5. Rising(Isl94202!ocd_thresholds, 8) /\ Rising(Isl94202!occ_thresholds, 8)
    BY DEF Rising, Isl94202!ocd_thresholds, Isl94202!occ_thresholds
<1>6. Rising(Isl94202!dsc_thresholds, 8)
    BY DEF Rising, Isl94202!dsc_thresholds
<1> QED
    BY <1>1, <1>2, <1>3, <1>4, <1>5, <1>6

--------------------------------------------------------------------------
(***************************************************************************)
(* What the parts of configure() read, write and store back.               *)
(***************************************************************************)
PartItems ==
  <<{"cell_ov_limit", "cell_ov_reset", "cell_ov_delay_ms"},
    {"cell_uv_limit", "cell_uv_reset", "cell_uv_delay_ms"},
    {"dis_ut_limit", "dis_ot_limit", "chg_ut_limit", "chg_ot_limit", "temp_limit_hyst"},
    {"chg_oc_limit", "chg_oc_delay_ms"},
    {"dis_oc_limit", "dis_oc_delay_ms"},
    {"dis_sc_limit", "dis_sc_delay_us"},
    {"bal_cell_voltage_diff", "bal_cell_voltage_min", "bal_idle_current",
     "bal_idle_delay", "auto_balancing"},
    {"alert_mask"},
    {"vregs_enable"}>>

PartRegs ==
  <<{"OV_TRIP", "OV_DELAY", "COV_THRESHOLD", "COV_RECOV_HYST", "COV_DELAY",
     "OVL_CPW", "OVR", "OVDT"},
    {"UV_TRIP", "UV_DELAY", "CUV_THRESHOLD", "CUV_RECOV_HYST", "CUV_DELAY",
     "UVL_LPW", "UVR", "UVDT"},
    {"dis_ot_limit", "dis_ut_limit", "chg_ot_limit", "chg_ut_limit", "temp_limit_hyst",
     "OTC_THRESHOLD", "OTD_THRESHOLD", "UTC_THRESHOLD", "UTD_THRESHOLD",
     "OTC_RECOVERY", "OTD_RECOVERY", "UTC_RECOVERY", "UTD_RECOVERY",
     "COTS", "COTR", "CUTS", "CUTR", "DOTS", "DOTR", "DUTS", "DUTR"},
    {"chg_oc_limit", "chg_oc_delay_ms", "OCC_THRESHOLD", "OCC_DELAY", "OCCT_OCC"},
    {"PROTECT2", "OCD1_THRESHOLD", "OCD1_DELAY", "OCDT_OCD"},
    {"PROTECT1", "SCD_THRESHOLD", "SCD_DELAY", "SCDT_SCD"},
    {"bal_cell_voltage_diff", "bal_cell_voltage_min", "bal_idle_current",
     "bal_idle_delay", "auto_balancing", "CBAL_MIN_CELL_V", "CBAL_MIN_DELTA",
     "CBAL_MIN_CELL_TEMP", "CBAL_MAX_CELL_TEMP", "CURR_TH", "CBAL_CONF",
     "CBMIN", "CBMAX", "CBMINDV", "CBMAXDV", "EOC", "SETUP1"},
    {"alert_mask", "ALERT_MASK_A", "ALERT_MASK_B", "ALARM_DEFAULT_MASK"},
    {"REG0", "REG12"}>>

Items == {"cell_ov_limit", "cell_ov_reset", "cell_ov_delay_ms",
          "cell_uv_limit", "cell_uv_reset", "cell_uv_delay_ms",
          "dis_ut_limit", "dis_ot_limit", "chg_ut_limit", "chg_ot_limit",
          "temp_limit_hyst", "chg_oc_limit", "chg_oc_delay_ms", "dis_oc_limit",
          "dis_oc_delay_ms", "dis_sc_limit", "dis_sc_delay_us",
          "bal_cell_voltage_diff", "bal_cell_voltage_min", "bal_idle_current",
          "bal_idle_delay", "auto_balancing", "alert_mask", "vregs_enable"}
Limits == {"chg_oc_limit", "dis_oc_limit", "dis_sc_limit"}

\* No current limit that is written is negative.
NotNegative == \A write \in Asked : write[1] \in Limits => write[2] >= 0

\* The alerts that the bq769x2 has.
AlertsShown == Errors \intersect (Bq769x2!AlertsA \union Bq769x2!AlertsB)

Typed(item) ==
  IF item \in Limits THEN IF NotNegative THEN Nat ELSE Int
  ELSE IF item = "auto_balancing" THEN {TRUE}
  ELSE IF item = "vregs_enable" THEN {{}}
  ELSE IF item = "alert_mask" THEN {Errors, IF chip = "bq769x2" THEN AlertsShown ELSE Errors}
  ELSE Int

ConfTypes(c) == DOMAIN c = Items /\ \A item \in Items : c[item] \in Typed(item)

BackTypes(back, i) ==
  /\ DOMAIN back \subseteq PartItems[i]
  /\ \A item \in DOMAIN back : back[item] \in Typed(item)

LEMMA PartItemsDisjoint ==
  \A i, j \in 1 .. 9 : i # j => PartItems[i] \intersect PartItems[j] = {}
  BY DEF PartItems

LEMMA ItemsOfParts ==
  \A i \in 1 .. 9 : PartItems[i] \subseteq Items
  BY DEF PartItems, Items

LEMMA PartRegsDisjoint ==
  \A i, j \in 1 .. 9 : i # j => PartRegs[i] \intersect PartRegs[j] = {}
  BY SMTT(60) DEF PartRegs

LEMMA TypedNumbers ==
  \A item \in Items \ Volatile : Typed(item) \subseteq Int
<1> SUFFICES ASSUME NEW item \in Items \ Volatile, NEW v \in Typed(item) PROVE v \in Int
    OBVIOUS
<1>1. CASE item \in Limits
    BY <1>1 DEF Typed
<1>2. CASE item \notin Limits
  <2>1. Typed(item) = Int
      BY <1>2 DEF Typed, Volatile
  <2> QED
      BY <2>1
<1> QED
    BY <1>1, <1>2

LEMMA DefaultTypes ==
  ASSUME NEW type \in CellTypes, NEW capacity \in Nat
  PROVE  ConfTypes(bms_init_config(type, capacity))
<1> DEFINE c == bms_init_config(type, capacity)
<1>1. DOMAIN c = Items
    BY DEF bms_init_config, Items
<1>2. /\ c.cell_ov_limit \in Int /\ c.cell_ov_reset \in Int
      /\ c.cell_uv_limit \in Int /\ c.cell_uv_reset \in Int
      /\ c.bal_cell_voltage_min \in Int
    BY DEF bms_init_config, CellVoltages, CellTypes
<1>3. c.chg_oc_limit \in Nat /\ c.dis_oc_limit \in Nat /\ c.dis_sc_limit \in Nat
    BY DEF bms_init_config
<1>4. c.auto_balancing = TRUE /\ c.vregs_enable = {} /\ c.alert_mask = Errors
    BY DEF bms_init_config
<1>5. \A item \in Items \ (Limits \union Volatile) : c[item] \in Int
    BY <1>2 DEF bms_init_config, Items, Limits, Volatile
<1> HIDE DEF c
<1>6. \A item \in Items : c[item] \in Typed(item)
  <2> SUFFICES ASSUME NEW item \in Items PROVE c[item] \in Typed(item)
      OBVIOUS
  <2>1. CASE item \in Limits
    <3>1. c[item] \in Nat
        BY <1>3, <2>1 DEF Limits
    <3> QED
        BY <2>1, <3>1 DEF Typed
  <2>2. CASE item \in Volatile
      BY <1>4, <2>2 DEF Typed, Volatile, Limits
  <2>3. CASE item \notin Limits \union Volatile
      BY <1>5, <2>3 DEF Typed, Volatile
  <2> QED
      BY <2>1, <2>2, <2>3
<1> QED
    BY <1>1, <1>6 DEF ConfTypes, c

--------------------------------------------------------------------------
(***************************************************************************)
(* A part depends on the items it reads only.                              *)
(***************************************************************************)
LEMMA PartsOf0 ==
  ASSUME chip = "bq769x0", NEW c
  PROVE  /\ Outcomes(1, c) = Bq769x0!CellOvps(c, adc)
         /\ Outcomes(2, c) = Bq769x0!CellUvps(c, adc)
         /\ Outcomes(3, c) = {Bq769x0!TempLimits(c)}
         /\ Outcomes(4, c) = {Bq769x0!ChgOcp(c)}
         /\ Outcomes(5, c) = {Bq769x0!DisOcp(c)}
         /\ Outcomes(6, c) = {Bq769x0!DisScp(c)}
         /\ Outcomes(7, c) = {Bq769x0!Balancing(c)}
         /\ Outcomes(8, c) = {Bq769x0!Alerts(c)}
  BY DEF Outcomes, Bq769x0Outcomes, PartNames

LEMMA PartsOf2 ==
  ASSUME chip = "bq769x2", NEW c
  PROVE  /\ Outcomes(1, c) = {Bq769x2!CellOvp(c)}
         /\ Outcomes(2, c) = {Bq769x2!CellUvp(c)}
         /\ Outcomes(3, c) = {Bq769x2!TempLimits(c)}
         /\ Outcomes(4, c) = {Bq769x2!ChgOcp(c)}
         /\ Outcomes(5, c) = {Bq769x2!DisOcp(c)}
         /\ Outcomes(6, c) = {Bq769x2!DisScp(c)}
         /\ Outcomes(7, c) = {Bq769x2!Balancing(c)}
         /\ Outcomes(8, c) = {Bq769x2!Alerts(c)}
         /\ Outcomes(9, c) = {Bq769x2!VoltageRegs(c)}
  BY DEF Outcomes, Bq769x2Outcome, PartNames

LEMMA PartsOfIsl ==
  ASSUME chip = "isl94202", NEW c
  PROVE  /\ Outcomes(1, c) = {Isl94202!CellOvp(c)}
         /\ Outcomes(2, c) = {Isl94202!CellUvp(c)}
         /\ Outcomes(3, c) = {Isl94202!TempLimits(c)}
         /\ Outcomes(4, c) = {Isl94202!ChgOcp(c)}
         /\ Outcomes(5, c) = {Isl94202!DisOcp(c)}
         /\ Outcomes(6, c) = {Isl94202!DisScp(c)}
         /\ Outcomes(7, c) = {Isl94202!Balancing(c)}
  BY DEF Outcomes, Isl94202Outcome, PartNames

\* What a part depends on: in the bq769x2, balancing also on the limits of
\* the temperatures.
Reads == [PartItems EXCEPT ![7] = @ \union PartItems[3]]
SameFor(c, d, i) == \A item \in Reads[i] : c[item] = d[item]

LEMMA ReadsAre ==
  ASSUME NEW c, NEW d
  PROVE  /\ SameFor(c, d, 1) => /\ c.cell_ov_limit = d.cell_ov_limit
                                /\ c.cell_ov_reset = d.cell_ov_reset
                                /\ c.cell_ov_delay_ms = d.cell_ov_delay_ms
         /\ SameFor(c, d, 2) => /\ c.cell_uv_limit = d.cell_uv_limit
                                /\ c.cell_uv_reset = d.cell_uv_reset
                                /\ c.cell_uv_delay_ms = d.cell_uv_delay_ms
         /\ SameFor(c, d, 3) \/ SameFor(c, d, 7) =>
              /\ c.dis_ut_limit = d.dis_ut_limit /\ c.dis_ot_limit = d.dis_ot_limit
              /\ c.chg_ut_limit = d.chg_ut_limit /\ c.chg_ot_limit = d.chg_ot_limit
              /\ c.temp_limit_hyst = d.temp_limit_hyst
         /\ SameFor(c, d, 4) => /\ c.chg_oc_limit = d.chg_oc_limit
                                /\ c.chg_oc_delay_ms = d.chg_oc_delay_ms
         /\ SameFor(c, d, 5) => /\ c.dis_oc_limit = d.dis_oc_limit
                                /\ c.dis_oc_delay_ms = d.dis_oc_delay_ms
         /\ SameFor(c, d, 6) => /\ c.dis_sc_limit = d.dis_sc_limit
                                /\ c.dis_sc_delay_us = d.dis_sc_delay_us
         /\ SameFor(c, d, 7) =>
              /\ c.bal_cell_voltage_diff = d.bal_cell_voltage_diff
              /\ c.bal_cell_voltage_min = d.bal_cell_voltage_min
              /\ c.bal_idle_current = d.bal_idle_current
              /\ c.bal_idle_delay = d.bal_idle_delay
              /\ c.auto_balancing = d.auto_balancing
         /\ SameFor(c, d, 8) => c.alert_mask = d.alert_mask
         /\ SameFor(c, d, 9) => c.vregs_enable = d.vregs_enable
<1>1. /\ Reads[1] = PartItems[1] /\ Reads[2] = PartItems[2] /\ Reads[3] = PartItems[3]
      /\ Reads[4] = PartItems[4] /\ Reads[5] = PartItems[5] /\ Reads[6] = PartItems[6]
      /\ Reads[7] = PartItems[7] \union PartItems[3]
      /\ Reads[8] = PartItems[8] /\ Reads[9] = PartItems[9]
    BY DEF Reads, PartItems
<1> QED
    BY <1>1 DEF SameFor, PartItems

LEMMA SameOutcomes0 ==
  ASSUME chip = "bq769x0", NEW i \in 1 .. 8, NEW c, NEW d, SameFor(c, d, i)
  PROVE  Outcomes(i, c) = Outcomes(i, d)
<1>1. CASE i = 1
  <2>1. Bq769x0!CellOvps(c, adc) = Bq769x0!CellOvps(d, adc)
      BY <1>1, ReadsAre DEF Bq769x0!CellOvps, Bq769x0!CellOvp
  <2> QED
      BY <1>1, <2>1, PartsOf0
<1>2. CASE i = 2
  <2>1. Bq769x0!CellUvps(c, adc) = Bq769x0!CellUvps(d, adc)
      BY <1>2, ReadsAre DEF Bq769x0!CellUvps, Bq769x0!CellUvp
  <2> QED
      BY <1>2, <2>1, PartsOf0
<1>3. CASE i = 3
  <2>1. Bq769x0!TempLimits(c) = Bq769x0!TempLimits(d)
      BY <1>3, ReadsAre DEF Bq769x0!TempLimits
  <2> QED
      BY <1>3, <2>1, PartsOf0
<1>4. CASE i = 4
  <2>1. Bq769x0!ChgOcp(c) = Bq769x0!ChgOcp(d)
      BY <1>4, ReadsAre DEF Bq769x0!ChgOcp
  <2> QED
      BY <1>4, <2>1, PartsOf0
<1>5. CASE i = 5
  <2>1. Bq769x0!DisOcp(c) = Bq769x0!DisOcp(d)
      BY <1>5, ReadsAre DEF Bq769x0!DisOcp
  <2> QED
      BY <1>5, <2>1, PartsOf0
<1>6. CASE i = 6
  <2>1. Bq769x0!DisScp(c) = Bq769x0!DisScp(d)
      BY <1>6, ReadsAre DEF Bq769x0!DisScp
  <2> QED
      BY <1>6, <2>1, PartsOf0
<1>7. CASE i = 7
  <2>1. Bq769x0!Balancing(c) = Bq769x0!Balancing(d)
      BY <1>7, ReadsAre DEF Bq769x0!Balancing
  <2> QED
      BY <1>7, <2>1, PartsOf0
<1>8. CASE i = 8
  <2>1. Bq769x0!Alerts(c) = Bq769x0!Alerts(d)
      BY <1>8, ReadsAre DEF Bq769x0!Alerts
  <2> QED
      BY <1>8, <2>1, PartsOf0
<1> QED
    BY <1>1, <1>2, <1>3, <1>4, <1>5, <1>6, <1>7, <1>8

LEMMA SameOutcomes2 ==
  ASSUME chip = "bq769x2", NEW i \in 1 .. 9, NEW c, NEW d, SameFor(c, d, i)
  PROVE  Outcomes(i, c) = Outcomes(i, d)
<1>1. CASE i = 1
  <2>1. Bq769x2!CellOvp(c) = Bq769x2!CellOvp(d)
      BY <1>1, ReadsAre DEF Bq769x2!CellOvp, Bq769x2!cov_threshold, Bq769x2!cov_hyst
  <2> QED
      BY <1>1, <2>1, PartsOf2
<1>2. CASE i = 2
  <2>1. Bq769x2!CellUvp(c) = Bq769x2!CellUvp(d)
      BY <1>2, ReadsAre DEF Bq769x2!CellUvp, Bq769x2!cuv_threshold, Bq769x2!cuv_hyst
  <2> QED
      BY <1>2, <2>1, PartsOf2
<1>3. CASE i = 3
  <2>1. Bq769x2!TempLimits(c) = Bq769x2!TempLimits(d)
      BY <1>3, ReadsAre DEF Bq769x2!TempLimits
  <2> QED
      BY <1>3, <2>1, PartsOf2
<1>4. CASE i = 4
  <2>1. Bq769x2!ChgOcp(c) = Bq769x2!ChgOcp(d)
      BY <1>4, ReadsAre DEF Bq769x2!ChgOcp
  <2> QED
      BY <1>4, <2>1, PartsOf2
<1>5. CASE i = 5
  <2>1. Bq769x2!DisOcp(c) = Bq769x2!DisOcp(d)
      BY <1>5, ReadsAre DEF Bq769x2!DisOcp
  <2> QED
      BY <1>5, <2>1, PartsOf2
<1>6. CASE i = 6
  <2>1. Bq769x2!DisScp(c) = Bq769x2!DisScp(d)
      BY <1>6, ReadsAre DEF Bq769x2!DisScp
  <2> QED
      BY <1>6, <2>1, PartsOf2
<1>7. CASE i = 7
  <2>1. Bq769x2!Balancing(c) = Bq769x2!Balancing(d)
      BY <1>7, ReadsAre DEF Bq769x2!Balancing
  <2> QED
      BY <1>7, <2>1, PartsOf2
<1>8. CASE i = 8
  <2>1. Bq769x2!Alerts(c) = Bq769x2!Alerts(d)
      BY <1>8, ReadsAre DEF Bq769x2!Alerts
  <2> QED
      BY <1>8, <2>1, PartsOf2
<1>9. CASE i = 9
  <2>1. Bq769x2!VoltageRegs(c) = Bq769x2!VoltageRegs(d)
      BY <1>9, ReadsAre DEF Bq769x2!VoltageRegs
  <2> QED
      BY <1>9, <2>1, PartsOf2
<1> QED
    BY <1>1, <1>2, <1>3, <1>4, <1>5, <1>6, <1>7, <1>8, <1>9

LEMMA SameOutcomesIsl ==
  ASSUME chip = "isl94202", NEW i \in 1 .. 7, NEW c, NEW d, SameFor(c, d, i)
  PROVE  Outcomes(i, c) = Outcomes(i, d)
<1>1. CASE i = 1
  <2>1. Isl94202!CellOvp(c) = Isl94202!CellOvp(d)
      BY <1>1, ReadsAre DEF Isl94202!CellOvp
  <2> QED
      BY <1>1, <2>1, PartsOfIsl
<1>2. CASE i = 2
  <2>1. Isl94202!CellUvp(c) = Isl94202!CellUvp(d)
      BY <1>2, ReadsAre DEF Isl94202!CellUvp
  <2> QED
      BY <1>2, <2>1, PartsOfIsl
<1>3. CASE i = 3
  <2>1. Isl94202!TempLimits(c) = Isl94202!TempLimits(d)
      BY <1>3, ReadsAre DEF Isl94202!TempLimits
  <2> QED
      BY <1>3, <2>1, PartsOfIsl
<1>4. CASE i = 4
  <2>1. Isl94202!ChgOcp(c) = Isl94202!ChgOcp(d)
      BY <1>4, ReadsAre DEF Isl94202!ChgOcp
  <2> QED
      BY <1>4, <2>1, PartsOfIsl
<1>5. CASE i = 5
  <2>1. Isl94202!DisOcp(c) = Isl94202!DisOcp(d)
      BY <1>5, ReadsAre DEF Isl94202!DisOcp
  <2> QED
      BY <1>5, <2>1, PartsOfIsl
<1>6. CASE i = 6
  <2>1. Isl94202!DisScp(c) = Isl94202!DisScp(d)
      BY <1>6, ReadsAre DEF Isl94202!DisScp
  <2> QED
      BY <1>6, <2>1, PartsOfIsl
<1>7. CASE i = 7
  <2>1. /\ c.bal_cell_voltage_min = d.bal_cell_voltage_min
        /\ c.bal_cell_voltage_diff = d.bal_cell_voltage_diff
        /\ c.auto_balancing = d.auto_balancing
      BY <1>7, ReadsAre
  <2> DEFINE Fitting(names, v) == {n \in names : Isl94202!VoltageFits(v)}
             Of(min, diff, auto) ==
               Isl94202!Writes(
                 Fitting({"CBMIN", "EOC"}, min) \union Fitting({"CBMINDV"}, diff)
                   \union {"CBMAX", "CBMAXDV", "SETUP1"},
                 Isl94202!Part(
                   [CBMIN |-> Isl94202!write_voltage(min, 0),
                    CBMAX |-> Isl94202!write_voltage(45000, 0),
                    CBMINDV |-> Isl94202!write_voltage(diff, 0),
                    CBMAXDV |-> Isl94202!write_voltage(10000, 0),
                    EOC |-> Isl94202!write_voltage(min, 0),
                    SETUP1 |-> IF auto THEN {"CBDC", "CB_EOC"} ELSE {}], <<>>))
  <2>2. \A x : Isl94202!Balancing(x)
                = Of(x.bal_cell_voltage_min, x.bal_cell_voltage_diff, x.auto_balancing)
      BY DEF Isl94202!Balancing
  <2> HIDE DEF Of
  <2>3. Isl94202!Balancing(c) = Isl94202!Balancing(d)
      BY <2>1, <2>2, Zenon
  <2> QED
      BY <1>7, <2>3, PartsOfIsl
<1> QED
    BY <1>1, <1>2, <1>3, <1>4, <1>5, <1>6, <1>7

LEMMA SameOutcomes ==
  ASSUME chip \in Chips, NEW i \in 1 .. LastPart, NEW c, NEW d, SameFor(c, d, i)
  PROVE  Outcomes(i, c) = Outcomes(i, d)
<1>1. chip \in {"bq769x0", "bq769x2", "isl94202"}
    BY ConfigurationAssumption
<1>2. /\ chip = "bq769x0" => LastPart = 8
      /\ chip = "bq769x2" => LastPart = 9
      /\ chip = "isl94202" => LastPart = 7
    BY DEF LastPart
<1> QED
    BY <1>1, <1>2, SameOutcomes0, SameOutcomes2, SameOutcomesIsl

--------------------------------------------------------------------------
(***************************************************************************)
(* Types of the parts: first those of the bq769x2 ...                      *)
(***************************************************************************)
\* The protections that a part of the bq769x2 enables.
EnabledBy == <<{}, {"CUV"}, {"OTC", "OTD", "UTC", "UTD"}, {"OCC"}, {"OCD1"},
               {}, {}, {}, {}>>

\* A part of configure() keeps to its registers and items.
PartTypes(p, i) ==
  /\ DOMAIN p.writes \subseteq PartRegs[i]
  /\ BackTypes(p.back, i)
  /\ p.refused \in BOOLEAN /\ p.backOnError \in BOOLEAN
  /\ p.enables \in {{}, EnabledBy[i]}
  /\ chip = "bq769x2" => p.refused \/ p.enables = EnabledBy[i]

LEMMA RestAreNumbers ==
  \A item \in Items : item \notin Limits \union Volatile => Typed(item) = Int
  BY DEF Typed, Limits, Volatile

LEMMA NumberItems ==
  /\ Typed("cell_ov_limit") = Int /\ Typed("cell_ov_reset") = Int
  /\ Typed("cell_ov_delay_ms") = Int
  /\ Typed("cell_uv_limit") = Int /\ Typed("cell_uv_reset") = Int
  /\ Typed("cell_uv_delay_ms") = Int
  /\ Typed("dis_ut_limit") = Int /\ Typed("dis_ot_limit") = Int
  /\ Typed("chg_ut_limit") = Int /\ Typed("chg_ot_limit") = Int
  /\ Typed("temp_limit_hyst") = Int /\ Typed("chg_oc_delay_ms") = Int
  /\ Typed("dis_oc_delay_ms") = Int /\ Typed("dis_sc_delay_us") = Int
  /\ Typed("bal_cell_voltage_diff") = Int /\ Typed("bal_cell_voltage_min") = Int
  BY RestAreNumbers DEF Items, Limits, Volatile

LEMMA LimitItems ==
  /\ Nat \subseteq Typed("chg_oc_limit") /\ Nat \subseteq Typed("dis_oc_limit")
  /\ Nat \subseteq Typed("dis_sc_limit")
  BY DEF Typed, Limits

\* The numbers of a configuration.
LEMMA ConfNumbers ==
  ASSUME NEW c, ConfTypes(c)
  PROVE  /\ c.cell_ov_limit \in Int /\ c.cell_ov_reset \in Int
         /\ c.cell_ov_delay_ms \in Int
         /\ c.cell_uv_limit \in Int /\ c.cell_uv_reset \in Int
         /\ c.cell_uv_delay_ms \in Int
         /\ c.dis_ut_limit \in Int /\ c.dis_ot_limit \in Int
         /\ c.chg_ut_limit \in Int /\ c.chg_ot_limit \in Int
         /\ c.temp_limit_hyst \in Int
         /\ c.chg_oc_limit \in Int /\ c.chg_oc_delay_ms \in Int
         /\ c.dis_oc_limit \in Int /\ c.dis_oc_delay_ms \in Int
         /\ c.dis_sc_limit \in Int /\ c.dis_sc_delay_us \in Int
         /\ c.bal_cell_voltage_diff \in Int /\ c.bal_cell_voltage_min \in Int
<1>1. \A item \in Items \ Volatile : c[item] \in Int
    BY TypedNumbers DEF ConfTypes
<1> QED
    BY <1>1 DEF Items, Volatile

\* The same part with another set of protections, failures, and so on.
LEMMA Variants2 ==
  ASSUME NEW w, NEW b, NEW s
  PROVE  /\ LET p == Bq769x2!Enabling(s, Bq769x2!Part(w, b))
            IN  /\ p.writes = w /\ p.back = b /\ p.unreported = {}
                /\ p.refused = FALSE /\ p.backOnError = TRUE /\ p.enables = s
         /\ LET p == Bq769x2!OnSuccess(Bq769x2!Part(w, b))
            IN  /\ p.writes = w /\ p.back = b /\ p.unreported = {}
                /\ p.refused = FALSE /\ p.backOnError = FALSE /\ p.enables = {}
         /\ LET p == Bq769x2!OnSuccess(Bq769x2!FailingWith(s, Bq769x2!Part(w, b)))
            IN  /\ p.writes = w /\ p.back = b /\ p.unreported = {}
                /\ p.refused = FALSE /\ p.backOnError = FALSE /\ p.enables = {}
         /\ LET p == Bq769x2!Refused(Bq769x2!Nothing)
            IN  /\ p.writes = <<>> /\ p.back = <<>> /\ p.unreported = {}
                /\ p.refused = TRUE /\ p.backOnError = TRUE /\ p.enables = {}
  BY DEF Bq769x2!Part, Bq769x2!Enabling, Bq769x2!OnSuccess, Bq769x2!FailingWith,
         Bq769x2!Refused, Bq769x2!Nothing

LEMMA Temp2 == \A n \in Int : Bq769x2!TempThreshold(n) \in -40 .. 120
  BY DEF Bq769x2!TempThreshold, Bq769x2!CLAMP, Bq769x2!AtLeast, Bq769x2!AtMost

LEMMA Hyst2 == \A n \in Int : Bq769x2!CLAMP(n, 1, 20) \in 1 .. 20
  BY DEF Bq769x2!CLAMP, Bq769x2!AtLeast, Bq769x2!AtMost

LEMMA Delay2 == \A n \in Int : Bq769x2!VoltageDelay(n) \in Delays2
  BY DEF Delays2, Bq769x2!VoltageDelay, Bq769x2!CLAMP, Bq769x2!AtLeast, Bq769x2!AtMost,
         Bq769x2!U16, Bq769x2!lroundf

LEMMA OcDelay2 == \A n \in Int : Bq769x2!oc_delay(n) \in 1 .. 127
  BY DEF Bq769x2!oc_delay, Bq769x2!CLAMP, Bq769x2!AtLeast, Bq769x2!AtMost,
         Bq769x2!lroundf

LEMMA Oc2 ==
  \A n \in Int : /\ Bq769x2!oc_threshold(n, 62) \in 2 .. 62
                 /\ Bq769x2!oc_threshold(n, 100) \in 2 .. 100
  BY ConfigurationAssumption
     DEF Bq769x2!oc_threshold, Bq769x2!CLAMP, Bq769x2!AtLeast, Bq769x2!AtMost,
         Bq769x2!U8, Bq769x2!lroundf, Bq769x2!ShuntStep

LEMMA ScDelay2 ==
  \A n \in Int : Bq769x2!CLAMP(Bq769x2!U16(n \div 15 + 1), 1, 31) \in 1 .. 31
  BY DEF Bq769x2!CLAMP, Bq769x2!AtLeast, Bq769x2!AtMost, Bq769x2!U16

LEMMA OcDelayType == \A d \in 1 .. 127 : Bq769x2!OcDelayMs(d) \in Int
  BY DEF Bq769x2!OcDelayMs, Bq769x2!lroundf

LEMMA Cell2 ==
  ASSUME NEW n \in Int, NEW m \in Int
  PROVE  /\ Bq769x2!CLAMP(Bq769x2!U8(Bq769x2!lroundf(n, Bq769x2!CellStep)), 20, 110)
              \in 20 .. 110
         /\ Bq769x2!CLAMP(Bq769x2!U8(Bq769x2!lroundf(n, Bq769x2!CellStep)), 20, 90)
              \in 20 .. 90
         /\ Bq769x2!CLAMP(Bq769x2!U8(Bq769x2!lroundf(
              Bq769x2!AtLeast(n - m, 0), Bq769x2!CellStep)), 2, 20) \in 2 .. 20
  BY DEF Bq769x2!CLAMP, Bq769x2!AtLeast, Bq769x2!AtMost, Bq769x2!U8,
         Bq769x2!lroundf, Bq769x2!CellStep

LEMMA Steps2 == Bq769x2!CellStep = 506 /\ Bq769x2!ShuntStep = 2000
  BY DEF Bq769x2!CellStep, Bq769x2!ShuntStep

\* The settings of the bq769x2 are in their ranges.
LEMMA VoltageSettings2 ==
  ASSUME NEW c, ConfTypes(c)
  PROVE  /\ Bq769x2!cov_threshold(c) \in 20 .. 110
         /\ Bq769x2!cuv_threshold(c) \in 20 .. 90
         /\ Bq769x2!cov_hyst(c) \in 2 .. 20
         /\ Bq769x2!cuv_hyst(c) \in 2 .. 20
<1>1. /\ c.cell_ov_limit \in Int /\ c.cell_uv_limit \in Int
      /\ c.cell_ov_reset \in Int /\ c.cell_uv_reset \in Int
    BY ConfNumbers, Zenon
<1>2. Bq769x2!cov_threshold(c) \in 20 .. 110 /\ Bq769x2!cuv_threshold(c) \in 20 .. 90
    BY <1>1, Cell2, Zenon DEF Bq769x2!cov_threshold, Bq769x2!cuv_threshold
<1>3. Bq769x2!cov_hyst(c) \in 2 .. 20 /\ Bq769x2!cuv_hyst(c) \in 2 .. 20
    BY <1>1, Cell2, Zenon DEF Bq769x2!cov_hyst, Bq769x2!cuv_hyst
<1> QED
    BY <1>2, <1>3, Zenon

\* The entry that the bq769x2 chooses for a short-circuit limit.
ScEntry2(n) == Bq769x2!ChosenEntry(Bq769x2!scd_thresholds, Bq769x2!U16(n \div 1000))

LEMMA ScEntryChosen2 ==
  \A n \in Int : /\ Bq769x2!U16(n \div 1000) \in Int
                 /\ ScEntry2(n) = ChosenEntry(Bq769x2!scd_thresholds,
                                              Bq769x2!U16(n \div 1000))
<1>1. \A n \in Int : Bq769x2!U16(n \div 1000) \in Int
    BY DEF Bq769x2!U16
<1>2. \A n \in Int : ScEntry2(n) = ChosenEntry(Bq769x2!scd_thresholds,
                                               Bq769x2!U16(n \div 1000))
    BY SameSearch DEF ScEntry2
<1> QED
    BY <1>1, <1>2

LEMMA Sc2 == \A n \in Int : ScEntry2(n) \in 1 .. 16
<1> SUFFICES ASSUME NEW n \in Int PROVE ScEntry2(n) \in 1 .. 16
    OBVIOUS
<1> DEFINE v == Bq769x2!U16(n \div 1000)
<1>1. v \in Int /\ ScEntry2(n) = ChosenEntry(Bq769x2!scd_thresholds, v)
    BY ScEntryChosen2
<1>2. Rising(Bq769x2!scd_thresholds, 16)
    BY RisingTables, Zenon
<1> HIDE DEF v
<1>3. ChosenEntry(Bq769x2!scd_thresholds, v) \in 1 .. 16
    BY <1>1, <1>2, EntryChosen, Zenon
<1> QED
    BY <1>1, <1>3, Zenon

\* A part with these writes and values stored back, that is not refused.
IsPart(p, w, b, e) ==
  /\ p.writes = w /\ p.back = b /\ p.enables = e /\ p.unreported = {}
  /\ p.refused = FALSE /\ p.backOnError \in BOOLEAN

LEMMA IsPart2 ==
  ASSUME NEW w, NEW b
  PROVE  /\ IsPart(Bq769x2!Part(w, b), w, b, {})
         /\ IsPart(Bq769x2!OnSuccess(Bq769x2!Part(w, b)), w, b, {})
<1>1. IsPart(Bq769x2!Part(w, b), w, b, {})
    BY DEF IsPart, Bq769x2!Part
<1>2. IsPart(Bq769x2!OnSuccess(Bq769x2!Part(w, b)), w, b, {})
    BY DEF IsPart, Bq769x2!Part, Bq769x2!OnSuccess
<1> QED
    BY <1>1, <1>2

LEMMA IsPartWith2 ==
  ASSUME NEW w, NEW b, NEW s
  PROVE  /\ IsPart(Bq769x2!Enabling(s, Bq769x2!Part(w, b)), w, b, s)
         /\ IsPart(Bq769x2!OnSuccess(Bq769x2!FailingWith(s, Bq769x2!Part(w, b))), w, b, {})
<1>1. IsPart(Bq769x2!Enabling(s, Bq769x2!Part(w, b)), w, b, s)
    BY DEF IsPart, Bq769x2!Part, Bq769x2!Enabling
<1>2. IsPart(Bq769x2!OnSuccess(Bq769x2!FailingWith(s, Bq769x2!Part(w, b))), w, b, {})
    BY DEF IsPart, Bq769x2!Part, Bq769x2!OnSuccess, Bq769x2!FailingWith
<1> QED
    BY <1>1, <1>2

LEMMA EnabledByAre ==
  /\ EnabledBy[1] = {} /\ EnabledBy[2] = {"CUV"}
  /\ EnabledBy[3] = {"OTC", "OTD", "UTC", "UTD"}
  /\ EnabledBy[4] = {"OCC"} /\ EnabledBy[5] = {"OCD1"} /\ EnabledBy[6] = {}
  /\ EnabledBy[7] = {} /\ EnabledBy[8] = {} /\ EnabledBy[9] = {}
  BY DEF EnabledBy

LEMMA TypedPart ==
  ASSUME NEW p, NEW i, NEW w, NEW b, NEW e, IsPart(p, w, b, e), e = EnabledBy[i],
         DOMAIN w \subseteq PartRegs[i], BackTypes(b, i)
  PROVE  PartTypes(p, i)
  BY DEF IsPart, PartTypes

LEMMA OutcomeTypes2 ==
  ASSUME chip = "bq769x2", NEW c, ConfTypes(c), NEW i \in 1 .. 9,
         NEW p \in Outcomes(i, c)
  PROVE  PartTypes(p, i)
<1>1. CASE i = 1
  <2> DEFINE t == Bq769x2!cov_threshold(c)
             h == Bq769x2!cov_hyst(c)
             d == Bq769x2!VoltageDelay(c.cell_ov_delay_ms)
             w == [COV_THRESHOLD |-> t, COV_RECOV_HYST |-> h, COV_DELAY |-> d]
             b == [cell_ov_limit |-> t * Bq769x2!CellStep,
                   cell_ov_reset |-> (t - h) * Bq769x2!CellStep,
                   cell_ov_delay_ms |-> (33 * d) \div 10]
  <2>1. p = Bq769x2!Part(w, b)
      BY <1>1, PartsOf2 DEF Bq769x2!CellOvp
  <2>2. t \in Int /\ h \in Int /\ d \in Int
    <3>1. t \in 20 .. 110 /\ h \in 2 .. 20
        BY VoltageSettings2, Zenon
    <3>2. d \in Delays2
      <4>1. c.cell_ov_delay_ms \in Int
          BY ConfNumbers
      <4> QED
          BY <4>1, Delay2, Zenon
    <3> HIDE DEF t, h, d
    <3> QED
        BY <3>1, <3>2 DEF Delays2
  <2> HIDE DEF t, h, d
  <2>3. BackTypes(b, 1)
    <3>1. /\ t * Bq769x2!CellStep \in Int /\ (t - h) * Bq769x2!CellStep \in Int
          /\ (33 * d) \div 10 \in Int
        BY <2>2, Steps2
    <3> QED
        BY <3>1, NumberItems DEF BackTypes, PartItems
  <2>4. DOMAIN w \subseteq PartRegs[1]
      BY DEF PartRegs
  <2> HIDE DEF w, b
  <2>5. IsPart(p, w, b, {}) /\ {} = EnabledBy[i]
      BY <1>1, <2>1, IsPart2, EnabledByAre
  <2> QED
      BY <1>1, <2>3, <2>4, <2>5, TypedPart, Zenon
<1>2. CASE i = 2
  <2> DEFINE t == Bq769x2!cuv_threshold(c)
             h == Bq769x2!cuv_hyst(c)
             d == Bq769x2!VoltageDelay(c.cell_uv_delay_ms)
             w == [CUV_THRESHOLD |-> t, CUV_RECOV_HYST |-> h, CUV_DELAY |-> d]
             b == [cell_uv_limit |-> t * Bq769x2!CellStep,
                   cell_uv_reset |-> (t + h) * Bq769x2!CellStep,
                   cell_uv_delay_ms |-> (33 * d) \div 10]
  <2>1. p = Bq769x2!Enabling({"CUV"}, Bq769x2!Part(w, b))
      BY <1>2, PartsOf2 DEF Bq769x2!CellUvp
  <2>2. t \in Int /\ h \in Int /\ d \in Int
    <3>1. t \in 20 .. 90 /\ h \in 2 .. 20
        BY VoltageSettings2, Zenon
    <3>2. d \in Delays2
      <4>1. c.cell_uv_delay_ms \in Int
          BY ConfNumbers
      <4> QED
          BY <4>1, Delay2, Zenon
    <3> HIDE DEF t, h, d
    <3> QED
        BY <3>1, <3>2 DEF Delays2
  <2> HIDE DEF t, h, d
  <2>3. BackTypes(b, 2)
    <3>1. /\ t * Bq769x2!CellStep \in Int /\ (t + h) * Bq769x2!CellStep \in Int
          /\ (33 * d) \div 10 \in Int
        BY <2>2, Steps2
    <3> QED
        BY <3>1, NumberItems DEF BackTypes, PartItems
  <2>4. DOMAIN w \subseteq PartRegs[2]
      BY DEF PartRegs
  <2> HIDE DEF w, b
  <2>5. IsPart(p, w, b, {"CUV"}) /\ {"CUV"} = EnabledBy[i]
      BY <1>2, <2>1, IsPartWith2, EnabledByAre
  <2> QED
      BY <1>2, <2>3, <2>4, <2>5, TypedPart, Zenon
<1>3. CASE i = 3
  <2>1. PICK w, b : /\ p = Bq769x2!Enabling({"OTC", "OTD", "UTC", "UTD"}, Bq769x2!Part(w, b))
                         \/ p = Bq769x2!Refused(Bq769x2!Nothing)
                    /\ DOMAIN w \subseteq PartRegs[3]
                    /\ BackTypes(b, 3)
    <3> DEFINE hyst == Bq769x2!CLAMP(c.temp_limit_hyst, 1, 20)
               otc == Bq769x2!TempThreshold(c.chg_ot_limit)
               otd == Bq769x2!TempThreshold(c.dis_ot_limit)
               utc == Bq769x2!TempThreshold(c.chg_ut_limit)
               utd == Bq769x2!TempThreshold(c.dis_ut_limit)
               recovery == [OTC |-> otc - hyst, OTD |-> otd - hyst,
                            UTC |-> utc + hyst, UTD |-> utd + hyst]
               w == [OTC_THRESHOLD |-> otc, OTD_THRESHOLD |-> otd,
                     UTC_THRESHOLD |-> utc, UTD_THRESHOLD |-> utd,
                     OTC_RECOVERY |-> Bq769x2!TempThreshold(recovery.OTC),
                     OTD_RECOVERY |-> Bq769x2!TempThreshold(recovery.OTD),
                     UTC_RECOVERY |-> Bq769x2!TempThreshold(recovery.UTC),
                     UTD_RECOVERY |-> Bq769x2!TempThreshold(recovery.UTD)]
               b == [chg_ot_limit |-> otc, dis_ot_limit |-> otd,
                     chg_ut_limit |-> utc, dis_ut_limit |-> utd,
                     temp_limit_hyst |-> hyst]
    <3>1. \/ p = Bq769x2!Enabling({"OTC", "OTD", "UTC", "UTD"}, Bq769x2!Part(w, b))
          \/ p = Bq769x2!Refused(Bq769x2!Nothing)
        BY <1>3, PartsOf2 DEF Bq769x2!TempLimits
    <3>2. /\ hyst \in Int /\ otc \in Int /\ otd \in Int /\ utc \in Int /\ utd \in Int
      <4>1. /\ hyst \in 1 .. 20 /\ otc \in -40 .. 120 /\ otd \in -40 .. 120
            /\ utc \in -40 .. 120 /\ utd \in -40 .. 120
          BY Temp2, Hyst2, ConfNumbers, Zenon
      <4> HIDE DEF hyst, otc, otd, utc, utd
      <4> QED
          BY <4>1
    <3>3. DOMAIN w \subseteq PartRegs[3]
      <4> HIDE DEF otc, otd, utc, utd, recovery
      <4> QED
          BY DEF PartRegs
    <3> HIDE DEF w, hyst, otc, otd, utc, utd, recovery
    <3>4. BackTypes(b, 3)
        BY <3>2, NumberItems DEF BackTypes, PartItems
    <3> HIDE DEF b
    <3> QED
        BY <3>1, <3>3, <3>4
  <2>2. BackTypes(<<>>, 3)
      BY DEF BackTypes
  <2>3. CASE p = Bq769x2!Enabling({"OTC", "OTD", "UTC", "UTD"}, Bq769x2!Part(w, b))
    <3> DEFINE e == {"OTC", "OTD", "UTC", "UTD"}
    <3>1. IsPart(p, w, b, e)
        BY <2>3, IsPartWith2
    <3>2. e = EnabledBy[i]
        BY <1>3, EnabledByAre
    <3> HIDE DEF e
    <3>3. DOMAIN w \subseteq PartRegs[i] /\ BackTypes(b, i)
        BY <1>3, <2>1
    <3> QED
        BY <3>1, <3>2, <3>3, TypedPart, Zenon
  <2>4. CASE p = Bq769x2!Refused(Bq769x2!Nothing)
    <3>1. /\ p.writes = <<>> /\ p.back = <<>> /\ p.refused = TRUE
          /\ p.backOnError = TRUE /\ p.enables = {}
        BY <2>4, Variants2
    <3>2. DOMAIN p.writes = {}
        BY <3>1
    <3> QED
        BY <1>3, <2>2, <3>1, <3>2 DEF PartTypes
  <2> QED
      BY <2>1, <2>3, <2>4
<1>4. CASE i = 4
  <2> DEFINE t == Bq769x2!oc_threshold(c.chg_oc_limit, 62)
             d == Bq769x2!oc_delay(c.chg_oc_delay_ms)
             w == [OCC_THRESHOLD |-> t, OCC_DELAY |-> d]
             b == [chg_oc_limit |-> t * Bq769x2!ShuntStep,
                   chg_oc_delay_ms |-> Bq769x2!OcDelayMs(d)]
  <2>1. p = Bq769x2!Enabling({"OCC"}, Bq769x2!Part(w, b))
      BY <1>4, PartsOf2 DEF Bq769x2!ChgOcp
  <2>2. t \in Nat /\ d \in 1 .. 127
    <3>1. t \in 2 .. 62 /\ d \in 1 .. 127
        BY Oc2, OcDelay2, ConfNumbers, Zenon
    <3> HIDE DEF t, d
    <3> QED
        BY <3>1
  <2> HIDE DEF t, d
  <2>3. BackTypes(b, 4)
    <3>1. t * Bq769x2!ShuntStep \in Nat /\ Bq769x2!OcDelayMs(d) \in Int
        BY <2>2, Steps2, OcDelayType
    <3> QED
        BY <3>1, NumberItems, LimitItems DEF BackTypes, PartItems
  <2>4. DOMAIN w \subseteq PartRegs[4]
      BY DEF PartRegs
  <2> HIDE DEF w, b
  <2>5. IsPart(p, w, b, {"OCC"}) /\ {"OCC"} = EnabledBy[i]
      BY <1>4, <2>1, IsPartWith2, EnabledByAre
  <2> QED
      BY <1>4, <2>3, <2>4, <2>5, TypedPart, Zenon
<1>5. CASE i = 5
  <2> DEFINE t == Bq769x2!oc_threshold(c.dis_oc_limit, 100)
             d == Bq769x2!oc_delay(c.dis_oc_delay_ms)
             w == [OCD1_THRESHOLD |-> t, OCD1_DELAY |-> d]
             b == [dis_oc_limit |-> t * Bq769x2!ShuntStep,
                   dis_oc_delay_ms |-> Bq769x2!OcDelayMs(d)]
  <2>1. p = Bq769x2!Enabling({"OCD1"}, Bq769x2!Part(w, b))
      BY <1>5, PartsOf2 DEF Bq769x2!DisOcp
  <2>2. t \in Nat /\ d \in 1 .. 127
    <3>1. t \in 2 .. 100 /\ d \in 1 .. 127
        BY Oc2, OcDelay2, ConfNumbers, Zenon
    <3> HIDE DEF t, d
    <3> QED
        BY <3>1
  <2> HIDE DEF t, d
  <2>3. BackTypes(b, 5)
    <3>1. t * Bq769x2!ShuntStep \in Nat /\ Bq769x2!OcDelayMs(d) \in Int
        BY <2>2, Steps2, OcDelayType
    <3> QED
        BY <3>1, NumberItems, LimitItems DEF BackTypes, PartItems
  <2>4. DOMAIN w \subseteq PartRegs[5]
      BY DEF PartRegs
  <2> HIDE DEF w, b
  <2>5. IsPart(p, w, b, {"OCD1"}) /\ {"OCD1"} = EnabledBy[i]
      BY <1>5, <2>1, IsPartWith2, EnabledByAre
  <2> QED
      BY <1>5, <2>3, <2>4, <2>5, TypedPart, Zenon
<1>6. CASE i = 6
  <2> DEFINE t == ScEntry2(c.dis_sc_limit)
             d == Bq769x2!CLAMP(Bq769x2!U16(c.dis_sc_delay_us \div 15 + 1), 1, 31)
             w == [SCD_THRESHOLD |-> t - 1, SCD_DELAY |-> d]
             b == [dis_sc_limit |-> Bq769x2!scd_thresholds[t] * 1000,
                   dis_sc_delay_us |-> (d - 1) * 15]
  <2>1. p = Bq769x2!Part(w, b)
      BY <1>6, PartsOf2 DEF Bq769x2!DisScp, ScEntry2
  <2>2. t \in 1 .. 16 /\ d \in 1 .. 31
    <3>1. t \in 1 .. 16
      <4>1. c.dis_sc_limit \in Int
          BY ConfNumbers
      <4> QED
          BY <4>1, Sc2, Zenon
    <3>2. d \in 1 .. 31
        BY ScDelay2, ConfNumbers, Zenon
    <3> QED
        BY <3>1, <3>2, Zenon
  <2> HIDE DEF t, d
  <2>3. BackTypes(b, 6)
    <3>1. Bq769x2!scd_thresholds[t] \in Nat
        BY <2>2 DEF Bq769x2!scd_thresholds
    <3>2. Bq769x2!scd_thresholds[t] * 1000 \in Nat /\ (d - 1) * 15 \in Int
        BY <2>2, <3>1
    <3> QED
        BY <3>2, NumberItems, LimitItems DEF BackTypes, PartItems
  <2>4. DOMAIN w \subseteq PartRegs[6]
      BY DEF PartRegs
  <2> HIDE DEF w, b
  <2>5. IsPart(p, w, b, {}) /\ {} = EnabledBy[i]
      BY <1>6, <2>1, IsPart2, EnabledByAre
  <2> QED
      BY <1>6, <2>3, <2>4, <2>5, TypedPart, Zenon
<1>7. CASE i = 7
  <2> DEFINE min == c.bal_cell_voltage_min \div 10
             delta == c.bal_cell_voltage_diff \div 10
             w == [CBAL_MIN_CELL_V |-> min, CBAL_MIN_DELTA |-> delta,
                   CBAL_MIN_CELL_TEMP |-> Bq769x2!TempThreshold(c.dis_ut_limit),
                   CBAL_MAX_CELL_TEMP |-> Bq769x2!TempThreshold(c.dis_ot_limit),
                   CURR_TH |-> c.bal_idle_current,
                   CBAL_CONF |-> IF c.auto_balancing THEN 3 ELSE 0]
             b == [bal_cell_voltage_min |-> 10 * min,
                   bal_cell_voltage_diff |-> 10 * delta]
  <2>1. p = Bq769x2!OnSuccess(Bq769x2!Part(w, b))
      BY <1>7, PartsOf2 DEF Bq769x2!Balancing
  <2>2. min \in Int /\ delta \in Int
      BY ConfNumbers
  <2> HIDE DEF min, delta
  <2>3. BackTypes(b, 7)
    <3>1. 10 * min \in Int /\ 10 * delta \in Int
        BY <2>2
    <3> QED
        BY <3>1, NumberItems DEF BackTypes, PartItems
  <2>4. DOMAIN w \subseteq PartRegs[7]
      BY DEF PartRegs
  <2> HIDE DEF w, b
  <2>5. IsPart(p, w, b, {}) /\ {} = EnabledBy[i]
      BY <1>7, <2>1, IsPart2, EnabledByAre
  <2> QED
      BY <1>7, <2>3, <2>4, <2>5, TypedPart, Zenon
<1>8. CASE i = 8
  <2> DEFINE w == [ALERT_MASK_A |-> c.alert_mask \intersect Bq769x2!AlertsA,
                   ALERT_MASK_B |-> c.alert_mask \intersect Bq769x2!AlertsB,
                   ALARM_DEFAULT_MASK |-> {"SF_ALERT"}]
             b == [alert_mask |-> c.alert_mask
                                    \intersect (Bq769x2!AlertsA \union Bq769x2!AlertsB)]
  <2>1. p = Bq769x2!Part(w, b)
      BY <1>8, PartsOf2 DEF Bq769x2!Alerts
  <2>2. c.alert_mask \in {Errors, AlertsShown} /\ Typed("alert_mask") = {Errors, AlertsShown}
      BY DEF ConfTypes, Items, Typed, Limits
  <2>3. b.alert_mask = AlertsShown /\ DOMAIN b = {"alert_mask"}
      BY <2>2 DEF AlertsShown
  <2>4. DOMAIN w \subseteq PartRegs[8]
      BY DEF PartRegs
  <2> HIDE DEF w, b
  <2>5. BackTypes(b, 8)
      BY <2>2, <2>3 DEF BackTypes, PartItems
  <2>6. IsPart(p, w, b, {}) /\ {} = EnabledBy[i]
      BY <1>8, <2>1, IsPart2, EnabledByAre
  <2> QED
      BY <1>8, <2>4, <2>5, <2>6, TypedPart, Zenon
<1>9. CASE i = 9
  <2> DEFINE w == [REG0 |-> c.vregs_enable \intersect {0},
                   REG12 |-> c.vregs_enable \intersect {1, 2}]
             b == [vregs_enable |-> c.vregs_enable \intersect {0, 1, 2}]
  <2>1. PICK s : p = Bq769x2!OnSuccess(Bq769x2!FailingWith(s, Bq769x2!Part(w, b)))
      BY <1>9, PartsOf2 DEF Bq769x2!VoltageRegs
  <2>2. c.vregs_enable = {} /\ Typed("vregs_enable") = {{}}
      BY DEF ConfTypes, Items, Typed, Limits
  <2>3. b.vregs_enable = {} /\ DOMAIN b = {"vregs_enable"}
      BY <2>2
  <2>4. DOMAIN w \subseteq PartRegs[9]
      BY DEF PartRegs
  <2> HIDE DEF w, b
  <2>5. BackTypes(b, 9)
      BY <2>2, <2>3 DEF BackTypes, PartItems
  <2>6. IsPart(p, w, b, {}) /\ {} = EnabledBy[i]
      BY <1>9, <2>1, IsPartWith2, EnabledByAre
  <2> QED
      BY <1>9, <2>4, <2>5, <2>6, TypedPart, Zenon
<1> QED
    BY <1>1, <1>2, <1>3, <1>4, <1>5, <1>6, <1>7, <1>8, <1>9

--------------------------------------------------------------------------
(***************************************************************************)
(* ... of the bq769x0 ...                                                  *)
(***************************************************************************)
\* A gain and an offset that can have been read.
AdcTypes == adc.gain \in Nat /\ adc.offset \in Nat

LEMMA IsPart0 ==
  ASSUME NEW w, NEW b
  PROVE  /\ IsPart(Bq769x0!Cached(Bq769x0!Part(w, b)), w, b, {})
         /\ IsPart(Bq769x0!OnSuccess(Bq769x0!Part(w, b)), w, b, {})
         /\ \A s : IsPart(Bq769x0!FailingWith(s, Bq769x0!OnSuccess(Bq769x0!Part(w, b))),
                          w, b, {})
<1>1. IsPart(Bq769x0!Cached(Bq769x0!Part(w, b)), w, b, {})
    BY DEF IsPart, Bq769x0!Part, Bq769x0!Cached, Bq769x0!FailingWith
<1>2. IsPart(Bq769x0!OnSuccess(Bq769x0!Part(w, b)), w, b, {})
    BY DEF IsPart, Bq769x0!Part, Bq769x0!OnSuccess
<1>3. \A s : IsPart(Bq769x0!FailingWith(s, Bq769x0!OnSuccess(Bq769x0!Part(w, b))),
                    w, b, {})
    BY DEF IsPart, Bq769x0!Part, Bq769x0!OnSuccess, Bq769x0!FailingWith
<1> QED
    BY <1>1, <1>2, <1>3

\* The entries of a table of the bq769x0 are natural numbers.
LEMMA EntryType ==
  ASSUME NEW n, NEW table, Rising(table, n), table[1] \in Nat, NEW v \in Int
  PROVE  /\ ChosenEntry(table, v) \in 1 .. n
         /\ table[ChosenEntry(table, v)] \in Nat
<1>1. ChosenEntry(table, v) \in 1 .. n
    BY EntryChosen
<1>2. \A i \in 1 .. n : table[i] \in Nat
    BY DEF Rising
<1> QED
    BY <1>1, <1>2

LEMMA TripTypes ==
  ASSUME AdcTypes, NEW mV \in Int, NEW t \in Bq769x0!Trips(mV, adc)
  PROVE  t \in 0 .. 255
<1>1. CASE Bq769x0!Undefined(mV, adc)
    BY <1>1, ConfigurationAssumption DEF Bq769x0!Trips
<1>2. CASE ~ Bq769x0!Undefined(mV, adc)
  <2>1. adc.gain \in Nat /\ adc.gain > 0 /\ adc.offset \in Nat
      BY <1>2 DEF Bq769x0!Undefined, AdcTypes
  <2>2. Bq769x0!Quotient(mV, adc) \in Int
    <3> DEFINE n == (mV - adc.offset) * 1000
    <3>1. n \in Int
        BY <2>1
    <3> HIDE DEF n
    <3>2. Bq769x0!Truncated(n, adc.gain) \in Int
        BY <2>1, <3>1 DEF Bq769x0!Truncated
    <3> QED
        BY <3>2 DEF Bq769x0!Quotient, n
  <2>3. t = Bq769x0!U8(Bq769x0!Quotient(mV, adc) \div 16)
      BY <1>2 DEF Bq769x0!Trips
  <2> QED
      BY <2>2, <2>3 DEF Bq769x0!U8
<1> QED
    BY <1>1, <1>2

LEMMA StoredType ==
  ASSUME AdcTypes, NEW t \in Int
  PROVE  /\ Bq769x0!Stored(Bq769x0!OvLevel(t), adc) \in Int
         /\ Bq769x0!Stored(Bq769x0!UvLevel(t), adc) \in Int
<1>1. Bq769x0!OvLevel(t) \in Int /\ Bq769x0!UvLevel(t) \in Int
    BY DEF Bq769x0!OvLevel, Bq769x0!UvLevel, Bq769x0!U8
<1>2. ASSUME NEW n \in Int PROVE Bq769x0!Stored(n, adc) \in Int
  <2>1. n * adc.gain \in Int
      BY DEF AdcTypes
  <2>2. (n * adc.gain) \div 1000 + adc.offset \in Int
      BY <2>1 DEF AdcTypes
  <2> QED
      BY <2>2 DEF Bq769x0!Stored
<1> QED
    BY <1>1, <1>2

LEMMA TypedOther ==
  ASSUME chip # "bq769x2", NEW p, NEW i, NEW w, NEW b, IsPart(p, w, b, {}),
         DOMAIN w \subseteq PartRegs[i], BackTypes(b, i)
  PROVE  PartTypes(p, i)
  BY DEF IsPart, PartTypes

LEMMA NothingBack == \A i \in 1 .. 9 : BackTypes(<<>>, i)
  BY DEF BackTypes

LEMMA OutcomeTypes0 ==
  ASSUME chip = "bq769x0", AdcTypes, NEW c, ConfTypes(c), NEW i \in 1 .. 8,
         NEW p \in Outcomes(i, c)
  PROVE  PartTypes(p, i)
<1>0. /\ c.cell_ov_limit \in Int /\ c.cell_uv_limit \in Int
      /\ c.cell_ov_delay_ms \in Int /\ c.cell_uv_delay_ms \in Int
      /\ c.dis_oc_limit \in Int /\ c.dis_oc_delay_ms \in Int
      /\ c.dis_sc_limit \in Int /\ c.dis_sc_delay_us \in Int
    BY ConfNumbers
<1>1. CASE i = 1
  <2>1. PICK t \in Bq769x0!Trips(c.cell_ov_limit \div 10, adc) : p = Bq769x0!CellOvp(c, adc, t)
      BY <1>1, PartsOf0 DEF Bq769x0!CellOvps
  <2>2. t \in Int
      BY <1>0, TripTypes
  <2> DEFINE d == ChosenEntry(Bq769x0!ov_delays, c.cell_ov_delay_ms)
             w == [OV_TRIP |-> t, OV_DELAY |-> d - 1]
             b == [cell_ov_limit |-> Bq769x0!Stored(Bq769x0!OvLevel(t), adc),
                   cell_ov_delay_ms |-> Bq769x0!ov_delays[d]]
  <2>3. IsPart(p, w, b, {})
      BY <2>1, IsPart0, SameSearch DEF Bq769x0!CellOvp
  <2>4. Bq769x0!ov_delays[d] \in Int
    <3>1. Rising(Bq769x0!ov_delays, 4) /\ Bq769x0!ov_delays[1] \in Nat
        BY RisingTables DEF Bq769x0!ov_delays
    <3> QED
        BY <1>0, <3>1, EntryType
  <2>5. DOMAIN w \subseteq PartRegs[1]
      BY DEF PartRegs
  <2> HIDE DEF w, d
  <2>6. BackTypes(b, 1)
      BY <2>2, <2>4, StoredType, NumberItems DEF BackTypes, PartItems
  <2> HIDE DEF b
  <2> QED
      BY <1>1, <2>3, <2>5, <2>6, TypedOther
<1>2. CASE i = 2
  <2>1. PICK t \in Bq769x0!Trips(c.cell_uv_limit \div 10, adc) : p = Bq769x0!CellUvp(c, adc, t)
      BY <1>2, PartsOf0 DEF Bq769x0!CellUvps
  <2>2. t + 1 \in Int
      BY <1>0, TripTypes
  <2> DEFINE d == ChosenEntry(Bq769x0!uv_delays, c.cell_uv_delay_ms)
             w == [UV_TRIP |-> Bq769x0!U8(t + 1), UV_DELAY |-> d - 1]
             b == [cell_uv_limit |-> Bq769x0!Stored(Bq769x0!UvLevel(t + 1), adc),
                   cell_uv_delay_ms |-> Bq769x0!uv_delays[d]]
  <2>3. IsPart(p, w, b, {})
      BY <2>1, IsPart0, SameSearch DEF Bq769x0!CellUvp
  <2>4. Bq769x0!uv_delays[d] \in Int
    <3>1. Rising(Bq769x0!uv_delays, 4) /\ Bq769x0!uv_delays[1] \in Nat
        BY RisingTables DEF Bq769x0!uv_delays
    <3> QED
        BY <1>0, <3>1, EntryType
  <2>5. DOMAIN w \subseteq PartRegs[2]
      BY DEF PartRegs
  <2> HIDE DEF w, d
  <2>6. BackTypes(b, 2)
      BY <2>2, <2>4, StoredType, NumberItems DEF BackTypes, PartItems
  <2> HIDE DEF b
  <2> QED
      BY <1>2, <2>3, <2>5, <2>6, TypedOther
<1>3. CASE i = 3
  <2> DEFINE w == [dis_ot_limit |-> c.dis_ot_limit, dis_ut_limit |-> c.dis_ut_limit,
                   chg_ot_limit |-> c.chg_ot_limit, chg_ut_limit |-> c.chg_ut_limit,
                   temp_limit_hyst |-> c.temp_limit_hyst]
  <2>1. IsPart(p, w, <<>>, {})
      BY <1>3, PartsOf0, IsPart0 DEF Bq769x0!TempLimits
  <2>2. DOMAIN w \subseteq PartRegs[3]
      BY DEF PartRegs
  <2> QED
      BY <1>3, <2>1, <2>2, NothingBack, TypedOther
<1>4. CASE i = 4
  <2> DEFINE w == [chg_oc_limit |-> c.chg_oc_limit, chg_oc_delay_ms |-> c.chg_oc_delay_ms]
  <2>1. IsPart(p, w, <<>>, {})
      BY <1>4, PartsOf0, IsPart0 DEF Bq769x0!ChgOcp
  <2>2. DOMAIN w \subseteq PartRegs[4]
      BY DEF PartRegs
  <2> QED
      BY <1>4, <2>1, <2>2, NothingBack, TypedOther
<1>5. CASE i = 5
  <2> DEFINE t == ChosenEntry(Bq769x0!ocd_thresholds, c.dis_oc_limit \div 1000)
             d == ChosenEntry(Bq769x0!ocd_delays, c.dis_oc_delay_ms)
             w == [PROTECT2 |-> <<t - 1, d - 1>>]
             b == [dis_oc_limit |-> 1000 * Bq769x0!ocd_thresholds[t],
                   dis_oc_delay_ms |-> Bq769x0!ocd_delays[d]]
  <2>1. IsPart(p, w, b, {})
      BY <1>5, PartsOf0, IsPart0, SameSearch DEF Bq769x0!DisOcp
  <2>2. Bq769x0!ocd_thresholds[t] \in Nat /\ Bq769x0!ocd_delays[d] \in Nat
    <3>1. Rising(Bq769x0!ocd_thresholds, 16) /\ Bq769x0!ocd_thresholds[1] \in Nat
        BY RisingTables DEF Bq769x0!ocd_thresholds
    <3>2. Rising(Bq769x0!ocd_delays, 8) /\ Bq769x0!ocd_delays[1] \in Nat
        BY RisingTables DEF Bq769x0!ocd_delays
    <3>3. c.dis_oc_limit \div 1000 \in Int
        BY <1>0
    <3> QED
        BY <1>0, <3>1, <3>2, <3>3, EntryType
  <2>3. DOMAIN w \subseteq PartRegs[5]
      BY DEF PartRegs
  <2> HIDE DEF w, t, d
  <2>4. BackTypes(b, 5)
    <3>1. 1000 * Bq769x0!ocd_thresholds[t] \in Nat
        BY <2>2
    <3> QED
        BY <2>2, <3>1, NumberItems, LimitItems DEF BackTypes, PartItems
  <2> HIDE DEF b
  <2> QED
      BY <1>5, <2>1, <2>3, <2>4, TypedOther
<1>6. CASE i = 6
  <2> DEFINE t == ChosenEntry(Bq769x0!scd_thresholds, c.dis_sc_limit \div 1000)
             d == ChosenEntry(Bq769x0!scd_delays, c.dis_sc_delay_us)
             w == [PROTECT1 |-> <<t - 1, d - 1>>]
             b == [dis_sc_limit |-> 1000 * Bq769x0!scd_thresholds[t],
                   dis_sc_delay_us |-> Bq769x0!scd_delays[d]]
  <2>1. IsPart(p, w, b, {})
      BY <1>6, PartsOf0, IsPart0, SameSearch DEF Bq769x0!DisScp
  <2>2. Bq769x0!scd_thresholds[t] \in Nat /\ Bq769x0!scd_delays[d] \in Nat
    <3>1. Rising(Bq769x0!scd_thresholds, 8) /\ Bq769x0!scd_thresholds[1] \in Nat
        BY RisingTables DEF Bq769x0!scd_thresholds
    <3>2. Rising(Bq769x0!scd_delays, 4) /\ Bq769x0!scd_delays[1] \in Nat
        BY RisingTables DEF Bq769x0!scd_delays
    <3>3. c.dis_sc_limit \div 1000 \in Int
        BY <1>0
    <3> QED
        BY <1>0, <3>1, <3>2, <3>3, EntryType
  <2>3. DOMAIN w \subseteq PartRegs[6]
      BY DEF PartRegs
  <2> HIDE DEF w, t, d
  <2>4. BackTypes(b, 6)
    <3>1. 1000 * Bq769x0!scd_thresholds[t] \in Nat
        BY <2>2
    <3> QED
        BY <2>2, <3>1, NumberItems, LimitItems DEF BackTypes, PartItems
  <2> HIDE DEF b
  <2> QED
      BY <1>6, <2>1, <2>3, <2>4, TypedOther
<1>7. CASE i = 7
  <2> DEFINE w == [bal_cell_voltage_diff |-> c.bal_cell_voltage_diff,
                   bal_cell_voltage_min |-> c.bal_cell_voltage_min,
                   bal_idle_current |-> c.bal_idle_current,
                   bal_idle_delay |-> c.bal_idle_delay,
                   auto_balancing |-> c.auto_balancing]
  <2>1. IsPart(p, w, <<>>, {})
      BY <1>7, PartsOf0, IsPart0 DEF Bq769x0!Balancing
  <2>2. DOMAIN w \subseteq PartRegs[7]
      BY DEF PartRegs
  <2> QED
      BY <1>7, <2>1, <2>2, NothingBack, TypedOther
<1>8. CASE i = 8
  <2> DEFINE w == [alert_mask |-> c.alert_mask]
  <2>1. IsPart(p, w, <<>>, {})
      BY <1>8, PartsOf0, IsPart0 DEF Bq769x0!Alerts
  <2>2. DOMAIN w \subseteq PartRegs[8]
      BY DEF PartRegs
  <2> QED
      BY <1>8, <2>1, <2>2, NothingBack, TypedOther
<1> QED
    BY <1>1, <1>2, <1>3, <1>4, <1>5, <1>6, <1>7, <1>8

--------------------------------------------------------------------------
(***************************************************************************)
(* ... and of the isl94202.                                                *)
(***************************************************************************)
\* A part that may reject some of its writes.
MayReject(p, s, w) ==
  /\ p.writes = [r \in DOMAIN w \intersect s |-> w[r]] /\ p.back = <<>>
  /\ p.unreported = {} /\ p.refused \in BOOLEAN /\ p.backOnError \in BOOLEAN
  /\ p.enables = {}

LEMMA Rejecting ==
  ASSUME NEW w, NEW s
  PROVE  MayReject(Isl94202!Writes(s, Isl94202!Part(w, <<>>)), s, w)
<1> DEFINE q == Isl94202!Part(w, <<>>)
           p == Isl94202!Writes(s, q)
<1>1. /\ q = [writes |-> w, failures |-> {{r} : r \in DOMAIN w}, unreported |-> {},
              back |-> <<>>, backOnError |-> TRUE, enables |-> {}, refused |-> FALSE]
      /\ q.writes = w
    BY DEF Isl94202!Part
<1>2. /\ p.writes = [r \in DOMAIN w \intersect s |-> w[r]]
      /\ p.back = <<>> /\ p.unreported = {} /\ p.enables = {}
      /\ p.backOnError = TRUE /\ p.refused = (~ DOMAIN w \subseteq s)
    BY <1>1 DEF Isl94202!Writes
<1>3. p.refused \in BOOLEAN /\ p.backOnError \in BOOLEAN
    BY <1>2
<1> HIDE DEF p, q
<1>4. MayReject(p, s, w)
    BY <1>2, <1>3 DEF MayReject
<1> QED
    BY <1>4 DEF p, q

LEMMA TypedRejecting ==
  ASSUME chip # "bq769x2", NEW p, NEW i \in 1 .. 9, NEW w, NEW s, MayReject(p, s, w),
         DOMAIN w \subseteq PartRegs[i]
  PROVE  PartTypes(p, i)
<1>1. DOMAIN p.writes \subseteq PartRegs[i]
    BY DEF MayReject
<1>2. BackTypes(p.back, i)
    BY NothingBack DEF MayReject
<1> QED
    BY <1>1, <1>2 DEF MayReject, PartTypes

\* The limits of the cell voltages.
LEMMA CellLimitsReject ==
  ASSUME NEW limit, NEW reset, NEW delay, NEW x, NEW y, NEW z
  PROVE  \E s, w : /\ DOMAIN w = {x, y, z}
                   /\ MayReject(Isl94202!CellLimits(limit, reset, delay, <<x, y, z>>), s, w)
<1> DEFINE names == <<x, y, z>>
           s == {n \in {names[1]} : Isl94202!VoltageFits(limit)}
                  \union {n \in {names[2]} : Isl94202!VoltageFits(reset)}
                  \union {n \in {names[3]} :
                            Isl94202!DelayFits(Isl94202!DELAY_MS, Isl94202!U16(delay))}
           w == [n \in {names[1], names[2], names[3]} |->
                   IF n = names[1] THEN Isl94202!write_voltage(limit, 1)
                   ELSE IF n = names[2] THEN Isl94202!write_voltage(reset, 0)
                   ELSE Isl94202!write_delay(Isl94202!DELAY_MS, Isl94202!U16(delay), 0)]
<1>1. Isl94202!CellLimits(limit, reset, delay, <<x, y, z>>)
        = Isl94202!Writes(s, Isl94202!Part(w, <<>>))
    BY DEF Isl94202!CellLimits
<1>2. DOMAIN w = {x, y, z}
    OBVIOUS
<1> HIDE DEF s, w
<1> QED
    BY <1>1, <1>2, Rejecting

\* The current limits.
IslThresholds(i) == <<Isl94202!occ_thresholds, Isl94202!ocd_thresholds,
                      Isl94202!dsc_thresholds>>[i - 3]
IslChosen(i, limit) ==
  ChosenEntry(IslThresholds(i), Isl94202!U16(limit \div 1000))

LEMMA IslEntry ==
  ASSUME NEW i \in 4 .. 6, NEW limit \in Int
  PROVE  /\ Rising(IslThresholds(i), 8)
         /\ Isl94202!U16(limit \div 1000) \in Int
         /\ IslChosen(i, limit) \in 1 .. 8
         /\ IslThresholds(i)[IslChosen(i, limit)] \in Nat
<1>1. Rising(IslThresholds(i), 8) /\ IslThresholds(i)[1] \in Nat
  <2>1. CASE i = 4
      BY <2>1, RisingTables DEF IslThresholds, Isl94202!occ_thresholds
  <2>2. CASE i = 5
      BY <2>2, RisingTables DEF IslThresholds, Isl94202!ocd_thresholds
  <2>3. CASE i = 6
      BY <2>3, RisingTables DEF IslThresholds, Isl94202!dsc_thresholds
  <2> QED
      BY <2>1, <2>2, <2>3
<1>2. Isl94202!U16(limit \div 1000) \in Int
    BY DEF Isl94202!U16
<1>3. /\ IslChosen(i, limit) \in 1 .. 8
      /\ IslThresholds(i)[IslChosen(i, limit)] \in Nat
  <2> DEFINE v == Isl94202!U16(limit \div 1000)
             table == IslThresholds(i)
  <2>1. v \in Int /\ Rising(table, 8) /\ table[1] \in Nat
      BY <1>1, <1>2
  <2>2. IslChosen(i, limit) = ChosenEntry(table, v)
      BY DEF IslChosen
  <2> HIDE DEF v, table
  <2>3. ChosenEntry(table, v) \in 1 .. 8 /\ table[ChosenEntry(table, v)] \in Nat
      BY <2>1, EntryType
  <2> QED
      BY <2>2, <2>3 DEF table
<1> QED
    BY <1>1, <1>2, <1>3

LEMMA IslLimits ==
  ASSUME NEW limit
  PROVE  /\ Isl94202!AppliedLimit(Isl94202!occ_thresholds, limit)
              = 1000 * IslThresholds(4)[IslChosen(4, limit)]
         /\ Isl94202!AppliedLimit(Isl94202!ocd_thresholds, limit)
              = 1000 * IslThresholds(5)[IslChosen(5, limit)]
         /\ Isl94202!AppliedLimit(Isl94202!dsc_thresholds, limit)
              = 1000 * IslThresholds(6)[IslChosen(6, limit)]
<1>1. /\ IslThresholds(4) = Isl94202!occ_thresholds
      /\ IslThresholds(5) = Isl94202!ocd_thresholds
      /\ IslThresholds(6) = Isl94202!dsc_thresholds
    BY DEF IslThresholds
<1> QED
    BY <1>1, SameSearch
       DEF Isl94202!AppliedLimit, Isl94202!ChosenThreshold, IslChosen

LEMMA IsPartIsl ==
  ASSUME NEW w, NEW b
  PROVE  IsPart(Isl94202!OnSuccess(Isl94202!Part(w, b)), w, b, {})
  BY DEF IsPart, Isl94202!Part, Isl94202!OnSuccess

LEMMA OutcomeTypesIsl ==
  ASSUME chip = "isl94202", NEW c, ConfTypes(c), NEW i \in 1 .. 7,
         NEW p \in Outcomes(i, c)
  PROVE  PartTypes(p, i)
<1>0. c.chg_oc_limit \in Int /\ c.dis_oc_limit \in Int /\ c.dis_sc_limit \in Int
    BY ConfNumbers
<1>1. CASE i = 1
  <2>0. p = Isl94202!CellLimits(c.cell_ov_limit, c.cell_ov_reset, c.cell_ov_delay_ms,
                                <<"OVL_CPW", "OVR", "OVDT">>)
      BY <1>1, PartsOfIsl DEF Isl94202!CellOvp
  <2>1. PICK s, w : DOMAIN w = {"OVL_CPW", "OVR", "OVDT"} /\ MayReject(p, s, w)
      BY <2>0, CellLimitsReject, Zenon
  <2>2. DOMAIN w \subseteq PartRegs[i]
      BY <1>1, <2>1 DEF PartRegs
  <2> QED
      BY <2>1, <2>2, TypedRejecting
<1>2. CASE i = 2
  <2>0. p = Isl94202!CellLimits(c.cell_uv_limit, c.cell_uv_reset, c.cell_uv_delay_ms,
                                <<"UVL_LPW", "UVR", "UVDT">>)
      BY <1>2, PartsOfIsl DEF Isl94202!CellUvp
  <2>1. PICK s, w : DOMAIN w = {"UVL_LPW", "UVR", "UVDT"} /\ MayReject(p, s, w)
      BY <2>0, CellLimitsReject, Zenon
  <2>2. DOMAIN w \subseteq PartRegs[i]
      BY <1>2, <2>1 DEF PartRegs
  <2> QED
      BY <2>1, <2>2, TypedRejecting
<1>3. CASE i = 3
  <2> DEFINE w == [COTS |-> Isl94202!TempRaw(c.chg_ot_limit),
                   COTR |-> Isl94202!TempRaw(c.chg_ot_limit - c.temp_limit_hyst),
                   CUTS |-> Isl94202!TempRaw(c.chg_ut_limit),
                   CUTR |-> Isl94202!TempRaw(c.chg_ut_limit + c.temp_limit_hyst),
                   DOTS |-> Isl94202!TempRaw(c.dis_ot_limit),
                   DOTR |-> Isl94202!TempRaw(c.dis_ot_limit - c.temp_limit_hyst),
                   DUTS |-> Isl94202!TempRaw(c.dis_ut_limit),
                   DUTR |-> Isl94202!TempRaw(c.dis_ut_limit + c.temp_limit_hyst)]
  <2>0. DOMAIN w = {"COTS", "COTR", "CUTS", "CUTR", "DOTS", "DOTR", "DUTS", "DUTR"}
      OBVIOUS
  <2>1. p = Isl94202!Unreported({"DUTR"}, Isl94202!Part(w, <<>>))
      BY <1>3, PartsOfIsl DEF Isl94202!TempLimits
  <2> HIDE DEF w
  <2>2. DOMAIN w \subseteq PartRegs[3]
      BY <2>0 DEF PartRegs
  <2>3. /\ p.writes = w /\ p.back = <<>> /\ p.refused = FALSE
        /\ p.backOnError = TRUE /\ p.enables = {}
      BY <2>1 DEF Isl94202!Unreported, Isl94202!Part
  <2>4. BackTypes(p.back, 3) /\ DOMAIN p.writes \subseteq PartRegs[3]
      BY <2>2, <2>3, NothingBack
  <2> QED
      BY <1>3, <2>3, <2>4 DEF PartTypes
<1>4. CASE i = 4
  <2> DEFINE b == [chg_oc_limit |-> Isl94202!AppliedLimit(Isl94202!occ_thresholds,
                                                          c.chg_oc_limit)]
             w == [OCCT_OCC |-> Isl94202!CurrentLimit(Isl94202!occ_thresholds,
                      c.chg_oc_limit, Isl94202!DELAY_MS, c.chg_oc_delay_ms)]
  <2>1. IsPart(p, w, b, {})
      BY <1>4, PartsOfIsl, IsPartIsl DEF Isl94202!ChgOcp
  <2>2. b.chg_oc_limit \in Nat
    <3>1. IslThresholds(4)[IslChosen(4, c.chg_oc_limit)] \in Nat
        BY <1>0, IslEntry
    <3> QED
        BY <3>1, IslLimits
  <2>3. DOMAIN w \subseteq PartRegs[4] /\ DOMAIN b = {"chg_oc_limit"}
      BY DEF PartRegs
  <2> HIDE DEF w, b
  <2>4. BackTypes(b, 4)
      BY <2>2, <2>3, LimitItems DEF BackTypes, PartItems
  <2> QED
      BY <1>4, <2>1, <2>3, <2>4, TypedOther
<1>5. CASE i = 5
  <2> DEFINE b == [dis_oc_limit |-> Isl94202!AppliedLimit(Isl94202!ocd_thresholds,
                                                          c.dis_oc_limit)]
             w == [OCDT_OCD |-> Isl94202!CurrentLimit(Isl94202!ocd_thresholds,
                      c.dis_oc_limit, Isl94202!DELAY_MS, c.dis_oc_delay_ms)]
  <2>1. IsPart(p, w, b, {})
      BY <1>5, PartsOfIsl, IsPartIsl DEF Isl94202!DisOcp
  <2>2. b.dis_oc_limit \in Nat
    <3>1. IslThresholds(5)[IslChosen(5, c.dis_oc_limit)] \in Nat
        BY <1>0, IslEntry
    <3> QED
        BY <3>1, IslLimits
  <2>3. DOMAIN w \subseteq PartRegs[5] /\ DOMAIN b = {"dis_oc_limit"}
      BY DEF PartRegs
  <2> HIDE DEF w, b
  <2>4. BackTypes(b, 5)
      BY <2>2, <2>3, LimitItems DEF BackTypes, PartItems
  <2> QED
      BY <1>5, <2>1, <2>3, <2>4, TypedOther
<1>6. CASE i = 6
  <2> DEFINE b == [dis_sc_limit |-> Isl94202!AppliedLimit(Isl94202!dsc_thresholds,
                                                          c.dis_sc_limit)]
             w == [SCDT_SCD |-> Isl94202!CurrentLimit(Isl94202!dsc_thresholds,
                      c.dis_sc_limit, Isl94202!DELAY_US, c.dis_sc_delay_us)]
  <2>1. IsPart(p, w, b, {})
      BY <1>6, PartsOfIsl, IsPartIsl DEF Isl94202!DisScp
  <2>2. b.dis_sc_limit \in Nat
    <3>1. IslThresholds(6)[IslChosen(6, c.dis_sc_limit)] \in Nat
        BY <1>0, IslEntry
    <3> QED
        BY <3>1, IslLimits
  <2>3. DOMAIN w \subseteq PartRegs[6] /\ DOMAIN b = {"dis_sc_limit"}
      BY DEF PartRegs
  <2> HIDE DEF w, b
  <2>4. BackTypes(b, 6)
      BY <2>2, <2>3, LimitItems DEF BackTypes, PartItems
  <2> QED
      BY <1>6, <2>1, <2>3, <2>4, TypedOther
<1>7. CASE i = 7
  <2> DEFINE min == c.bal_cell_voltage_min
             diff == c.bal_cell_voltage_diff
             s == {n \in {"CBMIN", "EOC"} : Isl94202!VoltageFits(min)}
                    \union {n \in {"CBMINDV"} : Isl94202!VoltageFits(diff)}
                    \union {"CBMAX", "CBMAXDV", "SETUP1"}
             w == [CBMIN |-> Isl94202!write_voltage(min, 0),
                   CBMAX |-> Isl94202!write_voltage(45000, 0),
                   CBMINDV |-> Isl94202!write_voltage(diff, 0),
                   CBMAXDV |-> Isl94202!write_voltage(10000, 0),
                   EOC |-> Isl94202!write_voltage(min, 0),
                   SETUP1 |-> IF c.auto_balancing THEN {"CBDC", "CB_EOC"} ELSE {}]
  <2>0. Isl94202!Balancing(c) = Isl94202!Writes(s, Isl94202!Part(w, <<>>))
      BY ONLY TRUE DEF Isl94202!Balancing
  <2>1. p = Isl94202!Writes(s, Isl94202!Part(w, <<>>))
      BY <1>7, <2>0, PartsOfIsl
  <2>2. DOMAIN w \subseteq PartRegs[i]
      BY <1>7 DEF PartRegs
  <2> HIDE DEF s, w
  <2>3. MayReject(p, s, w)
      BY <2>1, Rejecting
  <2> QED
      BY <2>2, <2>3, TypedRejecting
<1> QED
    BY <1>1, <1>2, <1>3, <1>4, <1>5, <1>6, <1>7

LEMMA Chip ==
  ASSUME chip \in Chips
  PROVE  /\ chip \in {"bq769x0", "bq769x2", "isl94202"}
         /\ chip = "bq769x0" => LastPart = 8
         /\ chip = "bq769x2" => LastPart = 9
         /\ chip = "isl94202" => LastPart = 7
         /\ LastPart \in 7 .. 9
  BY ConfigurationAssumption DEF LastPart

LEMMA OutcomeTypes ==
  ASSUME chip \in Chips, AdcTypes, NEW c, ConfTypes(c), NEW i \in 1 .. LastPart,
         NEW p \in Outcomes(i, c)
  PROVE  PartTypes(p, i)
<1>1. CASE chip = "bq769x0"
    BY <1>1, Chip, OutcomeTypes0
<1>2. CASE chip = "bq769x2"
    BY <1>2, Chip, OutcomeTypes2
<1>3. CASE chip = "isl94202"
    BY <1>3, Chip, OutcomeTypesIsl
<1> QED
    BY <1>1, <1>2, <1>3, Chip

--------------------------------------------------------------------------
(***************************************************************************)
(* Settling: a part that reads what it has stored back does the same again.*)
(***************************************************************************)
\* What a part reads once it has stored back what it applied.
Becomes(c, d, p, i) ==
  /\ \A item \in DOMAIN p.back : d[item] = p.back[item]
  /\ \A item \in Reads[i] \ DOMAIN p.back : d[item] = c[item]

\* The part does the same again, or refuses what has become of its input.
Settles(p, d, i) ==
  \/ p \in Outcomes(i, d)
  \/ chip = "bq769x2" /\ Bq769x2!Refused(Bq769x2!Nothing) \in Outcomes(i, d)

LEMMA NothingSettles ==
  ASSUME chip \in Chips, NEW i \in 1 .. LastPart, NEW c, NEW d,
         NEW p \in Outcomes(i, c), p.back = <<>>, Becomes(c, d, p, i)
  PROVE  Settles(p, d, i)
<1>1. DOMAIN p.back = {}
    OBVIOUS
<1>2. SameFor(d, c, i)
    BY <1>1 DEF Becomes, SameFor
<1> QED
    BY <1>2, SameOutcomes DEF Settles

\* The settings of the bq769x2 are the same for what they are stored back as.
LEMMA SettingsExact2 ==
  /\ \A t \in 20 .. 110 : Bq769x2!CLAMP(Bq769x2!U8(Bq769x2!lroundf(
       t * Bq769x2!CellStep, Bq769x2!CellStep)), 20, 110) = t
  /\ \A t \in 20 .. 90 : Bq769x2!CLAMP(Bq769x2!U8(Bq769x2!lroundf(
       t * Bq769x2!CellStep, Bq769x2!CellStep)), 20, 90) = t
  /\ \A t \in 2 .. 20 : Bq769x2!CLAMP(Bq769x2!U8(Bq769x2!lroundf(
       t * Bq769x2!CellStep, Bq769x2!CellStep)), 2, 20) = t
  BY DEF Bq769x2!CLAMP, Bq769x2!AtLeast, Bq769x2!AtMost, Bq769x2!U8,
         Bq769x2!lroundf, Bq769x2!CellStep

LEMMA CellHystExact2 ==
  ASSUME NEW t \in Int, NEW h \in 2 .. 20
  PROVE  /\ Bq769x2!AtLeast(t * Bq769x2!CellStep - (t - h) * Bq769x2!CellStep, 0)
              = h * Bq769x2!CellStep
         /\ Bq769x2!AtLeast((t + h) * Bq769x2!CellStep - t * Bq769x2!CellStep, 0)
              = h * Bq769x2!CellStep
  BY DEF Bq769x2!AtLeast, Bq769x2!CellStep

LEMMA OvSettles2 ==
  ASSUME chip = "bq769x2", NEW c, ConfTypes(c), NEW d,
         NEW p \in Outcomes(1, c), Becomes(c, d, p, 1)
  PROVE  Settles(p, d, 1)
<1> DEFINE t == Bq769x2!cov_threshold(c)
           h == Bq769x2!cov_hyst(c)
           e == Bq769x2!VoltageDelay(c.cell_ov_delay_ms)
           w == [COV_THRESHOLD |-> t, COV_RECOV_HYST |-> h, COV_DELAY |-> e]
           b == [cell_ov_limit |-> t * Bq769x2!CellStep,
                 cell_ov_reset |-> (t - h) * Bq769x2!CellStep,
                 cell_ov_delay_ms |-> (33 * e) \div 10]
<1>1. p = Bq769x2!CellOvp(c) /\ Bq769x2!CellOvp(c) = Bq769x2!Part(w, b)
    BY PartsOf2 DEF Bq769x2!CellOvp
<1> HIDE DEF w
<1>2. p.back = b
  <2> HIDE DEF b
  <2> QED
    <3>1. IsPart(p, w, b, {})
        BY <1>1, IsPart2, Zenon
    <3> QED
        BY <3>1 DEF IsPart
<1>3. t \in 20 .. 110 /\ h \in 2 .. 20 /\ e \in Delays2
  <2>1. c.cell_ov_delay_ms \in Int
      BY ConfNumbers
  <2> QED
      BY <2>1, VoltageSettings2, Delay2, Zenon
<1> HIDE DEF t, h, e
<1>4. /\ d.cell_ov_limit = t * Bq769x2!CellStep
      /\ d.cell_ov_reset = (t - h) * Bq769x2!CellStep
      /\ d.cell_ov_delay_ms = (33 * e) \div 10
    BY <1>2 DEF Becomes
<1>5. Bq769x2!cov_threshold(d) = t
    BY <1>3, <1>4, SettingsExact2 DEF Bq769x2!cov_threshold
<1>6. Bq769x2!cov_hyst(d) = h
  <2>1. Bq769x2!AtLeast(d.cell_ov_limit - d.cell_ov_reset, 0) = h * Bq769x2!CellStep
      BY <1>3, <1>4, CellHystExact2
  <2> QED
      BY <1>3, <2>1, SettingsExact2 DEF Bq769x2!cov_hyst
<1>7. Bq769x2!VoltageDelay(d.cell_ov_delay_ms) = e
    BY <1>3, <1>4, VoltageDelayExact, Zenon
<1>8. Bq769x2!CellOvp(d) = Bq769x2!Part(w, b)
    BY <1>5, <1>6, <1>7 DEF Bq769x2!CellOvp, w
<1> QED
    BY <1>1, <1>8, PartsOf2 DEF Settles

LEMMA UvSettles2 ==
  ASSUME chip = "bq769x2", NEW c, ConfTypes(c), NEW d,
         NEW p \in Outcomes(2, c), Becomes(c, d, p, 2)
  PROVE  Settles(p, d, 2)
<1> DEFINE t == Bq769x2!cuv_threshold(c)
           h == Bq769x2!cuv_hyst(c)
           e == Bq769x2!VoltageDelay(c.cell_uv_delay_ms)
           w == [CUV_THRESHOLD |-> t, CUV_RECOV_HYST |-> h, CUV_DELAY |-> e]
           b == [cell_uv_limit |-> t * Bq769x2!CellStep,
                 cell_uv_reset |-> (t + h) * Bq769x2!CellStep,
                 cell_uv_delay_ms |-> (33 * e) \div 10]
<1>1. /\ p = Bq769x2!CellUvp(c)
      /\ Bq769x2!CellUvp(c) = Bq769x2!Enabling({"CUV"}, Bq769x2!Part(w, b))
    BY PartsOf2 DEF Bq769x2!CellUvp
<1> HIDE DEF w
<1>2. p.back = b
  <2> HIDE DEF b
  <2> QED
    <3>1. IsPart(p, w, b, {"CUV"})
        BY <1>1, IsPartWith2, Zenon
    <3> QED
        BY <3>1 DEF IsPart
<1>3. t \in 20 .. 90 /\ h \in 2 .. 20 /\ e \in Delays2
  <2>1. c.cell_uv_delay_ms \in Int
      BY ConfNumbers
  <2> QED
      BY <2>1, VoltageSettings2, Delay2, Zenon
<1> HIDE DEF t, h, e
<1>4. /\ d.cell_uv_limit = t * Bq769x2!CellStep
      /\ d.cell_uv_reset = (t + h) * Bq769x2!CellStep
      /\ d.cell_uv_delay_ms = (33 * e) \div 10
    BY <1>2 DEF Becomes
<1>5. Bq769x2!cuv_threshold(d) = t
    BY <1>3, <1>4, SettingsExact2 DEF Bq769x2!cuv_threshold
<1>6. Bq769x2!cuv_hyst(d) = h
  <2>1. Bq769x2!AtLeast(d.cell_uv_reset - d.cell_uv_limit, 0) = h * Bq769x2!CellStep
      BY <1>3, <1>4, CellHystExact2
  <2> QED
      BY <1>3, <2>1, SettingsExact2 DEF Bq769x2!cuv_hyst
<1>7. Bq769x2!VoltageDelay(d.cell_uv_delay_ms) = e
    BY <1>3, <1>4, VoltageDelayExact, Zenon
<1>8. Bq769x2!CellUvp(d) = Bq769x2!Enabling({"CUV"}, Bq769x2!Part(w, b))
    BY <1>5, <1>6, <1>7 DEF Bq769x2!CellUvp, w
<1> QED
    BY <1>1, <1>8, PartsOf2 DEF Settles

LEMMA TempExact2 ==
  /\ \A n \in -40 .. 120 : Bq769x2!TempThreshold(n) = n
  /\ \A n \in 1 .. 20 : Bq769x2!CLAMP(n, 1, 20) = n
  BY DEF Bq769x2!TempThreshold, Bq769x2!CLAMP, Bq769x2!AtLeast, Bq769x2!AtMost

LEMMA TempsSettle2 ==
  ASSUME chip = "bq769x2", NEW c, ConfTypes(c), NEW d,
         NEW p \in Outcomes(3, c), ~ p.refused, Becomes(c, d, p, 3)
  PROVE  Settles(p, d, 3)
<1> DEFINE hyst == Bq769x2!CLAMP(c.temp_limit_hyst, 1, 20)
           otc == Bq769x2!TempThreshold(c.chg_ot_limit)
           otd == Bq769x2!TempThreshold(c.dis_ot_limit)
           utc == Bq769x2!TempThreshold(c.chg_ut_limit)
           utd == Bq769x2!TempThreshold(c.dis_ut_limit)
           recovery == [OTC |-> otc - hyst, OTD |-> otd - hyst,
                        UTC |-> utc + hyst, UTD |-> utd + hyst]
           w == [OTC_THRESHOLD |-> otc, OTD_THRESHOLD |-> otd,
                 UTC_THRESHOLD |-> utc, UTD_THRESHOLD |-> utd,
                 OTC_RECOVERY |-> Bq769x2!TempThreshold(recovery.OTC),
                 OTD_RECOVERY |-> Bq769x2!TempThreshold(recovery.OTD),
                 UTC_RECOVERY |-> Bq769x2!TempThreshold(recovery.UTC),
                 UTD_RECOVERY |-> Bq769x2!TempThreshold(recovery.UTD)]
           b == [chg_ot_limit |-> otc, dis_ot_limit |-> otd,
                 chg_ut_limit |-> utc, dis_ut_limit |-> utd,
                 temp_limit_hyst |-> hyst]
           all == Bq769x2!Enabling({"OTC", "OTD", "UTC", "UTD"}, Bq769x2!Part(w, b))
           none == Bq769x2!Refused(Bq769x2!Nothing)
<1>1. p = Bq769x2!TempLimits(c) /\ Bq769x2!TempLimits(c) \in {all, none}
    BY PartsOf2 DEF Bq769x2!TempLimits
<1>2. p = all
  <2>1. none.refused = TRUE
      BY Variants2
  <2> HIDE DEF none, all
  <2> QED
      BY <1>1, <2>1
<1>3. p.back = b
  <2> HIDE DEF b, w
  <2> QED
    <3>1. IsPart(p, w, b, {"OTC", "OTD", "UTC", "UTD"})
        BY <1>2, IsPartWith2, Zenon
    <3> QED
        BY <3>1 DEF IsPart
<1>4. /\ hyst \in 1 .. 20 /\ otc \in -40 .. 120 /\ otd \in -40 .. 120
      /\ utc \in -40 .. 120 /\ utd \in -40 .. 120
    BY Temp2, Hyst2, ConfNumbers, Zenon
<1> HIDE DEF hyst, otc, otd, utc, utd, w, recovery
<1>5. /\ d.chg_ot_limit = otc /\ d.dis_ot_limit = otd /\ d.chg_ut_limit = utc
      /\ d.dis_ut_limit = utd /\ d.temp_limit_hyst = hyst
    BY <1>3 DEF Becomes
<1>6. /\ Bq769x2!CLAMP(d.temp_limit_hyst, 1, 20) = hyst
      /\ Bq769x2!TempThreshold(d.chg_ot_limit) = otc
      /\ Bq769x2!TempThreshold(d.dis_ot_limit) = otd
      /\ Bq769x2!TempThreshold(d.chg_ut_limit) = utc
      /\ Bq769x2!TempThreshold(d.dis_ut_limit) = utd
    BY <1>4, <1>5, TempExact2, Zenon
<1>7. Bq769x2!TempLimits(d) \in {all, none}
  <2> HIDE DEF b
  <2> QED
    BY <1>6 DEF Bq769x2!TempLimits, b, w, recovery
<1> QED
    BY <1>2, <1>7, PartsOf2 DEF Settles

\* Current limits.
LEMMA OcDelayExact2 ==
  \A e \in 1 .. 127 : Bq769x2!oc_delay(Bq769x2!OcDelayMs(e)) = e
  BY OcDelayExact

LEMMA OcExact2 ==
  ASSUME NEW n \in Nat, NEW most \in {62, 100}
  PROVE  Bq769x2!oc_threshold(Bq769x2!oc_threshold(n, most) * Bq769x2!ShuntStep, most)
           = Bq769x2!oc_threshold(n, most)
<1> DEFINE m == Bq769x2!AtMost(n, BoardMaxCurrent)
           r == Bq769x2!lroundf(m, Bq769x2!ShuntStep)
           t == Bq769x2!oc_threshold(n, most)
           x == Bq769x2!AtMost(t * Bq769x2!ShuntStep, BoardMaxCurrent)
           s == Bq769x2!lroundf(x, Bq769x2!ShuntStep)
<1>1. BoardMaxCurrent \in Nat
    BY ConfigurationAssumption
<1>2. m \in Nat /\ m <= BoardMaxCurrent
    BY <1>1 DEF Bq769x2!AtMost
<1>3. r = (2 * m + 2000) \div 4000 /\ r \in Nat
  <2> HIDE DEF m
  <2> QED
      BY <1>2 DEF Bq769x2!lroundf, Bq769x2!ShuntStep
<1>4. t = Bq769x2!CLAMP(Bq769x2!U8(r), 2, most)
    BY DEF Bq769x2!oc_threshold
<1>5. Bq769x2!oc_threshold(t * Bq769x2!ShuntStep, most)
        = Bq769x2!CLAMP(Bq769x2!U8(s), 2, most)
    BY DEF Bq769x2!oc_threshold
<1> HIDE DEF r, m, s
<1>6. t \in 2 .. most
  <2>1. Bq769x2!U8(r) \in Int
      BY <1>3 DEF Bq769x2!U8
  <2> HIDE DEF t
  <2> QED
      BY <1>4, <2>1 DEF Bq769x2!CLAMP, Bq769x2!AtLeast, Bq769x2!AtMost
<1>7. t >= Bq769x2!U8(r) \/ t = most
  <2>1. Bq769x2!U8(r) \in Int
      BY <1>3 DEF Bq769x2!U8
  <2> HIDE DEF t
  <2> QED
      BY <1>4, <2>1 DEF Bq769x2!CLAMP, Bq769x2!AtLeast, Bq769x2!AtMost
<1> HIDE DEF t, x
<1>8. CASE t * 2000 <= BoardMaxCurrent
  <2>1. x = t * 2000
      BY <1>1, <1>6, <1>8 DEF x, Bq769x2!AtMost, Bq769x2!ShuntStep
  <2>2. s = t
      BY <1>6, <2>1 DEF s, Bq769x2!lroundf, Bq769x2!ShuntStep
  <2> QED
      BY <1>5, <1>6, <2>2 DEF Bq769x2!U8, Bq769x2!CLAMP, Bq769x2!AtLeast, Bq769x2!AtMost, t
<1>9. CASE t * 2000 > BoardMaxCurrent
  <2>1. x = BoardMaxCurrent
      BY <1>1, <1>6, <1>9 DEF x, Bq769x2!AtMost, Bq769x2!ShuntStep
  <2>2. s = (2 * BoardMaxCurrent + 2000) \div 4000 /\ s \in Nat /\ s <= t
    <3>1. s = (2 * BoardMaxCurrent + 2000) \div 4000
        BY <1>1, <2>1 DEF s, Bq769x2!lroundf, Bq769x2!ShuntStep
    <3> QED
        BY <1>1, <1>6, <1>9, <3>1
  <2>3. r <= s
      BY <1>1, <1>2, <1>3, <2>2
  <2>4. Bq769x2!U8(r) = r /\ Bq769x2!U8(s) = s
      BY <1>3, <1>6, <2>2, <2>3 DEF Bq769x2!U8
  <2>5. Bq769x2!CLAMP(s, 2, most) = t
      BY <1>3, <1>4, <1>6, <2>2, <2>3, <2>4
         DEF Bq769x2!CLAMP, Bq769x2!AtLeast, Bq769x2!AtMost
  <2> QED
      BY <1>5, <2>4, <2>5 DEF t
<1> QED
    BY <1>1, <1>6, <1>8, <1>9

LEMMA LimitsNatural ==
  ASSUME NotNegative, NEW c, ConfTypes(c)
  PROVE  c.chg_oc_limit \in Nat /\ c.dis_oc_limit \in Nat /\ c.dis_sc_limit \in Nat
<1>1. \A item \in Limits : c[item] \in Nat
  <2>1. Limits \subseteq Items /\ \A item \in Limits : Typed(item) = Nat
      BY DEF Limits, Items, Typed
  <2> QED
      BY <2>1 DEF ConfTypes
<1> QED
    BY <1>1 DEF Limits

LEMMA ChgSettles2 ==
  ASSUME NotNegative, chip = "bq769x2", NEW c, ConfTypes(c), NEW d,
         NEW p \in Outcomes(4, c), Becomes(c, d, p, 4)
  PROVE  Settles(p, d, 4)
<1> DEFINE t == Bq769x2!oc_threshold(c.chg_oc_limit, 62)
           e == Bq769x2!oc_delay(c.chg_oc_delay_ms)
           w == [OCC_THRESHOLD |-> t, OCC_DELAY |-> e]
           b == [chg_oc_limit |-> t * Bq769x2!ShuntStep,
                 chg_oc_delay_ms |-> Bq769x2!OcDelayMs(e)]
<1>1. /\ p = Bq769x2!ChgOcp(c)
      /\ Bq769x2!ChgOcp(c) = Bq769x2!Enabling({"OCC"}, Bq769x2!Part(w, b))
    BY PartsOf2 DEF Bq769x2!ChgOcp
<1> HIDE DEF w
<1>2. p.back = b
  <2> HIDE DEF b
  <2>1. IsPart(p, w, b, {"OCC"})
      BY <1>1, IsPartWith2, Zenon
  <2> QED
      BY <2>1 DEF IsPart
<1>3. Bq769x2!oc_threshold(t * Bq769x2!ShuntStep, 62) = t
    BY LimitsNatural, OcExact2
<1>4. Bq769x2!oc_delay(Bq769x2!OcDelayMs(e)) = e
  <2>1. e \in 1 .. 127
      BY ConfNumbers, OcDelay2, Zenon
  <2> HIDE DEF e
  <2> QED
      BY <2>1, OcDelayExact2, Zenon
<1> HIDE DEF t, e
<1>5. /\ d.chg_oc_limit = t * Bq769x2!ShuntStep
      /\ d.chg_oc_delay_ms = Bq769x2!OcDelayMs(e)
    BY <1>2 DEF Becomes
<1>6. Bq769x2!ChgOcp(d) = Bq769x2!Enabling({"OCC"}, Bq769x2!Part(w, b))
    BY <1>3, <1>4, <1>5 DEF Bq769x2!ChgOcp, w
<1> QED
    BY <1>1, <1>6, PartsOf2 DEF Settles

LEMMA DisSettles2 ==
  ASSUME NotNegative, chip = "bq769x2", NEW c, ConfTypes(c), NEW d,
         NEW p \in Outcomes(5, c), Becomes(c, d, p, 5)
  PROVE  Settles(p, d, 5)
<1> DEFINE t == Bq769x2!oc_threshold(c.dis_oc_limit, 100)
           e == Bq769x2!oc_delay(c.dis_oc_delay_ms)
           w == [OCD1_THRESHOLD |-> t, OCD1_DELAY |-> e]
           b == [dis_oc_limit |-> t * Bq769x2!ShuntStep,
                 dis_oc_delay_ms |-> Bq769x2!OcDelayMs(e)]
<1>1. /\ p = Bq769x2!DisOcp(c)
      /\ Bq769x2!DisOcp(c) = Bq769x2!Enabling({"OCD1"}, Bq769x2!Part(w, b))
    BY PartsOf2 DEF Bq769x2!DisOcp
<1> HIDE DEF w
<1>2. p.back = b
  <2> HIDE DEF b
  <2>1. IsPart(p, w, b, {"OCD1"})
      BY <1>1, IsPartWith2, Zenon
  <2> QED
      BY <2>1 DEF IsPart
<1>3. Bq769x2!oc_threshold(t * Bq769x2!ShuntStep, 100) = t
    BY LimitsNatural, OcExact2
<1>4. Bq769x2!oc_delay(Bq769x2!OcDelayMs(e)) = e
  <2>1. e \in 1 .. 127
      BY ConfNumbers, OcDelay2, Zenon
  <2> HIDE DEF e
  <2> QED
      BY <2>1, OcDelayExact2, Zenon
<1> HIDE DEF t, e
<1>5. /\ d.dis_oc_limit = t * Bq769x2!ShuntStep
      /\ d.dis_oc_delay_ms = Bq769x2!OcDelayMs(e)
    BY <1>2 DEF Becomes
<1>6. Bq769x2!DisOcp(d) = Bq769x2!Enabling({"OCD1"}, Bq769x2!Part(w, b))
    BY <1>3, <1>4, <1>5 DEF Bq769x2!DisOcp, w
<1> QED
    BY <1>1, <1>6, PartsOf2 DEF Settles

LEMMA ScExact2 ==
  \A t \in 1 .. 16 : ScEntry2(Bq769x2!scd_thresholds[t] * 1000) = t
<1> SUFFICES ASSUME NEW t \in 1 .. 16
             PROVE  ScEntry2(Bq769x2!scd_thresholds[t] * 1000) = t
    OBVIOUS
<1> DEFINE n == Bq769x2!scd_thresholds[t]
<1>1. n \in 0 .. 500
    BY DEF Bq769x2!scd_thresholds
<1> HIDE DEF n
<1>2. Bq769x2!U16((n * 1000) \div 1000) = n
    BY <1>1 DEF Bq769x2!U16
<1>3. ChosenEntry(Bq769x2!scd_thresholds, Bq769x2!scd_thresholds[t]) = t
    BY RisingTables, EntryExact
<1> QED
    BY <1>2, <1>3, SameSearch DEF ScEntry2, n

LEMMA ScDelayExact2 ==
  \A e \in 1 .. 31 :
    Bq769x2!CLAMP(Bq769x2!U16(((e - 1) * 15) \div 15 + 1), 1, 31) = e
  BY DEF Bq769x2!CLAMP, Bq769x2!AtLeast, Bq769x2!AtMost, Bq769x2!U16

LEMMA ScSettles2 ==
  ASSUME chip = "bq769x2", NEW c, ConfTypes(c), NEW d,
         NEW p \in Outcomes(6, c), Becomes(c, d, p, 6)
  PROVE  Settles(p, d, 6)
<1> DEFINE t == ScEntry2(c.dis_sc_limit)
           e == Bq769x2!CLAMP(Bq769x2!U16(c.dis_sc_delay_us \div 15 + 1), 1, 31)
           w == [SCD_THRESHOLD |-> t - 1, SCD_DELAY |-> e]
           b == [dis_sc_limit |-> Bq769x2!scd_thresholds[t] * 1000,
                 dis_sc_delay_us |-> (e - 1) * 15]
<1>1. p = Bq769x2!DisScp(c) /\ Bq769x2!DisScp(c) = Bq769x2!Part(w, b)
    BY PartsOf2 DEF Bq769x2!DisScp, ScEntry2
<1> HIDE DEF w
<1>2. p.back = b
  <2> HIDE DEF b
  <2>1. IsPart(p, w, b, {})
      BY <1>1, IsPart2, Zenon
  <2> QED
      BY <2>1 DEF IsPart
<1>3. t \in 1 .. 16 /\ e \in 1 .. 31
  <2>1. t \in 1 .. 16
      BY Sc2, ConfNumbers, Zenon
  <2>2. e \in 1 .. 31
      BY ScDelay2, ConfNumbers, Zenon
  <2> QED
      BY <2>1, <2>2, Zenon
<1> HIDE DEF t, e
<1>4. /\ d.dis_sc_limit = Bq769x2!scd_thresholds[t] * 1000
      /\ d.dis_sc_delay_us = (e - 1) * 15
    BY <1>2 DEF Becomes
<1>5. /\ ScEntry2(d.dis_sc_limit) = t
      /\ Bq769x2!CLAMP(Bq769x2!U16(d.dis_sc_delay_us \div 15 + 1), 1, 31) = e
    BY <1>3, <1>4, ScExact2, ScDelayExact2
<1>6. Bq769x2!DisScp(d) = Bq769x2!Part(w, b)
    BY <1>5 DEF Bq769x2!DisScp, ScEntry2, w
<1> QED
    BY <1>1, <1>6, PartsOf2 DEF Settles

LEMMA BalancingSettles2 ==
  ASSUME chip = "bq769x2", NEW c, ConfTypes(c), NEW d,
         NEW p \in Outcomes(7, c), Becomes(c, d, p, 7)
  PROVE  Settles(p, d, 7)
<1> DEFINE min == c.bal_cell_voltage_min \div 10
           delta == c.bal_cell_voltage_diff \div 10
           w == [CBAL_MIN_CELL_V |-> min, CBAL_MIN_DELTA |-> delta,
                 CBAL_MIN_CELL_TEMP |-> Bq769x2!TempThreshold(c.dis_ut_limit),
                 CBAL_MAX_CELL_TEMP |-> Bq769x2!TempThreshold(c.dis_ot_limit),
                 CURR_TH |-> c.bal_idle_current,
                 CBAL_CONF |-> IF c.auto_balancing THEN 3 ELSE 0]
           b == [bal_cell_voltage_min |-> 10 * min,
                 bal_cell_voltage_diff |-> 10 * delta]
<1>1. /\ p = Bq769x2!Balancing(c)
      /\ Bq769x2!Balancing(c) = Bq769x2!OnSuccess(Bq769x2!Part(w, b))
    BY PartsOf2 DEF Bq769x2!Balancing
<1> HIDE DEF w
<1>2. p.back = b
  <2> HIDE DEF b
  <2>1. IsPart(p, w, b, {})
      BY <1>1, IsPart2, Zenon
  <2> QED
      BY <2>1 DEF IsPart
<1>3. min \in Int /\ delta \in Int
    BY ConfNumbers
<1> HIDE DEF min, delta
<1>4. /\ d.bal_cell_voltage_min = 10 * min /\ d.bal_cell_voltage_diff = 10 * delta
      /\ DOMAIN p.back = {"bal_cell_voltage_min", "bal_cell_voltage_diff"}
    BY <1>2 DEF Becomes
<1>5. /\ d.bal_cell_voltage_min \div 10 = min /\ d.bal_cell_voltage_diff \div 10 = delta
    BY <1>3, <1>4
<1>6. /\ d.dis_ut_limit = c.dis_ut_limit /\ d.dis_ot_limit = c.dis_ot_limit
      /\ d.bal_idle_current = c.bal_idle_current
      /\ d.auto_balancing = c.auto_balancing
  <2>1. \A item \in {"dis_ut_limit", "dis_ot_limit", "bal_idle_current", "auto_balancing"} :
          item \in Reads[7]
      BY DEF Reads, PartItems
  <2> QED
      BY <1>4, <2>1 DEF Becomes
<1>7. Bq769x2!Balancing(d) = Bq769x2!OnSuccess(Bq769x2!Part(w, b))
    BY <1>5, <1>6 DEF Bq769x2!Balancing, w
<1> QED
    BY <1>1, <1>7, PartsOf2 DEF Settles

LEMMA AlertsSettle2 ==
  ASSUME chip = "bq769x2", NEW c, NEW d,
         NEW p \in Outcomes(8, c), Becomes(c, d, p, 8)
  PROVE  Settles(p, d, 8)
<1> DEFINE A == Bq769x2!AlertsA
           B == Bq769x2!AlertsB
           w == [ALERT_MASK_A |-> c.alert_mask \intersect A,
                 ALERT_MASK_B |-> c.alert_mask \intersect B,
                 ALARM_DEFAULT_MASK |-> {"SF_ALERT"}]
           b == [alert_mask |-> c.alert_mask \intersect (A \union B)]
<1>1. p = Bq769x2!Alerts(c) /\ Bq769x2!Alerts(c) = Bq769x2!Part(w, b)
    BY PartsOf2 DEF Bq769x2!Alerts
<1> HIDE DEF w
<1>2. p.back = b
  <2> HIDE DEF b
  <2>1. IsPart(p, w, b, {})
      BY <1>1, IsPart2, Zenon
  <2> QED
      BY <2>1 DEF IsPart
<1>3. d.alert_mask = c.alert_mask \intersect (A \union B)
    BY <1>2 DEF Becomes
<1>4. /\ d.alert_mask \intersect A = c.alert_mask \intersect A
      /\ d.alert_mask \intersect B = c.alert_mask \intersect B
      /\ d.alert_mask \intersect (A \union B) = c.alert_mask \intersect (A \union B)
    BY <1>3
<1>5. Bq769x2!Alerts(d) = Bq769x2!Part(w, b)
    BY <1>4 DEF Bq769x2!Alerts, w
<1> QED
    BY <1>1, <1>5, PartsOf2 DEF Settles

LEMMA RegsSettle2 ==
  ASSUME chip = "bq769x2", NEW c, NEW d,
         NEW p \in Outcomes(9, c), Becomes(c, d, p, 9)
  PROVE  Settles(p, d, 9)
<1> DEFINE w == [REG0 |-> c.vregs_enable \intersect {0},
                 REG12 |-> c.vregs_enable \intersect {1, 2}]
           b == [vregs_enable |-> c.vregs_enable \intersect {0, 1, 2}]
           q == Bq769x2!Part(w, b)
           all == Bq769x2!OnSuccess(Bq769x2!FailingWith(
                    q.failures \union {DOMAIN q.writes}, q))
<1>1. p = Bq769x2!VoltageRegs(c) /\ Bq769x2!VoltageRegs(c) = all
    BY PartsOf2 DEF Bq769x2!VoltageRegs
<1> HIDE DEF w
<1>2. p.back = b
  <2> HIDE DEF b
  <2>1. IsPart(p, w, b, {})
    <3> DEFINE s == q.failures \union {DOMAIN q.writes}
    <3>1. p = Bq769x2!OnSuccess(Bq769x2!FailingWith(s, Bq769x2!Part(w, b)))
        BY <1>1
    <3> HIDE DEF s
    <3> QED
        BY <3>1, IsPartWith2, Zenon
  <2> QED
      BY <2>1 DEF IsPart
<1>3. d.vregs_enable = c.vregs_enable \intersect {0, 1, 2}
    BY <1>2 DEF Becomes
<1>4. /\ d.vregs_enable \intersect {0} = c.vregs_enable \intersect {0}
      /\ d.vregs_enable \intersect {1, 2} = c.vregs_enable \intersect {1, 2}
      /\ d.vregs_enable \intersect {0, 1, 2} = c.vregs_enable \intersect {0, 1, 2}
    BY <1>3
<1>5. Bq769x2!VoltageRegs(d) = all
    BY <1>4 DEF Bq769x2!VoltageRegs, w
<1> QED
    BY <1>1, <1>5, PartsOf2 DEF Settles

LEMMA Settling2 ==
  ASSUME NotNegative, chip = "bq769x2", NEW c, ConfTypes(c), NEW d, NEW i \in 1 .. 9,
         NEW p \in Outcomes(i, c), ~ p.refused, Becomes(c, d, p, i)
  PROVE  Settles(p, d, i)
  BY OvSettles2, UvSettles2, TempsSettle2, ChgSettles2, DisSettles2, ScSettles2,
     BalancingSettles2, AlertsSettle2, RegsSettle2

\* A limit that was chosen from a table is chosen again.
LEMMA ChosenAgain ==
  ASSUME NEW n, NEW table, Rising(table, n), table[1] \in Nat, NEW v \in Int
  PROVE  LET k == ChosenEntry(table, v)
         IN  /\ table[k] \in Nat /\ ChosenEntry(table, table[k]) = k
             /\ ChosenEntry(table, (1000 * table[k]) \div 1000) = k
<1> DEFINE k == ChosenEntry(table, v)
<1>1. k \in 1 .. n /\ table[k] \in Nat
    BY EntryType
<1> HIDE DEF k
<1>2. ChosenEntry(table, table[k]) = k
    BY <1>1, EntryExact
<1>3. (1000 * table[k]) \div 1000 = table[k]
    BY <1>1
<1> QED
    BY <1>1, <1>2, <1>3 DEF k

LEMMA Tables0 ==
  /\ Rising(Bq769x0!ocd_thresholds, 16) /\ Bq769x0!ocd_thresholds[1] \in Nat
  /\ Rising(Bq769x0!ocd_delays, 8) /\ Bq769x0!ocd_delays[1] \in Nat
  /\ Rising(Bq769x0!scd_thresholds, 8) /\ Bq769x0!scd_thresholds[1] \in Nat
  /\ Rising(Bq769x0!scd_delays, 4) /\ Bq769x0!scd_delays[1] \in Nat
  BY RisingTables DEF Bq769x0!ocd_thresholds, Bq769x0!ocd_delays,
                      Bq769x0!scd_thresholds, Bq769x0!scd_delays

LEMMA Settling0 ==
  ASSUME chip = "bq769x0", NEW c, ConfTypes(c), NEW d, NEW i \in {5, 6},
         NEW p \in Outcomes(i, c), Becomes(c, d, p, i)
  PROVE  Settles(p, d, i)
<1>0. /\ c.dis_oc_limit \in Int /\ c.dis_oc_delay_ms \in Int
      /\ c.dis_sc_limit \in Int /\ c.dis_sc_delay_us \in Int
      /\ c.dis_oc_limit \div 1000 \in Int /\ c.dis_sc_limit \div 1000 \in Int
    BY ConfNumbers
<1>1. CASE i = 5
  <2> DEFINE T == Bq769x0!ocd_thresholds
             D == Bq769x0!ocd_delays
             t == ChosenEntry(T, c.dis_oc_limit \div 1000)
             e == ChosenEntry(D, c.dis_oc_delay_ms)
             w == [PROTECT2 |-> <<t - 1, e - 1>>]
             b == [dis_oc_limit |-> 1000 * T[t], dis_oc_delay_ms |-> D[e]]
  <2>1. p = Bq769x0!OnSuccess(Bq769x0!Part(w, b))
      BY <1>1, PartsOf0, SameSearch DEF Bq769x0!DisOcp
  <2>2. IsPart(p, w, b, {})
      BY <2>1, IsPart0
  <2>3. p.back = b
    <3> HIDE DEF b, w
    <3> QED
        BY <2>2 DEF IsPart
  <2>4. ChosenEntry(T, (1000 * T[t]) \div 1000) = t
      BY <1>0, Tables0, ChosenAgain
  <2>5. ChosenEntry(D, D[e]) = e
      BY <1>0, Tables0, ChosenAgain
  <2> HIDE DEF t, e
  <2>6. d.dis_oc_limit = 1000 * T[t] /\ d.dis_oc_delay_ms = D[e]
      BY <1>1, <2>3 DEF Becomes
  <2>7. Bq769x0!DisOcp(d) = Bq769x0!OnSuccess(Bq769x0!Part(w, b))
      BY <2>4, <2>5, <2>6, SameSearch DEF Bq769x0!DisOcp
  <2> QED
      BY <1>1, <2>1, <2>7, PartsOf0 DEF Settles
<1>2. CASE i = 6
  <2> DEFINE T == Bq769x0!scd_thresholds
             D == Bq769x0!scd_delays
             t == ChosenEntry(T, c.dis_sc_limit \div 1000)
             e == ChosenEntry(D, c.dis_sc_delay_us)
             w == [PROTECT1 |-> <<t - 1, e - 1>>]
             b == [dis_sc_limit |-> 1000 * T[t], dis_sc_delay_us |-> D[e]]
  <2>1. p = Bq769x0!OnSuccess(Bq769x0!Part(w, b))
      BY <1>2, PartsOf0, SameSearch DEF Bq769x0!DisScp
  <2>2. IsPart(p, w, b, {})
      BY <2>1, IsPart0
  <2>3. p.back = b
    <3> HIDE DEF b, w
    <3> QED
        BY <2>2 DEF IsPart
  <2>4. ChosenEntry(T, (1000 * T[t]) \div 1000) = t
      BY <1>0, Tables0, ChosenAgain
  <2>5. ChosenEntry(D, D[e]) = e
      BY <1>0, Tables0, ChosenAgain
  <2> HIDE DEF t, e
  <2>6. d.dis_sc_limit = 1000 * T[t] /\ d.dis_sc_delay_us = D[e]
      BY <1>2, <2>3 DEF Becomes
  <2>7. Bq769x0!DisScp(d) = Bq769x0!OnSuccess(Bq769x0!Part(w, b))
      BY <2>4, <2>5, <2>6, SameSearch DEF Bq769x0!DisScp
  <2> QED
      BY <1>2, <2>1, <2>7, PartsOf0 DEF Settles
<1> QED
    BY <1>1, <1>2

\* The entries of the isl94202 fit in 16 bits.
LEMMA IslAgain ==
  ASSUME NEW i \in 4 .. 6, NEW limit \in Int
  PROVE  IslChosen(i, 1000 * IslThresholds(i)[IslChosen(i, limit)]) = IslChosen(i, limit)
<1> DEFINE k == IslChosen(i, limit)
           n == IslThresholds(i)[k]
<1>1. k \in 1 .. 8 /\ Rising(IslThresholds(i), 8)
    BY IslEntry
<1> HIDE DEF k
<1>2. n \in 0 .. 256
  <2>1. CASE i = 4
      BY <1>1, <2>1 DEF IslThresholds, Isl94202!occ_thresholds
  <2>2. CASE i = 5
      BY <1>1, <2>2 DEF IslThresholds, Isl94202!ocd_thresholds
  <2>3. CASE i = 6
      BY <1>1, <2>3 DEF IslThresholds, Isl94202!dsc_thresholds
  <2> QED
      BY <2>1, <2>2, <2>3
<1>3. ChosenEntry(IslThresholds(i), n) = k
    BY <1>1, EntryExact
<1> HIDE DEF n
<1>4. Isl94202!U16((1000 * n) \div 1000) = n
    BY <1>2 DEF Isl94202!U16
<1>5. IslChosen(i, 1000 * n) = k
    BY <1>3, <1>4 DEF IslChosen
<1> QED
    BY <1>5 DEF n, k

LEMMA IslThresholdsAre ==
  /\ IslThresholds(4) = Isl94202!occ_thresholds
  /\ IslThresholds(5) = Isl94202!ocd_thresholds
  /\ IslThresholds(6) = Isl94202!dsc_thresholds
  BY DEF IslThresholds

LEMMA IslChoice ==
  ASSUME NEW i \in 4 .. 6, NEW limit
  PROVE  Isl94202!ChosenThreshold(IslThresholds(i), limit) = IslChosen(i, limit)
  BY SameSearch DEF Isl94202!ChosenThreshold, IslChosen

\* Both the register and the limit stored back depend on the choice only.
LEMMA IslSame ==
  ASSUME NEW i \in 4 .. 6, NEW limit \in Int, NEW unit, NEW delay,
         NEW new, new = 1000 * IslThresholds(i)[IslChosen(i, limit)]
  PROVE  /\ Isl94202!AppliedLimit(IslThresholds(i), limit) = new
         /\ Isl94202!AppliedLimit(IslThresholds(i), new) = new
         /\ Isl94202!CurrentLimit(IslThresholds(i), new, unit, delay)
              = Isl94202!CurrentLimit(IslThresholds(i), limit, unit, delay)
<1>1. IslChosen(i, new) = IslChosen(i, limit)
    BY IslAgain
<1> QED
    BY <1>1, IslChoice DEF Isl94202!AppliedLimit, Isl94202!CurrentLimit

LEMMA SettlingIsl ==
  ASSUME chip = "isl94202", NEW c, ConfTypes(c), NEW d, NEW i \in 4 .. 6,
         NEW p \in Outcomes(i, c), Becomes(c, d, p, i)
  PROVE  Settles(p, d, i)
<1>0. c.chg_oc_limit \in Int /\ c.dis_oc_limit \in Int /\ c.dis_sc_limit \in Int
    BY ConfNumbers
<1>1. CASE i = 4
  <2> DEFINE T == IslThresholds(4)
             new == 1000 * T[IslChosen(4, c.chg_oc_limit)]
             w == [OCCT_OCC |-> Isl94202!CurrentLimit(T, c.chg_oc_limit,
                                  Isl94202!DELAY_MS, c.chg_oc_delay_ms)]
             b == [chg_oc_limit |-> new]
  <2>1. T = Isl94202!occ_thresholds
      BY IslThresholdsAre
  <2> HIDE DEF T
  <2>2. Isl94202!AppliedLimit(T, c.chg_oc_limit) = new
      BY <1>0, IslSame DEF T
  <2>3. p = Isl94202!OnSuccess(Isl94202!Part(w, b))
      BY <1>1, <2>1, <2>2, PartsOfIsl DEF Isl94202!ChgOcp
  <2>4. p.back = b
    <3> HIDE DEF b, w
    <3>1. IsPart(p, w, b, {})
        BY <2>3, IsPartIsl
    <3> QED
        BY <3>1 DEF IsPart
  <2>5. d.chg_oc_limit = new /\ d.chg_oc_delay_ms = c.chg_oc_delay_ms
    <3>1. DOMAIN p.back = {"chg_oc_limit"} /\ "chg_oc_delay_ms" \in Reads[4]
        BY <2>4 DEF Reads, PartItems
    <3> QED
        BY <1>1, <2>4, <3>1 DEF Becomes
  <2>6. /\ Isl94202!AppliedLimit(T, new) = new
        /\ Isl94202!CurrentLimit(T, new, Isl94202!DELAY_MS, c.chg_oc_delay_ms)
             = Isl94202!CurrentLimit(T, c.chg_oc_limit, Isl94202!DELAY_MS, c.chg_oc_delay_ms)
      BY <1>0, IslSame DEF T
  <2> HIDE DEF new
  <2>7. Isl94202!ChgOcp(d) = Isl94202!OnSuccess(Isl94202!Part(w, b))
      BY <2>1, <2>5, <2>6 DEF Isl94202!ChgOcp
  <2> QED
      BY <1>1, <2>3, <2>7, PartsOfIsl DEF Settles
<1>2. CASE i = 5
  <2> DEFINE T == IslThresholds(5)
             new == 1000 * T[IslChosen(5, c.dis_oc_limit)]
             w == [OCDT_OCD |-> Isl94202!CurrentLimit(T, c.dis_oc_limit,
                                  Isl94202!DELAY_MS, c.dis_oc_delay_ms)]
             b == [dis_oc_limit |-> new]
  <2>1. T = Isl94202!ocd_thresholds
      BY IslThresholdsAre
  <2> HIDE DEF T
  <2>2. Isl94202!AppliedLimit(T, c.dis_oc_limit) = new
      BY <1>0, IslSame DEF T
  <2>3. p = Isl94202!OnSuccess(Isl94202!Part(w, b))
      BY <1>2, <2>1, <2>2, PartsOfIsl DEF Isl94202!DisOcp
  <2>4. p.back = b
    <3> HIDE DEF b, w
    <3>1. IsPart(p, w, b, {})
        BY <2>3, IsPartIsl
    <3> QED
        BY <3>1 DEF IsPart
  <2>5. d.dis_oc_limit = new /\ d.dis_oc_delay_ms = c.dis_oc_delay_ms
    <3>1. DOMAIN p.back = {"dis_oc_limit"} /\ "dis_oc_delay_ms" \in Reads[5]
        BY <2>4 DEF Reads, PartItems
    <3> QED
        BY <1>2, <2>4, <3>1 DEF Becomes
  <2>6. /\ Isl94202!AppliedLimit(T, new) = new
        /\ Isl94202!CurrentLimit(T, new, Isl94202!DELAY_MS, c.dis_oc_delay_ms)
             = Isl94202!CurrentLimit(T, c.dis_oc_limit, Isl94202!DELAY_MS, c.dis_oc_delay_ms)
      BY <1>0, IslSame DEF T
  <2> HIDE DEF new
  <2>7. Isl94202!DisOcp(d) = Isl94202!OnSuccess(Isl94202!Part(w, b))
      BY <2>1, <2>5, <2>6 DEF Isl94202!DisOcp
  <2> QED
      BY <1>2, <2>3, <2>7, PartsOfIsl DEF Settles
<1>3. CASE i = 6
  <2> DEFINE T == IslThresholds(6)
             new == 1000 * T[IslChosen(6, c.dis_sc_limit)]
             w == [SCDT_SCD |-> Isl94202!CurrentLimit(T, c.dis_sc_limit,
                                  Isl94202!DELAY_US, c.dis_sc_delay_us)]
             b == [dis_sc_limit |-> new]
  <2>1. T = Isl94202!dsc_thresholds
      BY IslThresholdsAre
  <2> HIDE DEF T
  <2>2. Isl94202!AppliedLimit(T, c.dis_sc_limit) = new
    <3>1. Isl94202!AppliedLimit(Isl94202!dsc_thresholds, c.dis_sc_limit)
            = 1000 * IslThresholds(6)[IslChosen(6, c.dis_sc_limit)]
        BY IslLimits
    <3> QED
        BY <2>1, <3>1 DEF T
  <2>3. p = Isl94202!OnSuccess(Isl94202!Part(w, b))
      BY <1>3, <2>1, <2>2, PartsOfIsl DEF Isl94202!DisScp
  <2>4. p.back = b
    <3> HIDE DEF b, w
    <3>1. IsPart(p, w, b, {})
        BY <2>3, IsPartIsl
    <3> QED
        BY <3>1 DEF IsPart
  <2>5. d.dis_sc_limit = new /\ d.dis_sc_delay_us = c.dis_sc_delay_us
    <3>1. DOMAIN p.back = {"dis_sc_limit"} /\ "dis_sc_delay_us" \in Reads[6]
        BY <2>4 DEF Reads, PartItems
    <3> QED
        BY <1>3, <2>4, <3>1 DEF Becomes
  <2>6. /\ Isl94202!AppliedLimit(T, new) = new
        /\ Isl94202!CurrentLimit(T, new, Isl94202!DELAY_US, c.dis_sc_delay_us)
             = Isl94202!CurrentLimit(T, c.dis_sc_limit, Isl94202!DELAY_US, c.dis_sc_delay_us)
      BY <1>0, IslSame DEF T
  <2> HIDE DEF new
  <2>7. Isl94202!DisScp(d) = Isl94202!OnSuccess(Isl94202!Part(w, b))
      BY <2>1, <2>5, <2>6 DEF Isl94202!DisScp
  <2> QED
      BY <1>3, <2>3, <2>7, PartsOfIsl DEF Settles
<1> QED
    BY <1>1, <1>2, <1>3

\* The other parts store nothing back.
LEMMA NoBack ==
  /\ chip = "bq769x0" => \A c : \A i \in {3, 4, 7, 8} : \A p \in Outcomes(i, c) : p.back = <<>>
  /\ chip = "isl94202" => \A c : \A i \in {1, 2, 3, 7} : \A p \in Outcomes(i, c) : p.back = <<>>
<1>1. ASSUME chip = "bq769x0", NEW i \in {3, 4, 7, 8}, NEW c, NEW p \in Outcomes(i, c)
      PROVE  p.back = <<>>
  <2>1. \/ p = Bq769x0!TempLimits(c) \/ p = Bq769x0!ChgOcp(c)
        \/ p = Bq769x0!Balancing(c) \/ p = Bq769x0!Alerts(c)
      BY <1>1, PartsOf0
  <2>2. \E w : p = Bq769x0!Cached(Bq769x0!Part(w, <<>>))
      BY <2>1 DEF Bq769x0!TempLimits, Bq769x0!ChgOcp, Bq769x0!Balancing, Bq769x0!Alerts
  <2>3. PICK w : p = Bq769x0!Cached(Bq769x0!Part(w, <<>>))
      BY <2>2
  <2> QED
      BY <2>3 DEF Bq769x0!Cached, Bq769x0!Part, Bq769x0!FailingWith
<1>2. ASSUME chip = "isl94202", NEW i \in {1, 2, 3, 7}, NEW c, NEW p \in Outcomes(i, c)
      PROVE  p.back = <<>>
  <2>1. \A s, w : Isl94202!Writes(s, Isl94202!Part(w, <<>>)).back = <<>>
      BY Rejecting DEF MayReject
  <2>2. CASE i = 1
    <3>1. p = Isl94202!CellLimits(c.cell_ov_limit, c.cell_ov_reset, c.cell_ov_delay_ms,
                                  <<"OVL_CPW", "OVR", "OVDT">>)
        BY <1>2, <2>2, PartsOfIsl DEF Isl94202!CellOvp
    <3>2. PICK s, w : MayReject(p, s, w)
        BY <3>1, CellLimitsReject, Zenon
    <3> QED
        BY <3>2 DEF MayReject
  <2>3. CASE i = 2
    <3>1. p = Isl94202!CellLimits(c.cell_uv_limit, c.cell_uv_reset, c.cell_uv_delay_ms,
                                  <<"UVL_LPW", "UVR", "UVDT">>)
        BY <1>2, <2>3, PartsOfIsl DEF Isl94202!CellUvp
    <3>2. PICK s, w : MayReject(p, s, w)
        BY <3>1, CellLimitsReject, Zenon
    <3> QED
        BY <3>2 DEF MayReject
  <2>4. CASE i = 3
    <3>1. p = Isl94202!TempLimits(c)
        BY <1>2, <2>4, PartsOfIsl
    <3> QED
        BY <3>1 DEF Isl94202!TempLimits, Isl94202!Unreported, Isl94202!Part
  <2>5. CASE i = 7
    <3>1. p = Isl94202!Balancing(c)
        BY <1>2, <2>5, PartsOfIsl
    <3> QED
        BY <2>1, <3>1 DEF Isl94202!Balancing
  <2> QED
      BY <2>2, <2>3, <2>4, <2>5
<1> QED
    BY <1>1, <1>2

\* Applying what has been applied changes nothing.
LEMMA Settling ==
  ASSUME chip \in Chips, NotNegative, NEW c, ConfTypes(c), NEW d, NEW i \in Parts,
         NEW p \in Outcomes(i, c), ~ p.refused, Becomes(c, d, p, i)
  PROVE  Settles(p, d, i)
<1>1. CASE chip = "bq769x0"
  <2>1. i \in 1 .. LastPart /\ i \in {3, 4, 5, 6, 7, 8}
      BY <1>1, Chip DEF Parts
  <2> QED
      BY <1>1, <2>1, Settling0, NoBack, NothingSettles
<1>2. CASE chip = "bq769x2"
  <2>1. i \in 1 .. 9
      BY <1>2, Chip DEF Parts
  <2> QED
      BY <1>2, <2>1, Settling2
<1>3. CASE chip = "isl94202"
  <2>1. i \in 1 .. LastPart /\ i \in {1, 2, 3, 7} \union 4 .. 6
      BY <1>3, Chip DEF Parts
  <2> QED
      BY <1>3, <2>1, SettlingIsl, NoBack, NothingSettles
<1> QED
    BY <1>1, <1>2, <1>3, Chip

--------------------------------------------------------------------------
(***************************************************************************)
(* The invariant of configure().                                           *)
(***************************************************************************)
\* The registers hold what a part has written.
Holds(p) ==
  \A r \in DOMAIN p.writes \ p.unreported : r \in DOMAIN regs /\ regs[r] = p.writes[r]

Shows(p, c) == \A item \in DOMAIN p.back : c[item] = p.back[item]

\* A part of this configuration is in the registers, and shown.
Applied(i) == \E p \in Outcomes(i, conf) : Holds(p) /\ Shows(p, conf)

Done(i) ==
  /\ chip = "bq769x2" => EnabledBy[i] \subseteq enabled
  /\ NotNegative /\ i \in Parts => Applied(i)

\* The parts that a thread in configure() has left behind.
Completed(x) ==
  IF x.pc = "enter" THEN {}
  ELSE IF x.pc \in {"leave", "finish"} THEN 1 .. LastPart
  ELSE 1 .. x.part - 1

StoredTypes ==
  \/ stored = <<>>
  \/ /\ DOMAIN stored = Items \ Volatile
     /\ \A item \in Items \ Volatile : stored[item] \in Typed(item)

Types ==
  /\ chip \in Chips
  /\ ConfTypes(conf) /\ ConfTypes(asked)
  /\ AdcTypes
  /\ StoredTypes
  /\ {"COV", "SCD"} \subseteq enabled /\ enabled \subseteq UNION Registers
  /\ queued \in BOOLEAN
  /\ settled \in {"none"} \union Ids
  /\ events \in 0 .. MaxEvents /\ faults \in 0 .. MaxFaults

\* What a thread remembers of the part it is at.
PartKnown(x) ==
  /\ x.part \in 1 .. LastPart
  /\ x.pc = "enter" => x.part = 1
  /\ BackTypes(x.back, x.part)
  /\ x.enables \in {{}, EnabledBy[x.part]}
  /\ x.pc \in {"read", "enable"} => x.enables # {}
  /\ x.pc = "enable" =>
       /\ x.seen \subseteq RegisterOf(x.enables)
       /\ {"COV", "SCD"} \intersect RegisterOf(x.enables) \subseteq x.seen

\* ... and what that means when it has the IC for itself.
PartPending(x) ==
  /\ x.pc = "back" =>
       \E p \in Outcomes(x.part, conf) :
         /\ x.back = p.back
         /\ ~ x.err => ~ p.refused /\ Holds(p) /\ x.enables = p.enables
  /\ x.pc \in {"read", "enable"} /\ ~ x.err =>
       /\ x.enables = EnabledBy[x.part]
       /\ NotNegative /\ x.part \in Parts => Applied(x.part)
  /\ x.pc = "enable" => x.seen = enabled \intersect RegisterOf(x.enables)
  /\ ~ x.err => \A i \in Completed(x) : Done(i)

InParts ==
  \A t \in Ids : InConfigure(thread[t]) =>
    /\ PartKnown(thread[t])
    /\ thread[t].alone => PartPending(thread[t])

SettledDone == Settled => \A i \in 1 .. LastPart : Done(i)
SavedIsStored == settled = "ThingSet" /\ ~ queued => stored = Saved(conf)

ConfInv == UpdateInv /\ Types /\ InParts /\ SettledDone /\ SavedIsStored

\* The limit that a driver applies for one that was asked for.
Setting(item, limit) ==
  IF chip = "bq769x0" THEN
    CASE item = "chg_oc_limit" -> limit
      [] item = "dis_oc_limit" ->
           1000 * Bq769x0!ocd_thresholds[ChosenEntry(Bq769x0!ocd_thresholds, limit \div 1000)]
      [] item = "dis_sc_limit" ->
           1000 * Bq769x0!scd_thresholds[ChosenEntry(Bq769x0!scd_thresholds, limit \div 1000)]
  ELSE IF chip = "bq769x2" THEN
    CASE item = "chg_oc_limit" -> Bq769x2!oc_threshold(limit, 62) * Bq769x2!ShuntStep
      [] item = "dis_oc_limit" -> Bq769x2!oc_threshold(limit, 100) * Bq769x2!ShuntStep
      [] item = "dis_sc_limit" -> Bq769x2!scd_thresholds[ScEntry2(limit)] * 1000
  ELSE LET i == CurrentLimits[item]
       IN  1000 * IslThresholds(i)[IslChosen(i, limit)]

\* A limit is as it was asked for, or the setting the driver made of it.
LimitKept(item) ==
  \/ conf[item] = asked[item]
  \/ /\ conf[item] = Setting(item, conf[item])
     /\ conf[item] <= asked[item] + Rounding \/ conf[item] = Setting(item, 0)

LimitInv == \A item \in Limits : LimitKept(item)

--------------------------------------------------------------------------
(***************************************************************************)
(* Types.                                                                  *)
(***************************************************************************)
\* What is the same in the next state.
LEMMA NextTypes ==
  ASSUME chip' = chip, NEW d
  PROVE  /\ ConfTypes(d) /\ conf' = d => ConfTypes(conf)'
         /\ ConfTypes(d) /\ asked' = d => ConfTypes(asked)'
<1>1. \A item : Typed(item)' = Typed(item)
    BY DEF Typed
<1> QED
    BY <1>1 DEF ConfTypes

LEMMA KeptTypes ==
  ASSUME Types, chip' = chip
  PROVE  /\ chip' \in Chips
         /\ conf' = conf => ConfTypes(conf)'
         /\ asked' = asked => ConfTypes(asked)'
         /\ adc' = adc => AdcTypes'
         /\ stored' = stored => StoredTypes'
<1>1. \A item : Typed(item)' = Typed(item)
    BY DEF Typed
<1> QED
    BY <1>1, NextTypes DEF Types, AdcTypes, StoredTypes

LEMMA FaultType ==
  ASSUME Types, NEW ok, Transfers(ok) \/ Fault \/ faults' = faults
  PROVE  faults' \in 0 .. MaxFaults
  BY ConfigurationAssumption DEF Types, Transfers, Fault

LEMMA EventType ==
  ASSUME Types, Event PROVE events' \in 0 .. MaxEvents
  BY ConfigurationAssumption DEF Types, Event

LEMMA AdcRead ==
  ASSUME adc' \in {NotRead, Adc} \union Bq769x0!AnyAdc PROVE AdcTypes'
<1>1. CASE adc' = NotRead
    BY <1>1 DEF NotRead, AdcTypes
<1>2. CASE adc' = Adc
    BY <1>2, ConfigurationAssumption DEF AdcTypes
<1>3. CASE adc' \in Bq769x0!AnyAdc
  <2>1. /\ Bq769x0!adc_gain(0) \in Nat /\ Bq769x0!adc_gain(31) \in Nat
        /\ Bq769x0!adc_offset(0) \in Nat /\ Bq769x0!adc_offset(-1) \in Nat
    <3>1. \A n \in Int : Bq769x0!U8(n) \in Nat
        BY DEF Bq769x0!U8
    <3> QED
        BY <3>1 DEF Bq769x0!adc_gain, Bq769x0!adc_offset
  <2> QED
      BY <1>3, <2>1 DEF AdcTypes, Bq769x0!AnyAdc
<1> QED
    BY <1>1, <1>2, <1>3

\* The register of a part's protections.
LEMMA RegisterIs ==
  \A i \in 1 .. 9 : \A e \in {{}, EnabledBy[i]} :
    RegisterOf(e) \in Registers /\ e \subseteq RegisterOf(e)
<1> SUFFICES ASSUME NEW i \in 1 .. 9, NEW e \in {{}, EnabledBy[i]}
             PROVE  \E r \in Registers : e \subseteq r
    BY DEF RegisterOf
<1>1. CASE i = 3
    BY <1>1 DEF Registers, EnabledBy
<1>2. CASE i # 3
    BY <1>2, EnabledByAre DEF Registers
<1> QED
    BY <1>1, <1>2

LEMMA ActivateTypes == ASSUME Types, Activate PROVE Types'
<1>1. /\ UNCHANGED <<chip, conf, asked, enabled, stored, queued, events>>
      /\ settled' \in {settled, "none"}
    BY DEF Activate, ActivateBq769x0, ActivateIsl94202, ActivateBq769x2, InitConfig,
           LeaveInit, Enters, ic, bounds
<1>2. adc' \in {adc, NotRead, Adc} \union Bq769x0!AnyAdc
    BY DEF Activate, ActivateBq769x0, ActivateIsl94202, ActivateBq769x2, InitConfig,
           LeaveInit
<1>3. \E ok : Transfers(ok) \/ Fault \/ faults' = faults
    BY DEF Activate, ActivateBq769x0, ActivateIsl94202, ActivateBq769x2, InitConfig,
           LeaveInit, bounds
<1>4. faults' \in 0 .. MaxFaults
    BY <1>3, FaultType
<1>5. AdcTypes'
    BY <1>1, <1>2, AdcRead, KeptTypes
<1> QED
    BY <1>1, <1>4, <1>5, KeptTypes DEF Types

LEMMA ConfigureTypes ==
  ASSUME Types, NEW t \in Ids,
         EnterUpdateMode(t) \/ WritePart(t) \/ ReadEnabled(t) \/ LeaveUpdateMode(t)
  PROVE  Types'
<1>1. UNCHANGED <<chip, conf, asked, enabled, adc, stored, queued, settled, events>>
    BY DEF EnterUpdateMode, WritePart, ReadEnabled, LeaveUpdateMode, ic
<1>2. \E ok : Transfers(ok) \/ Fault \/ faults' = faults
    BY DEF EnterUpdateMode, WritePart, ReadEnabled, LeaveUpdateMode
<1>3. faults' \in 0 .. MaxFaults
    BY <1>2, FaultType
<1> QED
    BY <1>1, <1>3, KeptTypes DEF Types

LEMMA WriteEnabledTypes ==
  ASSUME Types, NEW t \in Ids, PartKnown(thread[t]), WriteEnabled(t)
  PROVE  Types'
<1> DEFINE th == thread[t]
           register == RegisterOf(th.enables)
<1>1. /\ UNCHANGED <<chip, conf, asked, adc, stored, queued, settled, events>>
      /\ enabled' \in {enabled, (enabled \ register) \union th.seen \union th.enables}
      /\ \E ok : Transfers(ok)
      /\ th.pc = "enable"
    BY DEF WriteEnabled
<1>2. faults' \in 0 .. MaxFaults
    BY <1>1, FaultType
<1>3. /\ register \in Registers /\ th.enables \subseteq register
      /\ th.seen \subseteq register
      /\ {"COV", "SCD"} \intersect register \subseteq th.seen
    BY <1>1, RegisterIs, Chip DEF PartKnown, Types
<1> HIDE DEF register
<1>4. {"COV", "SCD"} \subseteq enabled' /\ enabled' \subseteq UNION Registers
    BY <1>1, <1>3 DEF Types
<1> QED
    BY <1>1, <1>2, <1>4, KeptTypes DEF Types

LEMMA OverlaidTypes ==
  ASSUME NEW c, ConfTypes(c), NEW i \in 1 .. 9, NEW back, BackTypes(back, i)
  PROVE  ConfTypes(Overlaid(c, back))
<1> DEFINE d == Overlaid(c, back)
<1>1. DOMAIN d = Items
    BY ItemsOfParts DEF Overlaid, ConfTypes, BackTypes
<1>2. \A item \in Items :
        d[item] = IF item \in DOMAIN back THEN back[item] ELSE c[item]
    BY <1>1 DEF Overlaid
<1> HIDE DEF d
<1> QED
    BY <1>1, <1>2 DEF ConfTypes, BackTypes, d

LEMMA StoreBackTypes ==
  ASSUME Types, NEW t \in Ids, PartKnown(thread[t]), StoreBack(t)
  PROVE  Types'
<1> DEFINE back == thread[t].back
<1>1. /\ UNCHANGED <<chip, enabled, adc, stored, queued, settled, events, faults>>
      /\ conf' = Overlaid(conf, back)
      /\ asked' \in {asked, Overlaid(asked, back)}
    BY DEF StoreBack, ic, bounds
<1>2. thread[t].part \in 1 .. 9 /\ BackTypes(back, thread[t].part)
    BY Chip DEF PartKnown, Types
<1>3. ConfTypes(Overlaid(conf, back)) /\ ConfTypes(Overlaid(asked, back))
    BY <1>2, OverlaidTypes DEF Types
<1>4. ConfTypes(conf)' /\ ConfTypes(asked)'
    BY <1>1, <1>3, NextTypes DEF Types
<1> QED
    BY <1>1, <1>4, KeptTypes DEF Types

LEMMA FinishTypes == ASSUME Types, NEW t \in Ids, Finish(t) PROVE Types'
<1>1. /\ UNCHANGED <<chip, conf, asked, enabled, adc, stored, events, faults>>
      /\ queued' \in BOOLEAN /\ settled' \in {t, "none"}
    BY DEF Finish, ic, bounds, Types
<1> QED
    BY <1>1, KeptTypes DEF Types

LEMMA LoadedTypes == ASSUME Types PROVE ConfTypes(Loaded)
<1>1. ConfTypes(Defaults)
    BY DefaultTypes, ConfigurationAssumption DEF Defaults
<1>2. DOMAIN stored \subseteq Items /\ \A item \in DOMAIN stored : stored[item] \in Typed(item)
    BY DEF Types, StoredTypes
<1>3. DOMAIN Loaded = Items
    BY <1>1, <1>2 DEF Loaded, Overlaid, ConfTypes
<1>4. \A item \in Items :
        Loaded[item] = IF item \in DOMAIN stored THEN stored[item] ELSE Defaults[item]
    BY <1>3 DEF Loaded, Overlaid
<1> QED
    BY <1>1, <1>2, <1>3, <1>4 DEF ConfTypes

LEMMA WrittenTypes ==
  ASSUME NEW c, ConfTypes(c), NEW write \in Asked
  PROVE  ConfTypes([c EXCEPT ![write[1]] = write[2]])
<1>1. ConfTypes(Defaults)
    BY DefaultTypes, ConfigurationAssumption DEF Defaults
<1>2. write[1] \in Items \ Volatile /\ write[2] \in Int
    BY <1>1, AskedAssumption DEF ConfTypes
<1>3. write[2] \in Typed(write[1])
  <2>1. CASE write[1] \in Limits
    <3>1. NotNegative => write[2] \in Nat
        BY <1>2, <2>1 DEF NotNegative
    <3> QED
        BY <1>2, <2>1, <3>1 DEF Typed
  <2>2. CASE write[1] \notin Limits
      BY <1>2, <2>2, RestAreNumbers
  <2> QED
      BY <2>1, <2>2
<1> QED
    BY <1>2, <1>3 DEF ConfTypes

LEMMA RequestTypes == ASSUME Types, WriteItem \/ Preset PROVE Types'
<1>1. /\ UNCHANGED <<chip, enabled, adc, stored, queued, faults>>
      /\ settled' = "none" /\ Event
    BY DEF WriteItem, Preset, Request, Enters, ic
<1>2. ConfTypes(conf)' /\ ConfTypes(asked)'
  <2>1. CASE WriteItem
    <3>1. PICK write \in Asked : /\ conf' = [conf EXCEPT ![write[1]] = write[2]]
                                 /\ asked' = [asked EXCEPT ![write[1]] = write[2]]
        BY <2>1 DEF WriteItem
    <3>2. /\ ConfTypes([conf EXCEPT ![write[1]] = write[2]])
          /\ ConfTypes([asked EXCEPT ![write[1]] = write[2]])
        BY WrittenTypes DEF Types
    <3> QED
        BY <1>1, <3>1, <3>2, NextTypes
  <2>2. CASE Preset
    <3>1. PICK type \in PresetTypes : conf' = bms_init_config(type, NewCapacity)
        BY <2>2 DEF Preset
    <3>2. ConfTypes(bms_init_config(type, NewCapacity))
        BY DefaultTypes, ConfigurationAssumption
    <3>3. asked' = bms_init_config(type, NewCapacity)
        BY <2>2, <3>1 DEF Preset
    <3> QED
        BY <1>1, <3>1, <3>2, <3>3, NextTypes
  <2> QED
      BY <2>1, <2>2
<1>3. events' \in 0 .. MaxEvents
    BY <1>1, EventType
<1> QED
    BY <1>1, <1>2, <1>3, KeptTypes DEF Types

LEMMA SaveTypes == ASSUME Types, Save PROVE Types'
<1>1. /\ UNCHANGED <<chip, conf, asked, enabled, adc, settled, events, faults>>
      /\ queued' = FALSE /\ stored' = Saved(conf)
    BY DEF Save, ic, bounds
<1>2. DOMAIN stored' = Items \ Volatile
    BY <1>1 DEF Saved, Types, ConfTypes
<1>3. \A item \in Items \ Volatile : stored'[item] = conf[item]
    BY <1>1, <1>2 DEF Saved, Types, ConfTypes
<1>4. \A item : Typed(item)' = Typed(item)
    BY <1>1 DEF Typed
<1>5. StoredTypes'
    BY <1>2, <1>3, <1>4 DEF StoredTypes, Types, ConfTypes
<1> QED
    BY <1>1, <1>5, KeptTypes DEF Types

LEMMA RestartTypes == ASSUME Types, Restart PROVE Types'
<1>1. /\ UNCHANGED <<chip, enabled, stored, faults>>
      /\ conf' = Loaded /\ asked' = Loaded /\ adc' = NotRead
      /\ queued' = FALSE /\ settled' = "none" /\ Event
    BY DEF Restart, ic
<1>2. ConfTypes(conf)' /\ ConfTypes(asked)'
    BY <1>1, LoadedTypes, NextTypes
<1>3. events' \in 0 .. MaxEvents
    BY <1>1, EventType
<1>4. AdcTypes'
    BY <1>1, AdcRead
<1> QED
    BY <1>1, <1>2, <1>3, <1>4, KeptTypes DEF Types

LEMMA InitTypes == Init => Types
<1> SUFFICES ASSUME Init PROVE Types
    OBVIOUS
<1>1. ConfTypes(Defaults)
    BY DefaultTypes, ConfigurationAssumption DEF Defaults
<1>2. ConfTypes(conf) /\ ConfTypes(asked)
    BY <1>1 DEF Init
<1>3. {"COV", "SCD"} \subseteq enabled /\ enabled \subseteq UNION Registers
    BY DEF Init, Registers
<1>4. AdcTypes /\ StoredTypes
    BY DEF Init, AdcTypes, NotRead, StoredTypes
<1>5. MaxEvents \in Nat /\ MaxFaults \in Nat
    BY ConfigurationAssumption
<1>6. chip \in Chips /\ queued = FALSE /\ settled = "none"
    BY DEF Init
<1>7. events \in 0 .. MaxEvents /\ faults \in 0 .. MaxFaults
    BY <1>5 DEF Init
<1>8. queued \in BOOLEAN /\ settled \in {"none"} \union Ids
    BY <1>6
<1> QED
    BY <1>2, <1>3, <1>4, <1>6, <1>7, <1>8 DEF Types

--------------------------------------------------------------------------
(***************************************************************************)
(* What a step leaves of the parts that are done.                          *)
(***************************************************************************)
LEMMA NextOutcomes ==
  ASSUME chip' = chip, adc' = adc, NEW d, conf' = d, NEW i
  PROVE  Outcomes(i, conf)' = Outcomes(i, d)
  BY DEF Outcomes, Bq769x0Outcomes, Bq769x2Outcome, Isl94202Outcome

\* The registers of a part are as they were.
RegsKept(i) ==
  \A r \in PartRegs[i] : r \in DOMAIN regs => r \in DOMAIN regs' /\ regs'[r] = regs[r]

LEMMA AppliedNext ==
  ASSUME chip' = chip, adc' = adc, NEW d, conf' = d, NEW i, NEW p \in Outcomes(i, d),
         Holds(p)', Shows(p, d)
  PROVE  Applied(i)'
<1>1. p \in Outcomes(i, conf)'
    BY NextOutcomes
<1>2. Shows(p, conf)'
    BY DEF Shows
<1> QED
    BY <1>1, <1>2 DEF Applied

LEMMA ReadsOfParts ==
  \A i, j \in 1 .. 9 : i < j => Reads[i] \intersect PartItems[j] = {}
<1> SUFFICES ASSUME NEW i \in 1 .. 9, NEW j \in 1 .. 9, i < j
             PROVE  Reads[i] \intersect PartItems[j] = {}
    OBVIOUS
<1>1. Reads[i] \subseteq PartItems[i] \union (IF i = 7 THEN PartItems[3] ELSE {})
    BY DEF Reads, PartItems
<1> QED
    BY <1>1, PartItemsDisjoint

LEMMA OwnItemsRead == \A i \in 1 .. 9 : PartItems[i] \subseteq Reads[i]
  BY DEF Reads, PartItems

LEMMA DoneNext ==
  ASSUME Types, chip' = chip, adc' = adc, NEW i \in 1 .. LastPart, Done(i),
         enabled \subseteq enabled', NEW d, conf' = d, SameFor(d, conf, i), RegsKept(i)
  PROVE  Done(i)'
<1>1. chip' = "bq769x2" => EnabledBy[i] \subseteq enabled'
    BY DEF Done
<1>2. ASSUME NotNegative, i \in Parts PROVE Applied(i)'
  <2>1. PICK p \in Outcomes(i, conf) : Holds(p) /\ Shows(p, conf)
      BY <1>2 DEF Done, Applied
  <2>2. p \in Outcomes(i, d)
      BY SameOutcomes DEF Types
  <2>3. DOMAIN p.writes \subseteq PartRegs[i] /\ DOMAIN p.back \subseteq PartItems[i]
      BY <2>1, OutcomeTypes DEF Types, PartTypes, BackTypes
  <2>4. Holds(p)'
      BY <2>1, <2>3 DEF Holds, RegsKept
  <2>5. i \in 1 .. 9
      BY Chip DEF Types
  <2>6. Shows(p, d)
      BY <2>1, <2>3, <2>5, OwnItemsRead DEF Shows, SameFor
  <2> QED
      BY <2>2, <2>4, <2>6, AppliedNext
<1>3. i \in Parts' <=> i \in Parts
    BY DEF Parts, LastPart
<1> QED
    BY <1>1, <1>2, <1>3 DEF Done

\* Nothing that the parts depend on changes.
LEMMA DoneKept ==
  ASSUME Types, UNCHANGED <<chip, adc, conf, regs>>, enabled \subseteq enabled',
         NEW i \in 1 .. LastPart, Done(i)
  PROVE  Done(i)'
<1>1. SameFor(conf, conf, i) /\ RegsKept(i)
    BY DEF SameFor, RegsKept
<1> QED
    BY <1>1, DoneNext

LEMMA AppliedKept ==
  ASSUME UNCHANGED <<chip, adc, conf, regs>>, NEW i, Applied(i)
  PROVE  Applied(i)'
<1>1. PICK p \in Outcomes(i, conf) : Holds(p) /\ Shows(p, conf)
    BY DEF Applied
<1>2. Holds(p)'
    BY <1>1 DEF Holds
<1> QED
    BY <1>1, <1>2, AppliedNext

--------------------------------------------------------------------------
(***************************************************************************)
(* Steps inside configure().                                               *)
(***************************************************************************)
LEMMA NextPart ==
  ASSUME chip' = chip, NEW t
  PROVE  PartKnown(thread[t])' <=> PartKnown(thread'[t])
<1>1. LastPart' = LastPart /\ \A item : Typed(item)' = Typed(item)
    BY DEF LastPart, Typed
<1> QED
    BY <1>1 DEF PartKnown, BackTypes

LEMMA InPartsStep ==
  ASSUME UpdateInv, InParts, chip' = chip, NEW t \in Ids, Busy(t),
         thread'[Other(t)] = thread[Other(t)],
         InConfigure(thread'[t]) =>
           /\ PartKnown(thread'[t])
           /\ thread'[t].alone => PartPending(thread[t])'
  PROVE  InParts'
<1>1. ~ (InConfigure(thread[Other(t)]) /\ thread[Other(t)].alone)
    BY Others DEF UpdateInv, Alone
<1>2. ASSUME NEW u \in Ids, InConfigure(thread'[u])
      PROVE  /\ PartKnown(thread'[u])
             /\ thread'[u].alone => PartPending(thread[u])'
  <2>1. CASE u = t
      BY <1>2, <2>1
  <2>2. CASE u = Other(t)
      BY <1>1, <1>2, <2>2, Others DEF InParts
  <2> QED
      BY <2>1, <2>2, Others
<1> QED
    BY <1>2, NextThread, NextPart DEF InParts

\* A thread that continues with the outcome of a part.
LEMMA ContinuesFields ==
  ASSUME NEW x, InConfigure(x), NEW failed \in BOOLEAN, NEW back, NEW enables
  PROVE  LET y == Continues(With(x, failed, back, enables))
         IN  /\ y.err = (x.err \/ failed) /\ y.alone = x.alone
             /\ y.back = back /\ y.enables = enables /\ y.seen = {}
             /\ \/ back # <<>> /\ y.pc = "back" /\ y.part = x.part
                \/ back = <<>> /\ enables # {} /\ y.pc = "read" /\ y.part = x.part
                \/ /\ back = <<>> /\ enables = {} /\ x.part < LastPart
                   /\ y.pc = "write" /\ y.part = x.part + 1
                \/ /\ back = <<>> /\ enables = {} /\ ~ (x.part < LastPart)
                   /\ y.pc \in {"leave", "finish"} /\ y.part = x.part
<1> DEFINE w == With(x, failed, back, enables)
           y == Continues(w)
<1>1. /\ w = [f \in Fields |-> w[f]]
      /\ w.err = (x.err \/ failed) /\ w.alone = x.alone /\ w.part = x.part
      /\ w.back = back /\ w.enables = enables /\ w.seen = {}
    BY DEF With, InConfigure, Fields
<1> HIDE DEF w
<1>2. CASE back # <<>>
  <2>1. y = [w EXCEPT !.pc = "back"]
      BY <1>1, <1>2 DEF Continues
  <2> QED
      BY <1>1, <1>2, <2>1 DEF Fields, w
<1>3. CASE back = <<>> /\ enables # {}
  <2>1. y = [w EXCEPT !.pc = "read"]
      BY <1>1, <1>3 DEF Continues
  <2> QED
      BY <1>1, <1>3, <2>1 DEF Fields, w
<1>4. CASE back = <<>> /\ enables = {} /\ x.part < LastPart
  <2>1. y = [w EXCEPT !.pc = "write", !.part = w.part + 1]
      BY <1>1, <1>4 DEF Continues
  <2> QED
      BY <1>1, <1>4, <2>1 DEF Fields, w
<1>5. CASE back = <<>> /\ enables = {} /\ ~ (x.part < LastPart)
  <2>1. \/ y = [w EXCEPT !.pc = "leave"]
        \/ y = [w EXCEPT !.pc = "finish"]
      BY <1>1, <1>5 DEF Continues
  <2> QED
      BY <1>1, <1>5, <2>1 DEF Fields, w
<1> QED
    BY <1>2, <1>3, <1>4, <1>5

LEMMA OutcomeParts ==
  ASSUME UpdateInv, Types, InParts, chip' = chip, NEW t \in Ids, InConfigure(thread[t]),
         NEW failed \in BOOLEAN, NEW back, NEW enables, NEW i,
         thread' = [thread EXCEPT ![t] = Continues(With(thread[t], failed, back, enables))],
         i = thread[t].part, BackTypes(back, i), enables \in {{}, EnabledBy[i]},
         thread[t].alone =>
           /\ back # <<>> =>
                \E p \in Outcomes(i, conf)' :
                  /\ back = p.back
                  /\ ~ thread[t].err /\ ~ failed =>
                       ~ p.refused /\ Holds(p)' /\ enables = p.enables
           /\ ~ thread[t].err /\ ~ failed =>
                /\ \A j \in 1 .. i - 1 : Done(j)'
                /\ back = <<>> =>
                     /\ NotNegative /\ i \in Parts => Applied(i)'
                     /\ enables = {} /\ chip = "bq769x2" => EnabledBy[i] \subseteq enabled'
  PROVE  InParts'
<1> DEFINE y == Continues(With(thread[t], failed, back, enables))
<1>1. /\ thread'[t] = y /\ thread'[Other(t)] = thread[Other(t)] /\ Busy(t)
      /\ LastPart' = LastPart /\ i \in 1 .. LastPart /\ LastPart \in 7 .. 9
      /\ Parts' = Parts
    BY Others, Chip DEF UpdateInv, Threads, Busy, InConfigure, ConfigurePcs, InParts, PartKnown,
                  LastPart, Types, Parts
<1>2. /\ y.err = (thread[t].err \/ failed) /\ y.alone = thread[t].alone
      /\ y.back = back /\ y.enables = enables /\ y.seen = {}
      /\ \/ back # <<>> /\ y.pc = "back" /\ y.part = i
         \/ back = <<>> /\ enables # {} /\ y.pc = "read" /\ y.part = i
         \/ /\ back = <<>> /\ enables = {} /\ i < LastPart
            /\ y.pc = "write" /\ y.part = i + 1
         \/ /\ back = <<>> /\ enables = {} /\ ~ (i < LastPart)
            /\ y.pc \in {"leave", "finish"} /\ y.part = i
    BY ContinuesFields
<1> HIDE DEF y
<1>3. PartKnown(y)
    BY <1>1, <1>2 DEF PartKnown, BackTypes
<1>4. ASSUME y.alone PROVE PartPending(thread[t])'
  <2>1. ASSUME ~ y.err, back = <<>>, enables = {} PROVE \A j \in 1 .. i : Done(j)'
    <3>1. \A j \in 1 .. i - 1 : Done(j)'
        BY <1>2, <1>4, <2>1
    <3>2. Done(i)'
        BY <1>1, <1>2, <1>4, <2>1 DEF Done
    <3>3. \A j \in 1 .. i : j = i \/ j \in 1 .. i - 1
        BY <1>1
    <3> QED
        BY <3>1, <3>2, <3>3
  <2>2. CASE back # <<>>
    <3>1. y.pc = "back" /\ y.part = i
        BY <1>2, <2>2
    <3>2. ~ y.err => \A j \in 1 .. i - 1 : Done(j)'
        BY <1>2, <1>4
    <3> QED
        BY <1>1, <1>2, <1>4, <2>2, <3>1, <3>2 DEF PartPending, Completed
  <2>3. CASE back = <<>> /\ enables # {}
    <3>1. y.pc = "read" /\ y.part = i /\ enables = EnabledBy[i]
        BY <1>2, <2>3
    <3>2. ~ y.err => /\ \A j \in 1 .. i - 1 : Done(j)'
                     /\ NotNegative /\ i \in Parts' => Applied(i)'
        BY <1>1, <1>2, <1>4, <2>3
    <3> QED
        BY <1>1, <1>2, <3>1, <3>2 DEF PartPending, Completed
  <2>4. CASE back = <<>> /\ enables = {} /\ i < LastPart
    <3>1. y.pc = "write" /\ y.part - 1 = i
        BY <1>1, <1>2, <2>4
    <3> QED
        BY <1>1, <2>1, <2>4, <3>1 DEF PartPending, Completed
  <2>5. CASE back = <<>> /\ enables = {} /\ ~ (i < LastPart)
    <3>1. y.pc \in {"leave", "finish"} /\ i = LastPart'
        BY <1>1, <1>2, <2>5
    <3> QED
        BY <1>1, <2>1, <2>5, <3>1 DEF PartPending, Completed
  <2> QED
      BY <2>2, <2>3, <2>4, <2>5
<1> QED
    BY <1>1, <1>3, <1>4, InPartsStep

--------------------------------------------------------------------------
(***************************************************************************)
(* The parts of configure(), action by action.                             *)
(***************************************************************************)
\* A thread whose step changes nothing but its own state.
LEMMA QuietStep ==
  ASSUME UpdateInv, Types, InParts, NEW t \in Ids, InConfigure(thread[t]),
         UNCHANGED <<chip, adc, conf, regs, enabled>>, NEW x, InConfigure(x),
         thread' = [thread EXCEPT ![t] = x],
         PartKnown(x), x.pc \notin {"back", "read", "enable"}, x.alone = thread[t].alone,
         \A i \in Completed(x) : ~ x.err => ~ thread[t].err /\ i \in Completed(thread[t])
  PROVE  InParts'
<1>1. /\ thread'[t] = x /\ thread'[Other(t)] = thread[Other(t)] /\ Busy(t)
      /\ LastPart' = LastPart
    BY Others DEF UpdateInv, Threads, Busy, InConfigure, ConfigurePcs, LastPart
<1>2. ASSUME x.alone PROVE PartPending(thread[t])'
  <2>1. ASSUME ~ x.err, NEW i \in Completed(x) PROVE Done(i)'
    <3>1. i \in Completed(thread[t]) /\ Done(i)
        BY <1>2, <2>1 DEF InParts, PartPending
    <3>2. i \in 1 .. LastPart
        BY <3>1, Chip DEF Completed, InParts, PartKnown, Types
    <3> QED
        BY <3>1, <3>2, DoneKept
  <2>2. Completed(thread[t])' = Completed(x)
      BY <1>1 DEF Completed
  <2> QED
      BY <1>1, <2>1, <2>2 DEF PartPending
<1> QED
    BY <1>1, <1>2, InPartsStep

LEMMA EnterUpdateModeParts ==
  ASSUME ConfInv, NEW t \in Ids, EnterUpdateMode(t) PROVE InParts'
<1>1. PICK ok \in BOOLEAN :
        thread' = [thread EXCEPT ![t].pc = "write", ![t].err = ~ ok]
    BY DEF EnterUpdateMode
<1> DEFINE x == [thread[t] EXCEPT !.pc = "write", !.err = ~ ok]
<1>2. /\ thread[t].pc = "enter" /\ InConfigure(thread[t])
      /\ UNCHANGED <<chip, adc, conf, regs, enabled>>
    BY ThreadPc DEF ConfInv, EnterUpdateMode, ConfigurePcs
<1>3. thread' = [thread EXCEPT ![t] = x]
    BY <1>1 DEF ConfInv, UpdateInv, Threads
<1>4. /\ InConfigure(x) /\ x.pc = "write" /\ x.alone = thread[t].alone
      /\ x.part = thread[t].part /\ x.back = thread[t].back
      /\ x.enables = thread[t].enables
    BY <1>2 DEF InConfigure, Fields, ConfigurePcs
<1> HIDE DEF x
<1>5. x.part = 1 /\ PartKnown(x)
    BY <1>2, <1>4 DEF ConfInv, InParts, PartKnown
<1>6. Completed(x) = {}
    BY <1>4, <1>5 DEF Completed
<1> QED
    BY <1>2, <1>3, <1>4, <1>5, <1>6, QuietStep DEF ConfInv

LEMMA LeaveUpdateModeParts ==
  ASSUME ConfInv, NEW t \in Ids, LeaveUpdateMode(t) PROVE InParts'
<1>1. PICK ok \in BOOLEAN :
        thread' = [thread EXCEPT ![t].pc = "finish", ![t].err = @ \/ ~ ok]
    BY DEF LeaveUpdateMode
<1> DEFINE x == [thread[t] EXCEPT !.pc = "finish", !.err = @ \/ ~ ok]
<1>2. /\ thread[t].pc = "leave" /\ InConfigure(thread[t])
      /\ UNCHANGED <<chip, adc, conf, regs, enabled>>
    BY ThreadPc DEF ConfInv, LeaveUpdateMode, ConfigurePcs
<1>3. thread' = [thread EXCEPT ![t] = x]
    BY <1>1 DEF ConfInv, UpdateInv, Threads
<1>4. /\ InConfigure(x) /\ x.pc = "finish" /\ x.alone = thread[t].alone
      /\ x.part = thread[t].part /\ x.back = thread[t].back
      /\ x.enables = thread[t].enables
      /\ ~ x.err => ~ thread[t].err
    BY <1>2 DEF InConfigure, Fields, ConfigurePcs
<1> HIDE DEF x
<1>5. PartKnown(x)
    BY <1>2, <1>4 DEF ConfInv, InParts, PartKnown
<1>6. Completed(x) = Completed(thread[t])
    BY <1>2, <1>4 DEF Completed
<1> QED
    BY <1>2, <1>3, <1>4, <1>5, <1>6, QuietStep DEF ConfInv

\* What has been written is in the registers, but for what got lost.
LEMMA WrittenHolds ==
  ASSUME NEW p, NEW lost, Written(p, lost)
  PROVE  /\ lost \subseteq p.unreported => Holds(p)'
         /\ \A i : DOMAIN p.writes \subseteq PartRegs[i] =>
              \A j \in 1 .. 9 : i \in 1 .. 9 /\ j # i => RegsKept(j)
<1> DEFINE w == [r \in DOMAIN p.writes \ lost |-> p.writes[r]]
<1>1. regs' = Overlaid(regs, w) /\ DOMAIN w = DOMAIN p.writes \ lost
      /\ \A r \in DOMAIN w : w[r] = p.writes[r]
    BY DEF Written
<1> HIDE DEF w
<1>2. /\ \A r \in DOMAIN w : r \in DOMAIN regs' /\ regs'[r] = w[r]
      /\ \A r \in DOMAIN regs \ DOMAIN w : r \in DOMAIN regs' /\ regs'[r] = regs[r]
    BY <1>1 DEF Overlaid
<1>3. lost \subseteq p.unreported => Holds(p)'
    BY <1>1, <1>2 DEF Holds
<1>4. ASSUME NEW i \in 1 .. 9, DOMAIN p.writes \subseteq PartRegs[i],
             NEW j \in 1 .. 9, j # i
      PROVE  RegsKept(j)
  <2>1. PartRegs[j] \intersect DOMAIN w = {}
      BY <1>1, <1>4, PartRegsDisjoint
  <2> QED
      BY <1>2, <2>1 DEF RegsKept
<1> QED
    BY <1>3, <1>4

LEMMA WritePartParts ==
  ASSUME ConfInv, NEW t \in Ids, WritePart(t) PROVE InParts'
<1>1. /\ thread[t].pc = "write" /\ InConfigure(thread[t])
      /\ UNCHANGED <<chip, adc, conf, enabled>>
    BY ThreadPc DEF ConfInv, WritePart, ConfigurePcs
<1>0. PartKnown(thread[t])
    BY <1>1 DEF ConfInv, InParts
<1> PICK i \in 1 .. LastPart : i = thread[t].part
    BY <1>0 DEF PartKnown
<1>2. /\ LastPart \in 7 .. 9
      /\ thread[t].alone /\ ~ thread[t].err => \A j \in 1 .. i - 1 : Done(j)
  <2>1. Completed(thread[t]) = 1 .. i - 1
      BY <1>1 DEF Completed
  <2>2. thread[t].alone => PartPending(thread[t])
      BY <1>1 DEF ConfInv, InParts
  <2>3. LastPart \in 7 .. 9
      BY Chip DEF ConfInv, Types
  <2>4. thread[t].alone /\ ~ thread[t].err => \A j \in Completed(thread[t]) : Done(j)
      BY <2>2 DEF PartPending
  <2> QED
      BY <2>1, <2>3, <2>4
<1>3. PICK p \in Outcomes(i, conf) : \E lost :
        LET failed == p.refused \/ ~ lost \subseteq p.unreported
            skipped == failed /\ ~ p.backOnError
        IN  /\ Written(p, lost)
            /\ thread' =
                 [thread EXCEPT ![t] = Continues(
                    With(@, failed, IF skipped THEN <<>> ELSE p.back,
                         IF failed THEN {} ELSE p.enables))]
    BY DEF WritePart
<1>12. PICK lost :
        LET failed == p.refused \/ ~ lost \subseteq p.unreported
            skipped == failed /\ ~ p.backOnError
        IN  /\ Written(p, lost)
            /\ thread' =
                 [thread EXCEPT ![t] = Continues(
                    With(@, failed, IF skipped THEN <<>> ELSE p.back,
                         IF failed THEN {} ELSE p.enables))]
    BY <1>3
<1>4. PartTypes(p, i)
    BY <1>2, <1>3, OutcomeTypes DEF ConfInv, Types
<1> DEFINE failed == p.refused \/ ~ lost \subseteq p.unreported
           back == IF failed /\ ~ p.backOnError THEN <<>> ELSE p.back
           enables == IF failed THEN {} ELSE p.enables
<1>5. /\ thread' = [thread EXCEPT ![t] = Continues(With(thread[t], failed, back, enables))]
      /\ failed \in BOOLEAN
      /\ back = p.back \/ (failed /\ back = <<>>)
      /\ enables \in {{}, EnabledBy[i]}
      /\ ~ failed => /\ lost \subseteq p.unreported /\ ~ p.refused
                     /\ enables = p.enables /\ back = p.back
    BY <1>12, <1>4 DEF PartTypes
<1>6. BackTypes(back, i)
    BY <1>2, <1>4, <1>5, NothingBack DEF PartTypes
<1> HIDE DEF failed, back, enables
<1>7. ~ failed => Holds(p)'
    BY <1>12, <1>5, WrittenHolds
<1>8. p \in Outcomes(i, conf)'
    BY <1>1, <1>3, NextOutcomes
<1>9. ASSUME thread[t].alone, ~ thread[t].err, ~ failed, NEW j \in 1 .. i - 1
      PROVE  Done(j)'
  <2>1. j \in 1 .. LastPart /\ j \in 1 .. 9 /\ i \in 1 .. 9 /\ j # i
      BY <1>2
  <2>2. RegsKept(j)
      BY <1>12, <1>4, <2>1, WrittenHolds DEF PartTypes
  <2>3. Done(j) /\ SameFor(conf, conf, j)
      BY <1>2, <1>9 DEF SameFor
  <2> QED
      BY <1>1, <2>1, <2>2, <2>3, DoneNext DEF ConfInv
<1>10. ASSUME ~ failed, back = <<>> PROVE Applied(i)'
  <2>1. Shows(p, conf)
      BY <1>5, <1>10 DEF Shows
  <2> QED
      BY <1>1, <1>3, <1>7, <1>10, <2>1, AppliedNext
<1>11. ~ failed /\ enables = {} /\ chip = "bq769x2" => EnabledBy[i] \subseteq enabled'
    BY <1>4, <1>5 DEF PartTypes
<1>13. back # <<>> =>
         \E q \in Outcomes(i, conf)' :
           /\ back = q.back
           /\ ~ thread[t].err /\ ~ failed => ~ q.refused /\ Holds(q)' /\ enables = q.enables
    BY <1>5, <1>7, <1>8
<1>14. thread[t].alone /\ ~ thread[t].err /\ ~ failed =>
         /\ \A j \in 1 .. i - 1 : Done(j)'
         /\ back = <<>> =>
              /\ NotNegative /\ i \in Parts => Applied(i)'
              /\ enables = {} /\ chip = "bq769x2" => EnabledBy[i] \subseteq enabled'
    BY <1>9, <1>10, <1>11
<1> QED
    BY <1>1, <1>5, <1>6, <1>13, <1>14, OutcomeParts DEF ConfInv

LEMMA StoreBackParts ==
  ASSUME ConfInv, NEW t \in Ids, StoreBack(t) PROVE InParts'
<1>1. /\ thread[t].pc = "back" /\ InConfigure(thread[t])
      /\ UNCHANGED <<chip, adc, regs, enabled>>
      /\ thread' = [thread EXCEPT ![t] = Continues(With(thread[t], FALSE, <<>>, thread[t].enables))]
    BY ThreadPc DEF ConfInv, StoreBack, ConfigurePcs, ic
<1>2. PartKnown(thread[t]) /\ (thread[t].alone => PartPending(thread[t]))
    BY <1>1 DEF ConfInv, InParts
<1> PICK i \in 1 .. LastPart : i = thread[t].part
    BY <1>2 DEF PartKnown
<1> PICK back : back = thread[t].back
    OBVIOUS
<1> DEFINE enables == thread[t].enables
<1> DEFINE d == Overlaid(conf, back)
<1>3. /\ i \in 1 .. 9 /\ LastPart \in 7 .. 9
      /\ BackTypes(back, i) /\ enables \in {{}, EnabledBy[i]}
    BY <1>2, Chip DEF PartKnown, ConfInv, Types
<1>4. /\ conf' = d
      /\ \A item \in DOMAIN back : d[item] = back[item]
      /\ \A item \in Items \ DOMAIN back : d[item] = conf[item]
    BY DEF StoreBack, Overlaid, ConfInv, Types, ConfTypes
<1>5. DOMAIN back \subseteq PartItems[i]
    BY <1>3 DEF BackTypes
<1>6. \A j \in 1 .. 9 : Reads[j] \subseteq Items
    BY ItemsOfParts DEF Reads, PartItems
<1> HIDE DEF d
<1>7. ASSUME thread[t].alone, ~ thread[t].err, NEW j \in 1 .. i - 1
      PROVE  Done(j)'
  <2>1. j \in 1 .. LastPart /\ j \in 1 .. 9 /\ j < i
      BY <1>3
  <2>2. Done(j)
    <3>1. j \in Completed(thread[t])
        BY <1>1, <1>3, <1>7 DEF Completed
    <3> QED
        BY <1>2, <1>7, <3>1 DEF PartPending
  <2>3. SameFor(d, conf, j)
      BY <1>3, <1>4, <1>5, <1>6, <2>1, ReadsOfParts DEF SameFor
  <2>4. RegsKept(j)
      BY <1>1 DEF RegsKept
  <2> QED
      BY <1>1, <1>4, <2>1, <2>2, <2>3, <2>4, DoneNext DEF ConfInv
<1>8. ASSUME thread[t].alone, ~ thread[t].err
      PROVE  /\ NotNegative /\ i \in Parts => Applied(i)'
             /\ chip = "bq769x2" => enables = EnabledBy[i]
  <2>1. PICK p \in Outcomes(i, conf) :
          back = p.back /\ ~ p.refused /\ Holds(p) /\ enables = p.enables
      BY <1>1, <1>2, <1>8 DEF PartPending
  <2>2. Becomes(conf, d, p, i)
      BY <1>3, <1>4, <1>6, <2>1 DEF Becomes
  <2>3. Holds(p)'
      BY <1>1, <2>1 DEF Holds
  <2>4. Shows(p, d)
      BY <1>4, <2>1 DEF Shows
  <2>5. ASSUME NotNegative, i \in Parts PROVE Applied(i)'
    <3>1. Settles(p, d, i)
        BY <2>1, <2>2, <2>5, Settling DEF ConfInv, Types
    <3>2. CASE p \in Outcomes(i, d)
        BY <1>1, <1>4, <2>3, <2>4, <3>2, AppliedNext
    <3>3. CASE Bq769x2!Refused(Bq769x2!Nothing) \in Outcomes(i, d)
      <4> DEFINE none == Bq769x2!Refused(Bq769x2!Nothing)
      <4>1. none.writes = <<>> /\ none.back = <<>>
          BY DEF Bq769x2!Refused, Bq769x2!Nothing, Bq769x2!Part
      <4>2. DOMAIN none.writes = {} /\ DOMAIN none.back = {}
          BY <4>1
      <4> HIDE DEF none
      <4>3. Shows(none, d)
          BY <4>2 DEF Shows
      <4>4. Holds(none)'
          BY <4>2 DEF Holds
      <4> QED
          BY <1>1, <1>4, <3>3, <4>3, <4>4, AppliedNext DEF none
    <3> QED
        BY <3>1, <3>2, <3>3 DEF Settles
  <2>6. PartTypes(p, i)
      BY <2>1, OutcomeTypes DEF ConfInv, Types
  <2> QED
      BY <2>1, <2>5, <2>6 DEF PartTypes
<1>9. BackTypes(<<>>, i)
    BY <1>3, NothingBack
<1>10. thread[t].alone /\ ~ thread[t].err /\ ~ FALSE =>
         /\ \A j \in 1 .. i - 1 : Done(j)'
         /\ <<>> = <<>> =>
              /\ NotNegative /\ i \in Parts => Applied(i)'
              /\ enables = {} /\ chip = "bq769x2" => EnabledBy[i] \subseteq enabled'
    BY <1>7, <1>8
<1> QED
    BY <1>1, <1>3, <1>9, <1>10, OutcomeParts DEF ConfInv

LEMMA ReadEnabledParts ==
  ASSUME ConfInv, NEW t \in Ids, ReadEnabled(t) PROVE InParts'
<1>1. /\ thread[t].pc = "read" /\ InConfigure(thread[t])
      /\ UNCHANGED <<chip, adc, conf, regs, enabled>>
    BY ThreadPc DEF ConfInv, ReadEnabled, ConfigurePcs, ic
<1>2. PartKnown(thread[t]) /\ (thread[t].alone => PartPending(thread[t]))
    BY <1>1 DEF ConfInv, InParts
<1> PICK i \in 1 .. LastPart : i = thread[t].part
    BY <1>2 DEF PartKnown
<1>3. i \in 1 .. 9 /\ LastPart \in 7 .. 9
    BY Chip DEF ConfInv, Types
<1> DEFINE register == RegisterOf(thread[t].enables)
           s == enabled \intersect register
<1>4. CASE thread' = [thread EXCEPT ![t].pc = "enable", ![t].seen = s]
  <2> DEFINE x == [thread[t] EXCEPT !.pc = "enable", !.seen = s]
  <2>1. /\ thread'[t] = x /\ thread'[Other(t)] = thread[Other(t)] /\ Busy(t)
        /\ LastPart' = LastPart /\ Parts' = Parts
      BY <1>1, <1>4, Others DEF ConfInv, UpdateInv, Threads, Busy, LastPart, Parts
  <2>2. /\ x.pc = "enable" /\ x.seen = s /\ x.alone = thread[t].alone
        /\ x.part = i /\ x.back = thread[t].back /\ x.err = thread[t].err
        /\ x.enables = thread[t].enables
      BY <1>1 DEF InConfigure, Fields
  <2> HIDE DEF x
  <2>3. PartKnown(x)
    <3>1. x.enables \in {{}, EnabledBy[i]} /\ x.enables # {}
        BY <1>1, <1>2, <2>2 DEF PartKnown
    <3>2. s \subseteq register /\ {"COV", "SCD"} \intersect register \subseteq s
        BY DEF ConfInv, Types
    <3> QED
        BY <1>2, <2>2, <3>1, <3>2 DEF PartKnown
  <2>4. ASSUME thread[t].alone, ~ thread[t].err
        PROVE  /\ \A j \in 1 .. i - 1 : Done(j)'
               /\ thread[t].enables = EnabledBy[i]
               /\ NotNegative /\ i \in Parts => Applied(i)'
    <3>1. /\ \A j \in Completed(thread[t]) : Done(j)
          /\ thread[t].enables = EnabledBy[i]
          /\ NotNegative /\ i \in Parts => Applied(i)
        BY <1>1, <1>2, <2>4 DEF PartPending
    <3>2. Completed(thread[t]) = 1 .. i - 1
        BY <1>1 DEF Completed
    <3>3. \A j \in 1 .. i - 1 : j \in 1 .. LastPart
        BY <1>3
    <3>4. \A j \in 1 .. i - 1 : Done(j)'
        BY <1>1, <3>1, <3>2, <3>3, DoneKept DEF ConfInv
    <3> QED
        BY <1>1, <3>1, <3>4, AppliedKept
  <2>5. thread[t].alone => PartPending(thread[t])'
    <3>1. Completed(thread[t])' = 1 .. i - 1
        BY <2>1, <2>2 DEF Completed
    <3> QED
        BY <1>1, <2>1, <2>2, <2>4, <3>1 DEF PartPending
  <2> QED
      BY <1>1, <2>1, <2>2, <2>3, <2>5, InPartsStep DEF ConfInv
<1>5. CASE thread' = [thread EXCEPT ![t] = Continues(With(@, TRUE, <<>>, {}))]
  <2>1. BackTypes(<<>>, i)
      BY <1>3, NothingBack
  <2> QED
      BY <1>1, <1>5, <2>1, OutcomeParts DEF ConfInv
<1> QED
    BY <1>4, <1>5 DEF ReadEnabled

LEMMA WriteEnabledParts ==
  ASSUME ConfInv, NEW t \in Ids, WriteEnabled(t) PROVE InParts'
<1> DEFINE th == thread[t]
           register == RegisterOf(th.enables)
<1>1. /\ thread[t].pc = "enable" /\ InConfigure(thread[t])
      /\ UNCHANGED <<chip, adc, conf, regs>>
    BY ThreadPc DEF ConfInv, WriteEnabled, ConfigurePcs
<1>2. PartKnown(thread[t]) /\ (thread[t].alone => PartPending(thread[t]))
    BY <1>1 DEF ConfInv, InParts
<1> PICK i \in 1 .. LastPart : i = thread[t].part
    BY <1>2 DEF PartKnown
<1>3. i \in 1 .. 9 /\ LastPart \in 7 .. 9 /\ BackTypes(<<>>, i)
    BY Chip, NothingBack DEF ConfInv, Types
<1>4. PICK ok \in BOOLEAN :
        /\ enabled' = IF ok THEN (enabled \ register) \union th.seen \union th.enables
                      ELSE enabled
        /\ thread' = [thread EXCEPT ![t] = Continues(With(@, ~ ok, <<>>, {}))]
    BY DEF WriteEnabled
<1>5. ASSUME thread[t].alone, ~ thread[t].err, ok
      PROVE  /\ \A j \in 1 .. i - 1 : Done(j)'
             /\ NotNegative /\ i \in Parts => Applied(i)'
             /\ EnabledBy[i] \subseteq enabled'
  <2>1. /\ \A j \in Completed(thread[t]) : Done(j)
        /\ th.enables = EnabledBy[i]
        /\ NotNegative /\ i \in Parts => Applied(i)
        /\ th.seen = enabled \intersect register
      BY <1>1, <1>2, <1>5 DEF PartPending
  <2>2. enabled \subseteq enabled' /\ EnabledBy[i] \subseteq enabled'
      BY <1>4, <1>5, <2>1
  <2>3. Completed(thread[t]) = 1 .. i - 1
      BY <1>1 DEF Completed
  <2>4. \A j \in 1 .. i - 1 : j \in 1 .. LastPart
      BY <1>3
  <2>5. \A j \in 1 .. i - 1 : Done(j)'
      BY <1>1, <2>1, <2>2, <2>3, <2>4, DoneKept DEF ConfInv
  <2> QED
      BY <1>1, <2>1, <2>2, <2>5, AppliedKept
<1>6. thread[t].alone /\ ~ thread[t].err /\ ~ ~ ok =>
         /\ \A j \in 1 .. i - 1 : Done(j)'
         /\ <<>> = <<>> =>
              /\ NotNegative /\ i \in Parts => Applied(i)'
              /\ {} = {} /\ chip = "bq769x2" => EnabledBy[i] \subseteq enabled'
    BY <1>5
<1> QED
    BY <1>1, <1>3, <1>4, <1>6, OutcomeParts DEF ConfInv

LEMMA FinishParts ==
  ASSUME ConfInv, NEW t \in Ids, Finish(t) PROVE InParts'
<1>1. /\ thread[t].pc = "finish" /\ InConfigure(thread[t])
      /\ chip' = chip /\ thread'[t] = Idle /\ thread'[Other(t)] = thread[Other(t)]
      /\ Busy(t)
    BY ThreadPc, Others DEF ConfInv, Finish, ConfigurePcs, ic, UpdateInv, Threads, Busy
<1>2. ~ InConfigure(thread'[t])
    BY <1>1 DEF Idle, InConfigure, ConfigurePcs
<1> QED
    BY <1>1, <1>2, InPartsStep DEF ConfInv

\* A thread enters configure().
LEMMA EnteringParts ==
  ASSUME ConfInv, chip' = chip, NEW t \in Ids, NEW preset, Enters(t, preset)
  PROVE  InParts'
<1> DEFINE y == thread[Other(t)]
           z == thread'[t]
<1>1. /\ z = [pc |-> IF chip = "bq769x2" THEN "enter" ELSE "write",
              part |-> 1, err |-> FALSE, preset |-> preset,
              alone |-> ~ Busy(Other(t)),
              back |-> <<>>, enables |-> {}, seen |-> {}]
      /\ thread'[Other(t)] = IF "alone" \in DOMAIN y THEN [y EXCEPT !.alone = FALSE]
                             ELSE y
    BY Others DEF Enters, ConfInv, UpdateInv, Threads
<1>2. /\ z.pc \in {"enter", "write"} /\ z.part = 1
      /\ z.back = <<>> /\ z.enables = {}
    BY <1>1
<1>3. PartKnown(z)
  <2>1. LastPart \in 7 .. 9
      BY Chip DEF ConfInv, Types
  <2>2. 1 \in 1 .. LastPart /\ BackTypes(<<>>, 1)
      BY <2>1, NothingBack
  <2> HIDE DEF z
  <2> QED
      BY <1>2, <2>2 DEF PartKnown
<1>4. PartPending(thread[t])'
  <2>1. Completed(thread[t])' = {}
      BY <1>2 DEF Completed
  <2> QED
      BY <1>2, <2>1 DEF PartPending
<1>5. InConfigure(thread'[Other(t)]) =>
        PartKnown(thread'[Other(t)]) /\ ~ thread'[Other(t)].alone
  <2>1. CASE InConfigure(y)
    <3>1. thread'[Other(t)] = [y EXCEPT !.alone = FALSE]
        BY <1>1, <2>1 DEF InConfigure, Fields
    <3>2. PartKnown(y)
        BY <2>1, Others DEF ConfInv, InParts
    <3> DEFINE v == thread'[Other(t)]
    <3>3. /\ v.pc = y.pc /\ v.part = y.part /\ v.back = y.back
          /\ v.enables = y.enables /\ v.seen = y.seen /\ v.alone = FALSE
        BY <2>1, <3>1 DEF InConfigure, Fields
    <3> HIDE DEF v, y
    <3> QED
        BY <3>2, <3>3 DEF PartKnown, v
  <2>2. CASE Outside(y)
    <3>1. "alone" \notin DOMAIN y
        BY <2>2 DEF Outside, Idle, Booting
    <3>2. thread'[Other(t)] = y /\ y.pc \notin ConfigurePcs
        BY <1>1, <2>2, <3>1, PcsOutside
    <3> QED
        BY <3>2 DEF InConfigure
  <2> QED
      BY <2>1, <2>2, Others DEF ConfInv, UpdateInv, Threads
<1>6. ASSUME NEW u \in Ids, InConfigure(thread'[u])
      PROVE  /\ PartKnown(thread'[u])
             /\ thread'[u].alone => PartPending(thread[u])'
  <2>1. CASE u = t
      BY <1>3, <1>4, <2>1
  <2>2. CASE u = Other(t)
      BY <1>5, <1>6, <2>2
  <2> QED
      BY <2>1, <2>2, Others
<1> QED
    BY <1>6, NextThread, NextPart DEF InParts

LEMMA ActivateParts == ASSUME ConfInv, Activate PROVE InParts'
<1>0. "Main" \in Ids /\ thread.Main = thread["Main"] /\ chip' = chip
    BY DEF Ids, Activate, ActivateBq769x0, ActivateIsl94202, ActivateBq769x2, InitConfig,
           LeaveInit
<1>1. CASE Enters("Main", FALSE)
    BY <1>0, <1>1, EnteringParts
<1>2. CASE ActivateBq769x2 \/ (InitConfig /\ Goes("Main", "initialised"))
  <2>1. thread["Main"].pc \in {"activate", "init"} /\ Busy("Main")
      BY <1>0, <1>2 DEF ActivateBq769x2, InitConfig, Busy
  <2>2. /\ thread'["Main"].pc \in {"init", "initialised"}
        /\ thread'[Other("Main")] = thread[Other("Main")]
    <3>1. CASE ActivateBq769x2
      <4> DEFINE x == [pc |-> "init", err |-> FALSE]
      <4>1. thread' = [thread EXCEPT !["Main"] = x] /\ x.pc = "init"
          BY <3>1 DEF ActivateBq769x2
      <4> HIDE DEF x
      <4> QED
          BY <1>0, <4>1, Others DEF ConfInv, UpdateInv, Threads
    <3>2. CASE InitConfig /\ Goes("Main", "initialised")
      <4> DEFINE x == [thread["Main"] EXCEPT !.pc = "initialised"]
      <4>1. thread' = [thread EXCEPT !["Main"] = x]
          BY <3>2 DEF Goes
      <4>2. x.pc = "initialised"
        <5>1. /\ thread["Main"].pc = "init"
              /\ InConfigure(thread["Main"]) \/ Outside(thread["Main"])
            BY <1>0, <3>2 DEF InitConfig, ConfInv, UpdateInv, Threads
        <5>2. DOMAIN thread["Main"] = {"pc", "err"}
            BY <1>0, <3>2, <5>1 DEF InitConfig, Outside, InConfigure, ConfigurePcs, Idle, Booting
        <5> QED
            BY <5>2
      <4> HIDE DEF x
      <4> QED
          BY <1>0, <4>1, <4>2, Others DEF ConfInv, UpdateInv, Threads
    <3> QED
        BY <1>2, <3>1, <3>2
  <2>3. ~ InConfigure(thread'["Main"])
      BY <2>2 DEF InConfigure, ConfigurePcs
  <2> QED
      BY <1>0, <2>1, <2>2, <2>3, InPartsStep DEF ConfInv
<1> QED
    BY <1>1, <1>2 DEF Activate, ActivateBq769x0, ActivateIsl94202, InitConfig, LeaveInit

--------------------------------------------------------------------------
(***************************************************************************)
(* A configuration that counts as successful.                              *)
(***************************************************************************)
\* As long as it does, nothing it depends on changes.
LEMMA SettledEnds ==
  ASSUME ConfInv,
         Activate \/ (\E t \in Ids : Configure(t) /\ ~ Finish(t))
           \/ WriteItem \/ Preset \/ Restart
  PROVE  ~ Settled'
<1>1. CASE WriteItem \/ Preset \/ Restart
  <2>1. settled' = "none"
      BY <1>1 DEF WriteItem, Preset, Restart, Enters
  <2> QED
      BY <2>1 DEF Settled
<1>2. CASE Activate \/ \E t \in Ids : Configure(t) /\ ~ Finish(t)
  <2>1. \E t \in Ids : thread[t].pc # "idle"
    <3>1. CASE Activate
        BY <3>1 DEF Activate, ActivateBq769x0, ActivateIsl94202, ActivateBq769x2,
                    InitConfig, LeaveInit, Ids
    <3>2. ASSUME NEW t \in Ids, Configure(t) /\ ~ Finish(t) PROVE thread[t].pc # "idle"
        BY <3>2 DEF Configure, EnterUpdateMode, WritePart, StoreBack, ReadEnabled,
                    WriteEnabled, LeaveUpdateMode
    <3> QED
        BY <1>2, <3>1, <3>2
  <2>2. settled = "none"
      BY <2>1 DEF ConfInv, UpdateInv, Rest, Settled, Busy
  <2>3. settled' \in {"none", settled}
    <3>1. CASE Activate
        BY <3>1 DEF Activate, ActivateBq769x0, ActivateIsl94202, ActivateBq769x2,
                    InitConfig, LeaveInit, Enters
    <3>2. ASSUME NEW t \in Ids, Configure(t) /\ ~ Finish(t) PROVE settled' = settled
        BY <3>2 DEF Configure, EnterUpdateMode, WritePart, StoreBack, ReadEnabled,
                    WriteEnabled, LeaveUpdateMode
    <3> QED
        BY <1>2, <3>1, <3>2
  <2> QED
      BY <2>2, <2>3 DEF Settled
<1> QED
    BY <1>1, <1>2

LEMMA EndedKeeps == ASSUME ~ Settled' PROVE SettledDone' /\ SavedIsStored'
  BY DEF Settled, SettledDone, SavedIsStored

LEMMA FinishSettles ==
  ASSUME ConfInv, NEW t \in Ids, Finish(t) PROVE SettledDone' /\ SavedIsStored'
<1>1. /\ thread[t].pc = "finish" /\ InConfigure(thread[t])
      /\ UNCHANGED <<chip, adc, conf, regs, enabled>>
      /\ settled' = IF thread[t].alone /\ ~ thread[t].err THEN t ELSE "none"
      /\ queued' = (queued \/ (t = "ThingSet" /\ (thread[t].preset => ~ thread[t].err)))
      /\ LastPart' = LastPart
    BY ThreadPc DEF ConfInv, Finish, ConfigurePcs, ic, LastPart
<1>2. CASE thread[t].alone /\ ~ thread[t].err
  <2>1. \A i \in Completed(thread[t]) : Done(i)
      BY <1>1, <1>2 DEF ConfInv, InParts, PartPending
  <2>2. Completed(thread[t]) = 1 .. LastPart
      BY <1>1 DEF Completed
  <2>3. \A i \in 1 .. LastPart : Done(i)'
      BY <1>1, <2>1, <2>2, DoneKept DEF ConfInv
  <2>4. settled' = "ThingSet" => queued'
      BY <1>1, <1>2
  <2> QED
      BY <1>1, <2>3, <2>4 DEF SettledDone, SavedIsStored
<1>3. CASE ~ (thread[t].alone /\ ~ thread[t].err)
  <2>1. ~ Settled'
      BY <1>1, <1>3 DEF Settled
  <2> QED
      BY <2>1, EndedKeeps
<1> QED
    BY <1>2, <1>3

LEMMA SaveSettles ==
  ASSUME ConfInv, Save \/ UNCHANGED vars PROVE SettledDone' /\ SavedIsStored'
<1>1. /\ UNCHANGED <<chip, adc, conf, regs, enabled, settled>>
      /\ LastPart' = LastPart /\ Settled' = Settled
    BY DEF Save, vars, ic, LastPart, Settled
<1>2. SettledDone'
    BY <1>1, DoneKept DEF ConfInv, SettledDone
<1>3. ~ queued' => stored' = Saved(conf) \/ (~ queued /\ stored' = stored)
    BY DEF Save, vars
<1>4. Saved(conf)' = Saved(conf)
    BY <1>1 DEF Saved
<1> QED
    BY <1>1, <1>2, <1>3, <1>4 DEF ConfInv, SavedIsStored

--------------------------------------------------------------------------
LEMMA ConfInit == Init => ConfInv
<1> SUFFICES ASSUME Init PROVE ConfInv
    OBVIOUS
<1>1. \A t \in Ids : ~ InConfigure(thread[t])
    BY DEF Init, Ids, Idle, Booting, InConfigure, ConfigurePcs
<1>2. settled = "none"
    BY DEF Init
<1> QED
    BY <1>1, <1>2, UpdateInit, InitTypes
       DEF ConfInv, InParts, SettledDone, SavedIsStored, Settled

LEMMA ConfNext == ConfInv /\ [Next]_vars => ConfInv'
<1> SUFFICES ASSUME ConfInv, [Next]_vars PROVE ConfInv'
    OBVIOUS
<1>0. UpdateInv'
    BY UpdateNext DEF ConfInv
<1>1. CASE Activate
    BY <1>0, <1>1, ActivateTypes, ActivateParts, SettledEnds, EndedKeeps DEF ConfInv
<1>2. ASSUME NEW t \in Ids, Configure(t) PROVE ConfInv'
  <2>1. CASE EnterUpdateMode(t) \/ WritePart(t) \/ ReadEnabled(t) \/ LeaveUpdateMode(t)
    <3>1. Types'
        BY <2>1, ConfigureTypes DEF ConfInv
    <3>2. InParts'
        BY <2>1, EnterUpdateModeParts, WritePartParts, ReadEnabledParts,
           LeaveUpdateModeParts
    <3>3. ~ Finish(t)
        BY <2>1 DEF EnterUpdateMode, WritePart, ReadEnabled, LeaveUpdateMode, Finish
    <3> QED
        BY <1>0, <1>2, <3>1, <3>2, <3>3, SettledEnds, EndedKeeps DEF ConfInv
  <2>2. CASE StoreBack(t) \/ WriteEnabled(t)
    <3>1. PartKnown(thread[t])
      <4>1. InConfigure(thread[t])
          BY <2>2, ThreadPc DEF StoreBack, WriteEnabled, ConfInv, ConfigurePcs
      <4> QED
          BY <4>1 DEF ConfInv, InParts
    <3>2. Types'
        BY <2>2, <3>1, StoreBackTypes, WriteEnabledTypes DEF ConfInv
    <3>3. InParts'
        BY <2>2, StoreBackParts, WriteEnabledParts
    <3>4. ~ Finish(t)
        BY <2>2 DEF StoreBack, WriteEnabled, Finish
    <3> QED
        BY <1>0, <1>2, <3>2, <3>3, <3>4, SettledEnds, EndedKeeps DEF ConfInv
  <2>3. CASE Finish(t)
      BY <1>0, <2>3, FinishTypes, FinishParts, FinishSettles DEF ConfInv
  <2> QED
      BY <1>2, <2>1, <2>2, <2>3 DEF Configure
<1>3. CASE WriteItem \/ Preset
  <2>1. InParts'
    <3>1. "ThingSet" \in Ids /\ chip' = chip
        BY <1>3 DEF Ids, WriteItem, Preset, Request
    <3>2. \E preset : Enters("ThingSet", preset)
        BY <1>3 DEF WriteItem, Preset
    <3> QED
        BY <3>1, <3>2, EnteringParts
  <2> QED
      BY <1>0, <1>3, <2>1, RequestTypes, SettledEnds, EndedKeeps DEF ConfInv
<1>4. CASE Restart
  <2>1. \A t \in Ids : ~ InConfigure(thread'[t])
      BY <1>4 DEF Restart, Ids, Idle, Booting, InConfigure, ConfigurePcs
  <2>2. InParts'
      BY <1>4, <2>1, NextThread DEF InParts, Restart
  <2> QED
      BY <1>0, <1>4, <2>2, RestartTypes, SettledEnds, EndedKeeps DEF ConfInv
<1>5. CASE Save \/ UNCHANGED vars
  <2>1. UNCHANGED <<chip, adc, conf, regs, enabled, thread>>
      BY <1>5 DEF Save, vars, ic
  <2>2. Types'
    <3>1. CASE Save
        BY <3>1, SaveTypes DEF ConfInv
    <3>2. CASE UNCHANGED vars
        BY <3>2, KeptTypes DEF ConfInv, Types, vars
    <3> QED
        BY <1>5, <3>1, <3>2
  <2>3. InParts'
    <3>1. ASSUME NEW t \in Ids, InConfigure(thread[t]), thread[t].alone
          PROVE  PartPending(thread[t])'
      <4>1. PartPending(thread[t])
          BY <3>1 DEF ConfInv, InParts
      <4>2. Outcomes(thread[t].part, conf)' = Outcomes(thread[t].part, conf)
          BY <2>1 DEF Outcomes, Bq769x0Outcomes, Bq769x2Outcome, Isl94202Outcome
      <4>3. Completed(thread[t])' = Completed(thread[t]) /\ Parts' = Parts
          BY <2>1 DEF Completed, LastPart, Parts
      <4>4. Applied(thread[t].part) => Applied(thread[t].part)'
          BY <2>1, <4>2 DEF Applied, Holds, Shows
      <4>5. \A i \in 1 .. LastPart : Done(i) => Done(i)'
          BY <2>1, DoneKept DEF ConfInv
      <4>6. Completed(thread[t]) \subseteq 1 .. LastPart
          BY <3>1, Chip DEF Completed, ConfInv, InParts, PartKnown, Types
      <4> QED
          BY <2>1, <4>1, <4>2, <4>3, <4>4, <4>5, <4>6 DEF PartPending, Holds
    <3> QED
        BY <2>1, <3>1, NextThread, NextPart DEF ConfInv, InParts
  <2> QED
      BY <1>0, <1>5, <2>2, <2>3, SaveSettles DEF ConfInv
<1> QED
    BY <1>1, <1>2, <1>3, <1>4, <1>5 DEF Next, Ids

--------------------------------------------------------------------------
(***************************************************************************)
(* What the properties say in terms of the invariant.                      *)
(***************************************************************************)
LEMMA ConfTyped == ConfInv => TypeOK
<1> SUFFICES ASSUME ConfInv PROVE TypeOK
    OBVIOUS
<1>1. Counted = Items \ Volatile /\ DOMAIN Defaults = Items
    BY DefaultTypes, ConfigurationAssumption DEF Counted, Defaults, ConfTypes
<1>2. DOMAIN conf = DOMAIN Defaults /\ DOMAIN asked = DOMAIN Defaults
    BY <1>1 DEF ConfInv, Types, ConfTypes
<1>3. \A item \in Counted : conf[item] \in Int /\ asked[item] \in Int
    BY <1>1, TypedNumbers DEF ConfInv, Types, ConfTypes
<1>4. DOMAIN stored \in {{}, Counted}
  <2>1. stored = <<>> => DOMAIN stored = {}
      OBVIOUS
  <2> QED
      BY <1>1, <2>1 DEF ConfInv, Types, StoredTypes
<1>5. update \in BOOLEAN
    BY DEF ConfInv, UpdateInv, Threads
<1> QED
    BY <1>2, <1>3, <1>4, <1>5 DEF ConfInv, Types, TypeOK, Ids

LEMMA SettledProtected == ConfInv => AllProtected
<1> SUFFICES ASSUME ConfInv, Settled, chip = "bq769x2" PROVE enabled = UNION Registers
    BY DEF AllProtected
<1>1. \A i \in 1 .. 9 : EnabledBy[i] \subseteq enabled
    BY Chip DEF ConfInv, Types, SettledDone, Done
<1>2. {"CUV", "OTC", "OTD", "UTC", "UTD", "OCC", "OCD1"} \subseteq enabled
    BY <1>1, EnabledByAre
<1> QED
    BY <1>2 DEF ConfInv, Types, Registers

LEMMA SettledApplied ==
  ASSUME NotNegative, ConfInv, Settled, NEW i \in Parts
  PROVE  Applied(i)
<1>1. i \in 1 .. LastPart
    BY Chip DEF Parts, ConfInv, Types
<1> QED
    BY <1>1 DEF ConfInv, SettledDone, Done

LEMMA SettledShown == NotNegative => (ConfInv => AppliedIsShown)
<1> SUFFICES ASSUME NotNegative, ConfInv, Settled
             PROVE  InRegisters(conf) /\ ShowsApplied(conf)
    BY DEF AppliedIsShown
<1> QED
    BY SettledApplied DEF Applied, Holds, Shows, InRegisters, ShowsApplied

\* What is loaded differs from what was saved in the alerts of the bq769x2
\* that it cannot signal anyway.
LEMMA LoadedAsSaved ==
  ASSUME Types, stored = Saved(conf)
  PROVE  /\ \A item \in Items \ {"alert_mask"} : Loaded[item] = conf[item]
         /\ Loaded.alert_mask = Errors
<1>1. ConfTypes(Defaults)
    BY DefaultTypes, ConfigurationAssumption DEF Defaults
<1>2. DOMAIN stored = Items \ Volatile /\ \A item \in Items \ Volatile : stored[item] = conf[item]
    BY DEF Saved, Types, ConfTypes
<1>3. \A item \in Items :
        Loaded[item] = IF item \in DOMAIN stored THEN stored[item] ELSE Defaults[item]
    BY <1>1, <1>2 DEF Loaded, Overlaid, ConfTypes
<1>4. \A item \in {"auto_balancing", "vregs_enable"} : Defaults[item] = conf[item]
    BY <1>1 DEF Types, ConfTypes, Typed, Items, Limits
<1>5. Defaults.alert_mask = Errors
    BY DEF Defaults, bms_init_config
<1>6. Volatile = {"auto_balancing", "vregs_enable", "alert_mask"} /\ Volatile \subseteq Items
    BY DEF Volatile, Items
<1> QED
    BY <1>2, <1>3, <1>4, <1>5, <1>6

LEMMA SettledStored == NotNegative => (ConfInv => StoredIsApplied)
<1> SUFFICES ASSUME NotNegative, ConfInv, settled = "ThingSet", ~ queued, NEW i \in Parts
             PROVE  \E p \in Outcomes(i, Loaded) : Holds(p)
    BY DEF StoredIsApplied, InRegisters, Holds
<1>1. Types /\ stored = Saved(conf) /\ i \in 1 .. LastPart /\ i \in 1 .. 9
    BY Chip DEF ConfInv, SavedIsStored, Parts, Types
<1>2. PICK p \in Outcomes(i, conf) : Holds(p)
    BY SettledApplied DEF Settled, Applied
<1>3. CASE i # 8
  <2>1. "alert_mask" \notin Reads[i] /\ Reads[i] \subseteq Items
      BY <1>1, <1>3, ItemsOfParts DEF Reads, PartItems
  <2>2. SameFor(Loaded, conf, i)
      BY <1>1, <2>1, LoadedAsSaved DEF SameFor
  <2> QED
      BY <1>1, <1>2, <2>2, SameOutcomes DEF Types
<1>4. CASE i = 8 /\ chip = "bq769x2"
  <2>1. Loaded.alert_mask = Errors /\ conf.alert_mask \in {Errors, AlertsShown}
      BY <1>1, <1>4, LoadedAsSaved DEF Types, ConfTypes, Typed, Items, Limits
  <2>2. /\ Loaded.alert_mask \intersect Bq769x2!AlertsA = conf.alert_mask \intersect Bq769x2!AlertsA
        /\ Loaded.alert_mask \intersect Bq769x2!AlertsB = conf.alert_mask \intersect Bq769x2!AlertsB
      BY <2>1 DEF AlertsShown
  <2> DEFINE q == Bq769x2!Alerts(Loaded)
  <2>3. q.writes = Bq769x2!Alerts(conf).writes /\ q.unreported = {}
        /\ Bq769x2!Alerts(conf).unreported = {}
      BY <2>2, Zenon DEF Bq769x2!Alerts, Bq769x2!Part
  <2> HIDE DEF q
  <2>4. p = Bq769x2!Alerts(conf) /\ q \in Outcomes(i, Loaded)
      BY <1>2, <1>4, PartsOf2 DEF q
  <2>5. Holds(q)
      BY <1>2, <2>3, <2>4 DEF Holds
  <2> QED
      BY <2>4, <2>5
<1>5. CASE i = 8 /\ chip # "bq769x2"
  <2>1. conf.alert_mask = Errors
      BY <1>1, <1>5 DEF Types, ConfTypes, Typed, Items, Limits
  <2>2. Reads[8] = {"alert_mask"}
      BY DEF Reads, PartItems
  <2>3. SameFor(Loaded, conf, i)
      BY <1>1, <1>5, <2>1, <2>2, LoadedAsSaved DEF SameFor
  <2> QED
      BY <1>1, <1>2, <2>3, SameOutcomes DEF Types
<1> QED
    BY <1>3, <1>4, <1>5

--------------------------------------------------------------------------
\* The configuration, the storage and the protections keep their types; the
\* items that are counted stay integers.
THEOREM ConfigurationTypes == Spec => []TypeOK
BY ConfInit, ConfNext, ConfTyped, PTL DEF Spec

\* After a successful configure() that no other disturbed all protections of
\* the bq769x2 are enabled.
THEOREM Protected == Spec => []AllProtected
BY ConfInit, ConfNext, SettledProtected, PTL DEF Spec

\* After a successful configure() the configuration that ThingSet shows is
\* the one in the registers, and applying it again would not change it.
THEOREM ShownAsApplied ==
  ASSUME NotNegative
  PROVE  Spec => []AppliedIsShown
<1>1. ConfInv => AppliedIsShown
    BY SettledShown
<1> QED
    BY <1>1, ConfInit, ConfNext, PTL DEF Spec

\* What is stored leads to the registers that the last successful request
\* has left.
THEOREM StoredAsApplied ==
  ASSUME NotNegative
  PROVE  Spec => []StoredIsApplied
<1>1. ConfInv => StoredIsApplied
    BY SettledStored
<1> QED
    BY <1>1, ConfInit, ConfNext, PTL DEF Spec

--------------------------------------------------------------------------
(***************************************************************************)
(* Current limits: what the drivers make of one that was asked for.        *)
(***************************************************************************)
\* The limit that a driver makes of another is one of its settings, and not
\* above the other but for half a step or the lowest setting.
RoundsDown(item, limit) ==
  /\ Setting(item, Setting(item, limit)) = Setting(item, limit)
  /\ \/ Setting(item, limit) <= limit + Rounding
     \/ Setting(item, limit) = Setting(item, 0)

LEMMA EntryBound ==
  ASSUME NEW n, NEW table, Rising(table, n), table[1] \in Nat, 0 < table[1],
         NEW v \in Nat
  PROVE  /\ table[ChosenEntry(table, v)] \in Nat
         /\ table[ChosenEntry(table, v)] <= v \/ ChosenEntry(table, v) = ChosenEntry(table, 0)
<1> DEFINE k == ChosenEntry(table, v)
           l == ChosenEntry(table, 0)
<1>1. /\ k \in 1 .. n /\ (k = 1 \/ table[k] <= v)
      /\ l \in 1 .. n /\ (l = 1 \/ table[l] <= 0)
    BY EntryChosen
<1>2. table[k] \in Nat
    BY EntryType
<1> HIDE DEF k, l
<1>3. l # 1 => table[1] < table[l]
    BY <1>1 DEF Rising
<1>4. table[l] \in Int
    BY <1>1 DEF Rising
<1>5. l = 1
    BY <1>1, <1>3, <1>4
<1> QED
    BY <1>1, <1>2, <1>5 DEF k, l

\* Limits in uV, tables in mV.
LEMMA TableBound ==
  ASSUME NEW n, NEW table, Rising(table, n), table[1] \in Nat, 0 < table[1],
         NEW v \in Nat, NEW limit \in Nat, v <= limit \div 1000
  PROVE  \/ 1000 * table[ChosenEntry(table, v)] <= limit
         \/ ChosenEntry(table, v) = ChosenEntry(table, 0)
<1> DEFINE e == table[ChosenEntry(table, v)]
<1>1. e \in Nat /\ (e <= v \/ ChosenEntry(table, v) = ChosenEntry(table, 0))
    BY EntryBound
<1> HIDE DEF e
<1>2. e <= v => 1000 * e <= limit
    BY <1>1
<1> QED
    BY <1>1, <1>2 DEF e

LEMMA Rounds0 ==
  ASSUME chip = "bq769x0", NEW item \in Limits, NEW limit \in Nat
  PROVE  RoundsDown(item, limit)
<1>0. Rounding = 0 /\ limit \div 1000 \in Nat /\ limit \div 1000 <= limit \div 1000
    BY DEF Rounding
<1>1. CASE item = "chg_oc_limit"
  <2>1. \A n : Setting(item, n) = n
      BY <1>1 DEF Setting
  <2> QED
      BY <1>0, <2>1 DEF RoundsDown
<1>2. CASE item = "dis_oc_limit"
  <2> DEFINE T == Bq769x0!ocd_thresholds
  <2>1. \A n : Setting(item, n) = 1000 * T[ChosenEntry(T, n \div 1000)]
      BY <1>2 DEF Setting
  <2>2. T[1] \in Nat /\ 0 < T[1] /\ Rising(T, 16)
      BY Tables0 DEF Bq769x0!ocd_thresholds
  <2> HIDE DEF T
  <2>3. ChosenEntry(T, (1000 * T[ChosenEntry(T, limit \div 1000)]) \div 1000)
          = ChosenEntry(T, limit \div 1000)
      BY <1>0, <2>2, ChosenAgain
  <2>4. \/ 1000 * T[ChosenEntry(T, limit \div 1000)] <= limit
        \/ ChosenEntry(T, limit \div 1000) = ChosenEntry(T, 0)
      BY <1>0, <2>2, TableBound
  <2>5. 0 \div 1000 = 0
      OBVIOUS
  <2> QED
      BY <1>0, <2>1, <2>3, <2>4, <2>5 DEF RoundsDown
<1>3. CASE item = "dis_sc_limit"
  <2> DEFINE T == Bq769x0!scd_thresholds
  <2>1. \A n : Setting(item, n) = 1000 * T[ChosenEntry(T, n \div 1000)]
      BY <1>3 DEF Setting
  <2>2. T[1] \in Nat /\ 0 < T[1] /\ Rising(T, 8)
      BY Tables0 DEF Bq769x0!scd_thresholds
  <2> HIDE DEF T
  <2>3. ChosenEntry(T, (1000 * T[ChosenEntry(T, limit \div 1000)]) \div 1000)
          = ChosenEntry(T, limit \div 1000)
      BY <1>0, <2>2, ChosenAgain
  <2>4. \/ 1000 * T[ChosenEntry(T, limit \div 1000)] <= limit
        \/ ChosenEntry(T, limit \div 1000) = ChosenEntry(T, 0)
      BY <1>0, <2>2, TableBound
  <2>5. 0 \div 1000 = 0
      OBVIOUS
  <2> QED
      BY <1>0, <2>1, <2>3, <2>4, <2>5 DEF RoundsDown
<1> QED
    BY <1>1, <1>2, <1>3 DEF Limits

\* Half a step of 2 mV at most, if it is not the lowest threshold.
LEMMA OcBound2 ==
  ASSUME NEW n \in Nat, NEW most \in {62, 100}
  PROVE  \/ Bq769x2!oc_threshold(n, most) * Bq769x2!ShuntStep <= n + 1000
         \/ Bq769x2!oc_threshold(n, most) = Bq769x2!oc_threshold(0, most)
<1> DEFINE m == Bq769x2!AtMost(n, BoardMaxCurrent)
           r == Bq769x2!lroundf(m, Bq769x2!ShuntStep)
           t == Bq769x2!oc_threshold(n, most)
<1>1. BoardMaxCurrent \in Nat
    BY ConfigurationAssumption
<1>2. m \in Nat /\ m <= n
    BY <1>1 DEF Bq769x2!AtMost
<1>3. r = (2 * m + 2000) \div 4000
  <2> HIDE DEF m
  <2> QED
      BY <1>2 DEF Bq769x2!lroundf, Bq769x2!ShuntStep
<1>4. t = Bq769x2!CLAMP(Bq769x2!U8(r), 2, most)
    BY DEF Bq769x2!oc_threshold
<1> HIDE DEF m, r
<1>5. r \in Nat /\ r * 2000 <= m + 1000
    BY <1>2, <1>3
<1>6. Bq769x2!U8(r) \in Nat /\ Bq769x2!U8(r) <= r
    BY <1>5 DEF Bq769x2!U8
<1> HIDE DEF t
<1>7. t \in Nat /\ (t = 2 \/ t <= r)
    BY <1>4, <1>5, <1>6 DEF Bq769x2!CLAMP, Bq769x2!AtLeast, Bq769x2!AtMost
<1>8. Bq769x2!oc_threshold(0, most) = 2
  <2>1. Bq769x2!AtMost(0, BoardMaxCurrent) = 0
      BY <1>1 DEF Bq769x2!AtMost
  <2>2. Bq769x2!lroundf(0, Bq769x2!ShuntStep) = 0
      BY DEF Bq769x2!lroundf, Bq769x2!ShuntStep
  <2>3. Bq769x2!CLAMP(Bq769x2!U8(0), 2, most) = 2
      BY DEF Bq769x2!CLAMP, Bq769x2!AtLeast, Bq769x2!AtMost, Bq769x2!U8
  <2> QED
      BY <2>1, <2>2, <2>3 DEF Bq769x2!oc_threshold
<1>9. t <= r => t * 2000 <= n + 1000
    BY <1>2, <1>5, <1>7
<1> QED
    BY <1>7, <1>8, <1>9 DEF t, Bq769x2!ShuntStep

LEMMA Rounds2 ==
  ASSUME chip = "bq769x2", NEW item \in Limits, NEW limit \in Nat
  PROVE  RoundsDown(item, limit)
<1>0. Rounding = 1000
    BY DEF Rounding
<1>1. ASSUME NEW most \in {62, 100},
             \A n : Setting(item, n) = Bq769x2!oc_threshold(n, most) * Bq769x2!ShuntStep
      PROVE  RoundsDown(item, limit)
  <2>1. Bq769x2!oc_threshold(Bq769x2!oc_threshold(limit, most) * Bq769x2!ShuntStep, most)
          = Bq769x2!oc_threshold(limit, most)
      BY OcExact2
  <2>2. \/ Bq769x2!oc_threshold(limit, most) * Bq769x2!ShuntStep <= limit + 1000
        \/ Bq769x2!oc_threshold(limit, most) = Bq769x2!oc_threshold(0, most)
      BY OcBound2
  <2> QED
      BY <1>0, <1>1, <2>1, <2>2 DEF RoundsDown
<1>2. CASE item = "chg_oc_limit"
  <2>1. \A n : Setting(item, n) = Bq769x2!oc_threshold(n, 62) * Bq769x2!ShuntStep
      BY <1>2 DEF Setting
  <2> QED
      BY <1>1, <2>1
<1>3. CASE item = "dis_oc_limit"
  <2>1. \A n : Setting(item, n) = Bq769x2!oc_threshold(n, 100) * Bq769x2!ShuntStep
      BY <1>3 DEF Setting
  <2> QED
      BY <1>1, <2>1
<1>4. CASE item = "dis_sc_limit"
  <2> DEFINE T == Bq769x2!scd_thresholds
             v == Bq769x2!U16(limit \div 1000)
  <2>1. \A n : Setting(item, n) = T[ScEntry2(n)] * 1000
      BY <1>4 DEF Setting
  <2>2. T[1] \in Nat /\ 0 < T[1] /\ Rising(T, 16)
      BY RisingTables DEF Bq769x2!scd_thresholds
  <2>3. ScEntry2(limit) \in 1 .. 16
      BY Sc2
  <2>4. ScEntry2(T[ScEntry2(limit)] * 1000) = ScEntry2(limit)
      BY <2>3, ScExact2
  <2>5. v \in Nat /\ v <= limit \div 1000
    <3>1. \A n \in Nat : Bq769x2!U16(n) \in Nat /\ Bq769x2!U16(n) <= n
        BY DEF Bq769x2!U16
    <3>2. limit \div 1000 \in Nat
        OBVIOUS
    <3> QED
        BY <3>1, <3>2
  <2>6. ScEntry2(limit) = ChosenEntry(T, v) /\ ScEntry2(0) = ChosenEntry(T, 0)
    <3>1. Bq769x2!U16(0 \div 1000) = 0
        BY DEF Bq769x2!U16
    <3> QED
        BY <3>1, SameSearch DEF ScEntry2
  <2> HIDE DEF T, v
  <2>7. 1000 * T[ChosenEntry(T, v)] <= limit \/ ChosenEntry(T, v) = ChosenEntry(T, 0)
      BY <2>2, <2>5, TableBound
  <2>8. T[ScEntry2(limit)] \in Int
      BY <2>2, <2>3 DEF Rising
  <2>9. T[ScEntry2(limit)] * 1000 <= limit + 1000 \/ ScEntry2(limit) = ScEntry2(0)
      BY <2>6, <2>7, <2>8
  <2> QED
      BY <1>0, <2>1, <2>4, <2>9 DEF RoundsDown
<1> QED
    BY <1>2, <1>3, <1>4 DEF Limits

LEMMA RoundsIsl ==
  ASSUME chip = "isl94202", NEW item \in Limits, NEW limit \in Nat
  PROVE  RoundsDown(item, limit)
<1> DEFINE i == CurrentLimits[item]
           T == IslThresholds(i)
           v == Isl94202!U16(limit \div 1000)
<1>1. i \in 4 .. 6
    BY DEF CurrentLimits, Limits
<1>2. Rounding = 0 /\ \A n : Setting(item, n) = 1000 * T[IslChosen(i, n)]
    BY DEF Rounding, Setting
<1> HIDE DEF i
<1>3. Rising(T, 8) /\ T[1] \in Nat /\ 0 < T[1]
  <2>1. T[1] \in Nat /\ 0 < T[1]
    <3>1. CASE i = 4
        BY <3>1 DEF IslThresholds, Isl94202!occ_thresholds
    <3>2. CASE i = 5
        BY <3>2 DEF IslThresholds, Isl94202!ocd_thresholds
    <3>3. CASE i = 6
        BY <3>3 DEF IslThresholds, Isl94202!dsc_thresholds
    <3> QED
        BY <1>1, <3>1, <3>2, <3>3
  <2> QED
      BY <1>1, <2>1, IslEntry
<1>4. v \in Nat /\ v <= limit \div 1000
  <2>1. \A n \in Nat : Isl94202!U16(n) \in Nat /\ Isl94202!U16(n) <= n
      BY DEF Isl94202!U16
  <2>2. limit \div 1000 \in Nat
      OBVIOUS
  <2> QED
      BY <2>1, <2>2
<1>5. IslChosen(i, limit) = ChosenEntry(T, v) /\ IslChosen(i, 0) = ChosenEntry(T, 0)
  <2>1. Isl94202!U16(0 \div 1000) = 0
      BY DEF Isl94202!U16
  <2> QED
      BY <2>1 DEF IslChosen
<1>6. IslChosen(i, 1000 * T[IslChosen(i, limit)]) = IslChosen(i, limit)
    BY <1>1, IslAgain
<1> HIDE DEF T, v
<1>7. 1000 * T[ChosenEntry(T, v)] <= limit \/ ChosenEntry(T, v) = ChosenEntry(T, 0)
    BY <1>3, <1>4, TableBound
<1> QED
    BY <1>2, <1>5, <1>6, <1>7 DEF RoundsDown

LEMMA Rounds ==
  ASSUME chip \in Chips, NEW item \in Limits, NEW limit \in Nat
  PROVE  RoundsDown(item, limit)
BY Chip, Rounds0, Rounds2, RoundsIsl

--------------------------------------------------------------------------
\* A part of a current limit stores back the setting that it has chosen; the
\* bq769x0 keeps the limit of the charge current as it is.
Stores(p, item, c) ==
  /\ item \in DOMAIN p.back => p.back[item] = Setting(item, c[item])
  /\ item \in DOMAIN p.back \/ (chip = "bq769x0" /\ item = "chg_oc_limit")

LEMMA StoresOf ==
  ASSUME NEW p, NEW w, NEW b, NEW e, IsPart(p, w, b, e), NEW item, NEW c,
         item \in DOMAIN b, b[item] = Setting(item, c[item])
  PROVE  Stores(p, item, c)
  BY DEF IsPart, Stores

LEMMA LimitStored0 ==
  ASSUME chip = "bq769x0", NEW c, NEW item \in Limits,
         NEW p \in Outcomes(CurrentLimits[item], c)
  PROVE  Stores(p, item, c)
<1>1. CASE item = "chg_oc_limit"
  <2>1. p.back = <<>>
      BY <1>1, NoBack DEF CurrentLimits
  <2>2. DOMAIN p.back = {}
      BY <2>1
  <2> QED
      BY <1>1, <2>2 DEF Stores
<1>2. CASE item = "dis_oc_limit"
  <2> DEFINE T == Bq769x0!ocd_thresholds
             D == Bq769x0!ocd_delays
             t == ChosenEntry(T, c.dis_oc_limit \div 1000)
             e == ChosenEntry(D, c.dis_oc_delay_ms)
             w == [PROTECT2 |-> <<t - 1, e - 1>>]
             b == [dis_oc_limit |-> 1000 * T[t], dis_oc_delay_ms |-> D[e]]
  <2>1. p = Bq769x0!OnSuccess(Bq769x0!Part(w, b))
      BY <1>2, PartsOf0, SameSearch DEF Bq769x0!DisOcp, CurrentLimits
  <2>2. IsPart(p, w, b, {})
      BY <2>1, IsPart0
  <2>3. item \in DOMAIN b /\ b[item] = Setting(item, c[item])
      BY <1>2 DEF Setting
  <2> HIDE DEF b, w
  <2> QED
      BY <2>2, <2>3, StoresOf
<1>3. CASE item = "dis_sc_limit"
  <2> DEFINE T == Bq769x0!scd_thresholds
             D == Bq769x0!scd_delays
             t == ChosenEntry(T, c.dis_sc_limit \div 1000)
             e == ChosenEntry(D, c.dis_sc_delay_us)
             w == [PROTECT1 |-> <<t - 1, e - 1>>]
             b == [dis_sc_limit |-> 1000 * T[t], dis_sc_delay_us |-> D[e]]
  <2>1. p = Bq769x0!OnSuccess(Bq769x0!Part(w, b))
      BY <1>3, PartsOf0, SameSearch DEF Bq769x0!DisScp, CurrentLimits
  <2>2. IsPart(p, w, b, {})
      BY <2>1, IsPart0
  <2>3. item \in DOMAIN b /\ b[item] = Setting(item, c[item])
      BY <1>3 DEF Setting
  <2> HIDE DEF b, w
  <2> QED
      BY <2>2, <2>3, StoresOf
<1> QED
    BY <1>1, <1>2, <1>3 DEF Limits

LEMMA LimitStored2 ==
  ASSUME chip = "bq769x2", NEW c, NEW item \in Limits,
         NEW p \in Outcomes(CurrentLimits[item], c)
  PROVE  Stores(p, item, c)
<1>1. CASE item = "chg_oc_limit"
  <2> DEFINE t == Bq769x2!oc_threshold(c.chg_oc_limit, 62)
             e == Bq769x2!oc_delay(c.chg_oc_delay_ms)
             w == [OCC_THRESHOLD |-> t, OCC_DELAY |-> e]
             b == [chg_oc_limit |-> t * Bq769x2!ShuntStep,
                   chg_oc_delay_ms |-> Bq769x2!OcDelayMs(e)]
  <2>1. p = Bq769x2!Enabling({"OCC"}, Bq769x2!Part(w, b))
      BY <1>1, PartsOf2 DEF Bq769x2!ChgOcp, CurrentLimits
  <2>3. item \in DOMAIN b /\ b[item] = Setting(item, c[item])
      BY <1>1 DEF Setting
  <2> HIDE DEF b, w
  <2>2. IsPart(p, w, b, {"OCC"})
      BY <2>1, IsPartWith2, Zenon
  <2> QED
      BY <2>2, <2>3, StoresOf
<1>2. CASE item = "dis_oc_limit"
  <2> DEFINE t == Bq769x2!oc_threshold(c.dis_oc_limit, 100)
             e == Bq769x2!oc_delay(c.dis_oc_delay_ms)
             w == [OCD1_THRESHOLD |-> t, OCD1_DELAY |-> e]
             b == [dis_oc_limit |-> t * Bq769x2!ShuntStep,
                   dis_oc_delay_ms |-> Bq769x2!OcDelayMs(e)]
  <2>1. p = Bq769x2!Enabling({"OCD1"}, Bq769x2!Part(w, b))
      BY <1>2, PartsOf2 DEF Bq769x2!DisOcp, CurrentLimits
  <2>3. item \in DOMAIN b /\ b[item] = Setting(item, c[item])
      BY <1>2 DEF Setting
  <2> HIDE DEF b, w
  <2>2. IsPart(p, w, b, {"OCD1"})
      BY <2>1, IsPartWith2, Zenon
  <2> QED
      BY <2>2, <2>3, StoresOf
<1>3. CASE item = "dis_sc_limit"
  <2> DEFINE T == Bq769x2!scd_thresholds
             t == ScEntry2(c.dis_sc_limit)
             e == Bq769x2!CLAMP(Bq769x2!U16(c.dis_sc_delay_us \div 15 + 1), 1, 31)
             w == [SCD_THRESHOLD |-> t - 1, SCD_DELAY |-> e]
             b == [dis_sc_limit |-> T[t] * 1000, dis_sc_delay_us |-> (e - 1) * 15]
  <2>1. p = Bq769x2!Part(w, b)
      BY <1>3, PartsOf2 DEF Bq769x2!DisScp, CurrentLimits, ScEntry2
  <2>3. item \in DOMAIN b /\ b[item] = Setting(item, c[item])
      BY <1>3 DEF Setting
  <2> HIDE DEF b, w
  <2>2. IsPart(p, w, b, {})
      BY <2>1, IsPart2, Zenon
  <2> QED
      BY <2>2, <2>3, StoresOf
<1> QED
    BY <1>1, <1>2, <1>3 DEF Limits

LEMMA LimitStoredIsl ==
  ASSUME chip = "isl94202", NEW c, NEW item \in Limits,
         NEW p \in Outcomes(CurrentLimits[item], c)
  PROVE  Stores(p, item, c)
<1> DEFINE i == CurrentLimits[item]
           limit == 1000 * IslThresholds(i)[IslChosen(i, c[item])]
<1>0. limit = Setting(item, c[item])
    BY DEF Setting
<1>1. CASE item = "chg_oc_limit"
  <2> DEFINE w == [OCCT_OCC |-> Isl94202!CurrentLimit(Isl94202!occ_thresholds, c.chg_oc_limit,
                               Isl94202!DELAY_MS, c.chg_oc_delay_ms)]
             b == [chg_oc_limit |-> Isl94202!AppliedLimit(Isl94202!occ_thresholds, c.chg_oc_limit)]
  <2>1. p = Isl94202!OnSuccess(Isl94202!Part(w, b))
      BY <1>1, PartsOfIsl DEF Isl94202!ChgOcp, CurrentLimits
  <2>2. b.chg_oc_limit = limit
    <3>1. Isl94202!AppliedLimit(Isl94202!occ_thresholds, c.chg_oc_limit)
            = 1000 * IslThresholds(4)[IslChosen(4, c.chg_oc_limit)]
        BY IslLimits
    <3> QED
        BY <1>1, <3>1 DEF CurrentLimits
  <2>3. item \in DOMAIN b /\ b[item] = Setting(item, c[item])
      BY <1>0, <1>1, <2>2
  <2> HIDE DEF b, w
  <2>4. IsPart(p, w, b, {})
      BY <2>1, IsPartIsl
  <2> QED
      BY <2>3, <2>4, StoresOf
<1>2. CASE item = "dis_oc_limit"
  <2> DEFINE w == [OCDT_OCD |-> Isl94202!CurrentLimit(Isl94202!ocd_thresholds, c.dis_oc_limit,
                               Isl94202!DELAY_MS, c.dis_oc_delay_ms)]
             b == [dis_oc_limit |-> Isl94202!AppliedLimit(Isl94202!ocd_thresholds, c.dis_oc_limit)]
  <2>1. p = Isl94202!OnSuccess(Isl94202!Part(w, b))
      BY <1>2, PartsOfIsl DEF Isl94202!DisOcp, CurrentLimits
  <2>2. b.dis_oc_limit = limit
    <3>1. Isl94202!AppliedLimit(Isl94202!ocd_thresholds, c.dis_oc_limit)
            = 1000 * IslThresholds(5)[IslChosen(5, c.dis_oc_limit)]
        BY IslLimits
    <3> QED
        BY <1>2, <3>1 DEF CurrentLimits
  <2>3. item \in DOMAIN b /\ b[item] = Setting(item, c[item])
      BY <1>0, <1>2, <2>2
  <2> HIDE DEF b, w
  <2>4. IsPart(p, w, b, {})
      BY <2>1, IsPartIsl
  <2> QED
      BY <2>3, <2>4, StoresOf
<1>3. CASE item = "dis_sc_limit"
  <2> DEFINE w == [SCDT_SCD |-> Isl94202!CurrentLimit(Isl94202!dsc_thresholds, c.dis_sc_limit,
                               Isl94202!DELAY_US, c.dis_sc_delay_us)]
             b == [dis_sc_limit |-> Isl94202!AppliedLimit(Isl94202!dsc_thresholds, c.dis_sc_limit)]
  <2>1. p = Isl94202!OnSuccess(Isl94202!Part(w, b))
      BY <1>3, PartsOfIsl DEF Isl94202!DisScp, CurrentLimits
  <2>2. b.dis_sc_limit = limit
    <3>1. Isl94202!AppliedLimit(Isl94202!dsc_thresholds, c.dis_sc_limit)
            = 1000 * IslThresholds(6)[IslChosen(6, c.dis_sc_limit)]
        BY IslLimits
    <3> QED
        BY <1>3, <3>1 DEF CurrentLimits
  <2>3. item \in DOMAIN b /\ b[item] = Setting(item, c[item])
      BY <1>0, <1>3, <2>2
  <2> HIDE DEF b, w
  <2>4. IsPart(p, w, b, {})
      BY <2>1, IsPartIsl
  <2> QED
      BY <2>3, <2>4, StoresOf
<1> QED
    BY <1>1, <1>2, <1>3 DEF Limits

LEMMA LimitStored ==
  ASSUME chip \in Chips, NEW c, NEW item \in Limits,
         NEW p \in Outcomes(CurrentLimits[item], c)
  PROVE  Stores(p, item, c)
  BY Chip, LimitStored0, LimitStored2, LimitStoredIsl

--------------------------------------------------------------------------
(***************************************************************************)
(* Current limits: as asked for, but for the steps of the IC.              *)
(***************************************************************************)
LEMMA SettingNext ==
  ASSUME chip' = chip
  PROVE  /\ \A item, n : Setting(item, n)' = Setting(item, n)
         /\ Rounding' = Rounding
<1>1. \A item, n : Setting(item, n)' = Setting(item, n)
    BY DEF Setting
<1>2. Rounding' = Rounding
    BY DEF Rounding
<1> QED
    BY <1>1, <1>2

LEMMA LimitSame ==
  ASSUME NEW item, LimitKept(item), chip' = chip,
         conf'[item] = conf[item], asked'[item] = asked[item]
  PROVE  LimitKept(item)'
  BY SettingNext DEF LimitKept

LEMMA LimitAnew ==
  ASSUME NEW item, conf'[item] = asked'[item] PROVE LimitKept(item)'
  BY DEF LimitKept

LEMMA LimitApplied ==
  ASSUME chip \in Chips, NEW item \in Limits, LimitKept(item), chip' = chip,
         conf[item] \in Nat, asked'[item] = asked[item],
         conf'[item] = Setting(item, conf[item])
  PROVE  LimitKept(item)'
<1>1. CASE conf[item] = asked[item]
  <2>1. RoundsDown(item, conf[item])
      BY Rounds
  <2> QED
      BY <1>1, <2>1, SettingNext DEF RoundsDown, LimitKept
<1>2. CASE conf[item] = Setting(item, conf[item])
    BY <1>2, LimitSame
<1> QED
    BY <1>1, <1>2 DEF LimitKept

LEMMA LimitsUntouched ==
  ASSUME LimitInv, UNCHANGED <<chip, conf, asked>> PROVE LimitInv'
<1> SUFFICES ASSUME NEW item \in Limits PROVE LimitKept(item)'
    BY DEF LimitInv
<1> QED
    BY LimitSame DEF LimitInv

LEMMA LimitsStoredBack ==
  ASSUME NotNegative, ConfInv, LimitInv, NEW t \in Ids, StoreBack(t)
  PROVE  LimitInv'
<1> SUFFICES ASSUME NEW item \in Limits PROVE LimitKept(item)'
    BY DEF LimitInv
<1> PICK back : back = thread[t].back
    OBVIOUS
<1>1. /\ thread[t].pc = "back" /\ chip' = chip
      /\ conf' = Overlaid(conf, back)
      /\ asked' = IF thread[t].alone THEN asked ELSE Overlaid(asked, back)
    BY DEF StoreBack
<1>2. item \in Items /\ DOMAIN conf = Items /\ DOMAIN asked = Items
    BY DEF Limits, Items, ConfInv, Types, ConfTypes
<1>3. /\ conf'[item] = IF item \in DOMAIN back THEN back[item] ELSE conf[item]
      /\ ~ thread[t].alone =>
           asked'[item] = IF item \in DOMAIN back THEN back[item] ELSE asked[item]
    BY <1>1, <1>2 DEF Overlaid
<1>4. CASE item \notin DOMAIN back
    BY <1>1, <1>3, <1>4, LimitSame DEF LimitInv
<1>5. CASE item \in DOMAIN back /\ ~ thread[t].alone
    BY <1>3, <1>5, LimitAnew
<1>6. CASE item \in DOMAIN back /\ thread[t].alone
  <2>1. InConfigure(thread[t])
      BY <1>1, ThreadPc DEF ConfInv, ConfigurePcs
  <2>2. PartKnown(thread[t]) /\ PartPending(thread[t])
      BY <1>6, <2>1 DEF ConfInv, InParts
  <2> PICK i \in 1 .. LastPart : i = thread[t].part
      BY <2>2 DEF PartKnown
  <2>3. PICK p \in Outcomes(i, conf) : back = p.back
      BY <1>1, <2>2 DEF PartPending
  <2>4. i = CurrentLimits[item]
    <3>1. i \in 1 .. 9 /\ item \in PartItems[i]
        BY <1>6, <2>2, Chip DEF PartKnown, BackTypes, ConfInv, Types
    <3>2. CurrentLimits[item] \in 1 .. 9 /\ item \in PartItems[CurrentLimits[item]]
        BY DEF Limits, CurrentLimits, PartItems
    <3> QED
        BY <3>1, <3>2, PartItemsDisjoint
  <2>5. back[item] = Setting(item, conf[item])
      BY <1>6, <2>3, <2>4, LimitStored DEF Stores, ConfInv, Types
  <2>6. conf[item] \in Nat
      BY <1>2 DEF ConfInv, Types, ConfTypes, Typed
  <2> QED
      BY <1>1, <1>3, <1>6, <2>5, <2>6, LimitApplied DEF ConfInv, Types, LimitInv
<1> QED
    BY <1>4, <1>5, <1>6

LEMMA LimitsWritten ==
  ASSUME ConfInv, LimitInv, WriteItem \/ Preset \/ Restart PROVE LimitInv'
<1> SUFFICES ASSUME NEW item \in Limits PROVE LimitKept(item)'
    BY DEF LimitInv
<1>1. CASE WriteItem
  <2>1. PICK write \in Asked : /\ conf' = [conf EXCEPT ![write[1]] = write[2]]
                               /\ asked' = [asked EXCEPT ![write[1]] = write[2]]
      BY <1>1 DEF WriteItem
  <2>2. chip' = chip /\ item \in DOMAIN conf /\ item \in DOMAIN asked
      BY <1>1 DEF WriteItem, Request, ConfInv, Types, ConfTypes, Limits, Items
  <2>3. CASE write[1] = item
      BY <2>1, <2>2, <2>3, LimitAnew
  <2>4. CASE write[1] # item
      BY <2>1, <2>2, <2>4, LimitSame DEF LimitInv
  <2> QED
      BY <2>3, <2>4
<1>2. CASE Preset \/ Restart
  <2>1. asked' = conf'
      BY <1>2 DEF Preset, Restart
  <2> QED
      BY <2>1, LimitAnew
<1> QED
    BY <1>1, <1>2

LEMMA LimitInit == Init => LimitInv
  BY DEF Init, LimitInv, LimitKept

LEMMA LimitNext ==
  NotNegative => (ConfInv /\ LimitInv /\ [Next]_vars => LimitInv')
<1> SUFFICES ASSUME NotNegative, ConfInv, LimitInv, [Next]_vars PROVE LimitInv'
    OBVIOUS
<1>1. CASE Activate
  <2>1. UNCHANGED <<chip, conf, asked>>
      BY <1>1 DEF Activate, ActivateBq769x0, ActivateIsl94202, ActivateBq769x2,
                  InitConfig, LeaveInit
  <2> QED
      BY <2>1, LimitsUntouched
<1>2. ASSUME NEW t \in Ids, Configure(t) PROVE LimitInv'
  <2>1. CASE StoreBack(t)
      BY <2>1, LimitsStoredBack
  <2>2. CASE ~ StoreBack(t)
    <3>1. UNCHANGED <<chip, conf, asked>>
        BY <1>2, <2>2 DEF Configure, EnterUpdateMode, WritePart, ReadEnabled,
           WriteEnabled, LeaveUpdateMode, Finish
    <3> QED
        BY <3>1, LimitsUntouched
  <2> QED
      BY <2>1, <2>2
<1>3. CASE WriteItem \/ Preset \/ Restart
    BY <1>3, LimitsWritten
<1>4. CASE Save \/ UNCHANGED vars
  <2>1. UNCHANGED <<chip, conf, asked>>
      BY <1>4 DEF Save, vars
  <2> QED
      BY <2>1, LimitsUntouched
<1> QED
    BY <1>1, <1>2, <1>3, <1>4 DEF Next, Ids

\* The lowest setting is what becomes of a limit of zero.
LEMMA LowestIs ==
  ASSUME chip \in Chips, NEW item \in Limits, item \in DOMAIN conf,
         chip # "bq769x0" \/ item # "chg_oc_limit"
  PROVE  Setting(item, 0) \in LowestSetting(item)
<1> DEFINE c == [conf EXCEPT ![item] = 0]
           i == CurrentLimits[item]
           Lowest(p) == {p.back[j] : j \in {item} \intersect DOMAIN p.back}
<1>1. c[item] = 0
    OBVIOUS
<1>2. \E p : p \in Outcomes(i, c)
  <2>1. i \in {4, 5, 6}
      BY DEF CurrentLimits, Limits
  <2> HIDE DEF i, c
  <2> QED
      BY <2>1, Chip, PartsOf0, PartsOf2, PartsOfIsl
<1> HIDE DEF c
<1>3. PICK p \in Outcomes(i, c) : TRUE
    BY <1>2
<1>4. item \in DOMAIN p.back /\ p.back[item] = Setting(item, 0)
    BY <1>1, LimitStored DEF Stores
<1>5. Setting(item, 0) \in Lowest(p)
    BY <1>4
<1>6. LowestSetting(item) = UNION {Lowest(q) : q \in Outcomes(i, c)}
    BY DEF LowestSetting, c
<1> HIDE DEF Lowest
<1> QED
    BY <1>5, <1>6

LEMMA LimitsOk == NotNegative => (ConfInv /\ LimitInv => LimitsAsAsked)
<1> SUFFICES ASSUME NotNegative, ConfInv, LimitInv, NEW item \in Limits
             PROVE  \/ conf[item] <= asked[item] + Rounding
                    \/ conf[item] \in LowestSetting(item)
  <2>1. DOMAIN CurrentLimits = Limits
      BY DEF CurrentLimits, Limits
  <2> QED
      BY <2>1 DEF LimitsAsAsked
<1>1. /\ item \in Items /\ item \in DOMAIN conf
      /\ conf[item] \in Nat /\ asked[item] \in Nat
    BY DEF ConfInv, Types, ConfTypes, Typed, Limits, Items
<1>2. Rounding \in Nat
    BY DEF Rounding
<1>3. CASE conf[item] = asked[item]
    BY <1>1, <1>2, <1>3
<1>4. CASE conf[item] = Setting(item, 0)
  <2>1. CASE chip = "bq769x0" /\ item = "chg_oc_limit"
    <3>1. Setting(item, 0) = 0
        BY <2>1 DEF Setting
    <3> QED
        BY <1>1, <1>2, <1>4, <3>1
  <2> QED
      BY <1>1, <1>4, <2>1, LowestIs DEF ConfInv, Types
<1> QED
    BY <1>3, <1>4 DEF LimitInv, LimitKept

\* A current limit is not above the one that was asked for, but for half a
\* step of the bq769x2 or the lowest setting of the IC.
THEOREM LimitsKept ==
  ASSUME NotNegative
  PROVE  Spec => []LimitsAsAsked
<1>1. ConfInv /\ LimitInv => LimitsAsAsked
    BY LimitsOk
<1>2. ConfInv /\ LimitInv /\ [Next]_vars => LimitInv'
    BY LimitNext
<1> QED
    BY <1>1, <1>2, ConfInit, ConfNext, LimitInit, PTL DEF Spec
=============================================================================
