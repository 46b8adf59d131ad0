--------------------------- MODULE Bq769x2Proofs ---------------------------
(***************************************************************************)
(* Proofs about the two threads that use the interface of the bq769x2: for *)
(* any addresses and contents of the registers, any number of calls and of *)
(* failing transfers.                                                      *)
(***************************************************************************)
EXTENDS Bq769x2Config, TLAPS

--------------------------------------------------------------------------
(***************************************************************************)
(* Types.                                                                  *)
(***************************************************************************)
Steps == Results \union Transfers \union Computations

LEMMA ChecksumType ==
  ASSUME NEW a \in Address, NEW v \in Byte PROVE Checksum(a, v) \in Byte
<1>1. a \in Nat
    BY AddressAssumption
<1>2. Low(a) \in 0 .. 255 /\ High(a) \in Nat
    BY <1>1 DEF Low, High
<1>3. Low(a) + High(a) + v \in Nat
    BY <1>2 DEF Byte
<1> QED
    BY <1>3 DEF Checksum, Byte

LEMMA AddressBytes ==
  ASSUME NEW a \in Address \union {0} PROVE <<Low(a), High(a)>> \in Byte \X Byte
<1>1. a \in Nat /\ a < 65536
    BY AddressAssumption
<1> QED
    BY <1>1 DEF Low, High, Byte

LEMMA OpTypes ==
  ASSUME NEW o \in Op
  PROVE  /\ o.kind \in {"read", "write", "command"}
         /\ o.addr \in Address /\ o.value \in Byte
         /\ o.kind \in {"read", "write"} => o.addr \in Registers
         /\ o.kind = "command" => o.addr \in Commands
  BY DEF Op, Address, Byte

LEMMA GoToType ==
  ASSUME InterfaceTypeOK, NEW t \in Threads, NEW step \in Steps, GoTo(t, step)
  PROVE  /\ pc' \in [Threads -> Steps]
         /\ alone' \in [Threads -> BOOLEAN]
         /\ op' \in [Threads -> Op] /\ asked' \subseteq Registers \X Byte
  BY DEF GoTo, InterfaceTypeOK, Steps

LEMMA TransferFailsType ==
  ASSUME InterfaceTypeOK, NEW t \in Threads, TransferFails(t)
  PROVE  InterfaceTypeOK'
<1>1. GoTo(t, "error") /\ "error" \in Steps
    BY DEF TransferFails, Steps, Results
<1>2. /\ pc' \in [Threads -> Steps] /\ alone' \in [Threads -> BOOLEAN]
      /\ op' \in [Threads -> Op] /\ asked' \subseteq Registers \X Byte
    BY <1>1, GoToType
<1>3. ioErrors' \in 0 .. MaxIoErrors
    BY BoundAssumption DEF TransferFails, InterfaceTypeOK
<1>4. attempts' \in [Threads -> 0 .. READ_MAX_ATTEMPTS]
    BY BoundAssumption DEF TransferFails, InterfaceTypeOK
<1> QED
    BY <1>2, <1>3, <1>4 DEF TransferFails, InterfaceTypeOK, icVars, Steps

LEMMA WriteAddressType ==
  ASSUME InterfaceTypeOK, NEW t \in Threads, WriteAddress(t)
  PROVE  InterfaceTypeOK'
<1>1. op[t] \in Op
    BY DEF InterfaceTypeOK
<1>2. op[t].kind \in {"read", "write", "command"} /\ op[t].addr \in Address
    BY <1>1, OpTypes
<1>3. GoTo(t, AfterAddress[op[t].kind]) /\ AfterAddress[op[t].kind] \in Steps
    BY <1>2 DEF WriteAddress, AfterAddress, Steps, Results, Transfers
<1>4. /\ pc' \in [Threads -> Steps] /\ alone' \in [Threads -> BOOLEAN]
      /\ op' \in [Threads -> Op] /\ asked' \subseteq Registers \X Byte
    BY <1>3, GoToType
<1>5. ordered' \in BOOLEAN /\ buffer' \in Byte /\ shown' \in Byte
  <2>1. CASE Execute(op[t].addr)
      BY <2>1 DEF Execute, InterfaceTypeOK
  <2>2. CASE Provide(op[t].addr)
    <3>1. memory[op[t].addr] \in Byte
        BY <2>2 DEF Provide, InterfaceTypeOK
    <3>2. Checksum(op[t].addr, memory[op[t].addr]) \in Byte
        BY <1>2, <3>1, ChecksumType
    <3> QED
        BY <2>2, <3>1, <3>2 DEF Provide, InterfaceTypeOK
  <2> QED
      BY <2>1, <2>2 DEF WriteAddress
<1> QED
    BY <1>2, <1>4, <1>5 DEF WriteAddress, InterfaceTypeOK, Steps

LEMMA WriteType ==
  ASSUME InterfaceTypeOK, NEW t \in Threads, WriteData(t) \/ WriteChecksum(t)
  PROVE  InterfaceTypeOK'
<1>1. op[t] \in Op
    BY DEF InterfaceTypeOK
<1>2. op[t].addr \in Address /\ op[t].value \in Byte
    BY <1>1, OpTypes
<1>3. \E step \in Steps : GoTo(t, step)
    BY DEF WriteData, WriteChecksum, Steps, Transfers, Results
<1>4. /\ pc' \in [Threads -> Steps] /\ alone' \in [Threads -> BOOLEAN]
      /\ op' \in [Threads -> Op] /\ asked' \subseteq Registers \X Byte
    BY <1>3, GoToType
<1>5. CASE WriteData(t)
    BY <1>2, <1>4, <1>5 DEF WriteData, InterfaceTypeOK, Steps
<1>6. CASE WriteChecksum(t)
  <2>1. Checksum(op[t].addr, op[t].value) \in Byte
      BY <1>2, ChecksumType
  <2>2. memory' \in [Registers -> Byte]
      BY <1>6 DEF WriteChecksum, Commits, InterfaceTypeOK
  <2> QED
      BY <1>4, <1>6, <2>1, <2>2 DEF WriteChecksum, InterfaceTypeOK, Steps
<1> QED
    BY <1>5, <1>6

(***************************************************************************)
(* A call that polls the address has attempts left.                        *)
(***************************************************************************)
AttemptsInv ==
  \A t \in Threads :
    /\ pc[t] = "address" => attempts[t] = 0
    /\ pc[t] = "echo" => attempts[t] < READ_MAX_ATTEMPTS

LEMMA PollType ==
  ASSUME InterfaceTypeOK, AttemptsInv, NEW t \in Threads,
         ReadAddress(t) \/ CompareAddress(t)
  PROVE  InterfaceTypeOK'
<1>1. \E step \in Steps : GoTo(t, step)
    BY DEF ReadAddress, CompareAddress, Compared, Steps, Transfers, Results,
           Computations
<1>2. /\ pc' \in [Threads -> Steps] /\ alone' \in [Threads -> BOOLEAN]
      /\ op' \in [Threads -> Op] /\ asked' \subseteq Registers \X Byte
    BY <1>1, GoToType
<1>3. CASE ReadAddress(t)
  <2>1. buf_data' \in Byte \X Byte
      BY <1>3, AddressBytes DEF ReadAddress, InterfaceTypeOK
  <2>2. Attempt(t) \in 0 .. READ_MAX_ATTEMPTS
      BY <1>3, BoundAssumption DEF ReadAddress, AttemptsInv, Attempt, InterfaceTypeOK
  <2>3. attempts' \in [Threads -> 0 .. READ_MAX_ATTEMPTS]
      BY <1>3, <2>2 DEF ReadAddress, InterfaceTypeOK
  <2> QED
      BY <1>2, <1>3, <2>1, <2>3 DEF ReadAddress, InterfaceTypeOK, icVars, Steps
<1>4. CASE CompareAddress(t)
  <2>1. attempts' \in [Threads -> 0 .. READ_MAX_ATTEMPTS]
      BY <1>4, BoundAssumption DEF CompareAddress, InterfaceTypeOK
  <2> QED
      BY <1>2, <1>4, <2>1 DEF CompareAddress, InterfaceTypeOK, icVars, Steps
<1> QED
    BY <1>3, <1>4

LEMMA ReadType ==
  ASSUME InterfaceTypeOK, NEW t \in Threads,
         ReadData(t) \/ CopyData(t) \/ ReadChecksum(t) \/ Verify(t)
  PROVE  InterfaceTypeOK'
<1>1. \E step \in Steps : GoTo(t, step)
    BY DEF ReadData, CopyData, ReadChecksum, Verify, Steps, Transfers, Results,
           Computations
<1>2. /\ pc' \in [Threads -> Steps] /\ alone' \in [Threads -> BOOLEAN]
      /\ op' \in [Threads -> Op] /\ asked' \subseteq Registers \X Byte
    BY <1>1, GoToType
<1>3. buf_data' \in Byte \X Byte
    BY DEF ReadData, CopyData, ReadChecksum, Verify, InterfaceTypeOK
<1>4. got' \in [Threads -> Byte]
    BY DEF ReadData, CopyData, ReadChecksum, Verify, InterfaceTypeOK
<1> QED
    BY <1>2, <1>3, <1>4
    DEF ReadData, CopyData, ReadChecksum, Verify, InterfaceTypeOK, icVars, Steps

LEMMA StepType ==
  ASSUME InterfaceTypeOK, AttemptsInv, NEW t \in Threads, Step(t)
  PROVE  InterfaceTypeOK'
  BY TransferFailsType, WriteAddressType, WriteType, PollType, ReadType DEF Step

LEMMA StepAttempts ==
  ASSUME InterfaceTypeOK, AttemptsInv, NEW t \in Threads, Step(t)
  PROVE  AttemptsInv'
<1> SUFFICES ASSUME NEW u \in Threads
             PROVE  /\ pc'[u] = "address" => attempts'[u] = 0
                    /\ pc'[u] = "echo" => attempts'[u] < READ_MAX_ATTEMPTS
    BY DEF AttemptsInv
<1>1. PICK step : GoTo(t, step)
    BY DEF Step, TransferFails, WriteAddress, WriteData, WriteChecksum, ReadAddress,
           CompareAddress, ReadData, CopyData, ReadChecksum, Verify
<1>2. CASE u # t
  <2>1. pc'[u] = pc[u]
      BY <1>1, <1>2 DEF GoTo, InterfaceTypeOK
  <2>2. attempts'[u] = attempts[u]
      BY <1>2 DEF Step, TransferFails, WriteAddress, WriteData, WriteChecksum,
                  ReadAddress, CompareAddress, ReadData, CopyData, ReadChecksum,
                  Verify, InterfaceTypeOK
  <2> QED
      BY <2>1, <2>2 DEF AttemptsInv
<1>3. CASE u = t
  <2>1. op[t].kind \in {"read", "write", "command"}
      BY OpTypes DEF InterfaceTypeOK
  <2>2. pc'[t] # "address"
      BY <2>1 DEF Step, TransferFails, WriteAddress, WriteData, WriteChecksum,
                  ReadAddress, CompareAddress, ReadData, CopyData, ReadChecksum,
                  Verify, Compared, AfterAddress, GoTo, InterfaceTypeOK
  <2>3. CASE WriteAddress(t)
    <3>1. attempts'[t] = 0
        BY <2>3 DEF WriteAddress, AttemptsInv
    <3> QED
        BY <1>3, <2>2, <3>1, BoundAssumption
  <2>4. CASE CompareAddress(t)
    <3>1. pc'[t] = Compared(t) /\ attempts[t] \in Nat
        BY <2>4 DEF CompareAddress, GoTo, InterfaceTypeOK
    <3>2. Compared(t) = "echo" => attempts'[t] = attempts[t] /\ ~ GivesUp(t)
        BY <2>4 DEF CompareAddress, Compared, InterfaceTypeOK
    <3>3. ~ GivesUp(t) => attempts[t] < READ_MAX_ATTEMPTS
        BY <3>1, BoundAssumption DEF GivesUp
    <3> QED
        BY <1>3, <2>2, <3>1, <3>2, <3>3
  <2>5. CASE ~ WriteAddress(t) /\ ~ CompareAddress(t)
    <3>1. pc'[t] # "echo"
        BY <2>5 DEF Step, TransferFails, WriteData, WriteChecksum, ReadAddress,
                    ReadData, CopyData, ReadChecksum, Verify, GoTo, InterfaceTypeOK
    <3> QED
        BY <3>1, <2>2, <1>3
  <2> QED
      BY <1>3, <2>2, <2>3, <2>4, <2>5
<1> QED
    BY <1>2, <1>3

--------------------------------------------------------------------------
(***************************************************************************)
(* A step is one of the interface, the beginning of a call for a register  *)
(* of the thread, a change of the mode, or leaves the interface alone.     *)
(***************************************************************************)
Begins(t) ==
  \E o \in Op : /\ Begin(t, o)
                /\ o.kind # "command" => o.addr \in Owned(t)
                /\ t = Main => o.addr \notin {SET_CFGUPDATE, EXIT_CFGUPDATE}

LEMMA ThreadIds == Main \in Threads /\ ThingSet \in Threads /\ Main # ThingSet
  BY ConfigAssumption

LEMMA WithCUVType == ASSUME NEW b \in Byte PROVE WithCUV(b) \in Byte
  BY DEF WithCUV, Byte

\* The calls that the two threads make.
LEMMA Calls ==
  /\ \A v \in Byte : /\ Write(CUV_THRESHOLD, v) \in Op
                    /\ Write(PROT_ENABLED_A, v) \in Op
                    /\ Write(FET_CONTROL, v) \in Op
  /\ Read(PROT_ENABLED_A) \in Op /\ Read(CB_ACTIVE_CELLS) \in Op
  /\ \A c \in Commands : Command(c) \in Op
  BY ConfigAssumption DEF Op, Write, Read, Command, Byte

LEMMA ConfiguringBegins ==
  ASSUME TypeOK,
         \/ \E v \in Limits : Configure(v)
         \/ WriteThreshold \/ ReadEnabled \/ Enable \/ EnableReturns
  PROVE  Begins(ThingSet)
<1>1. CASE \E v \in Limits : Configure(v)
  <2>1. Begin(ThingSet, Command(SET_CFGUPDATE))
      BY <1>1 DEF Configure, Call
  <2> QED
      BY <2>1, Calls, AddressAssumption, ThreadIds DEF Begins, Command
<1>2. CASE WriteThreshold
  <2>1. Begin(ThingSet, Write(CUV_THRESHOLD, limit)) /\ limit \in Byte
      BY <1>2 DEF WriteThreshold, Call, TypeOK
  <2> QED
      BY <2>1, Calls, ThreadIds DEF Begins, Write, Owned
<1>3. CASE ReadEnabled
  <2>1. Begin(ThingSet, Read(PROT_ENABLED_A))
      BY <1>3 DEF ReadEnabled, Call
  <2> QED
      BY <2>1, Calls, ThreadIds DEF Begins, Read, Owned
<1>4. CASE Enable
  <2>1. \/ Begin(ThingSet, Write(PROT_ENABLED_A, WithCUV(got[ThingSet])))
        \/ Begin(ThingSet, Command(EXIT_CFGUPDATE))
      BY <1>4 DEF Enable, Leave, Call
  <2>2. WithCUV(got[ThingSet]) \in Byte
      BY ThreadIds, WithCUVType DEF TypeOK, InterfaceTypeOK
  <2>3. CASE Begin(ThingSet, Write(PROT_ENABLED_A, WithCUV(got[ThingSet])))
    <3>1. Write(PROT_ENABLED_A, WithCUV(got[ThingSet])) \in Op
        BY <2>2, Calls
    <3> QED
        BY <2>3, <3>1, ThreadIds DEF Begins, Write, Owned
  <2>4. CASE Begin(ThingSet, Command(EXIT_CFGUPDATE))
      BY <2>4, Calls, AddressAssumption, ThreadIds DEF Begins, Command
  <2> QED
      BY <2>1, <2>3, <2>4
<1>5. CASE EnableReturns
  <2>1. Begin(ThingSet, Command(EXIT_CFGUPDATE))
      BY <1>5 DEF EnableReturns, Leave, Call
  <2> QED
      BY <2>1, Calls, AddressAssumption, ThreadIds DEF Begins, Command
<1> QED
    BY <1>1, <1>2, <1>3, <1>4, <1>5

LEMMA UsingBegins ==
  ASSUME TypeOK,
         \/ \E bits \in SwitchBits : SetSwitches(bits)
         \/ ReadBalancing \/ AllFetsOn
  PROVE  Begins(Main)
<1>1. CASE \E bits \in SwitchBits : SetSwitches(bits)
  <2>1. PICK bits \in SwitchBits : Begin(Main, Write(FET_CONTROL, bits))
      BY <1>1 DEF SetSwitches, Use
  <2>2. FET_CONTROL \notin {SET_CFGUPDATE, EXIT_CFGUPDATE} /\ bits \in Byte
      BY AddressAssumption, ConfigAssumption
  <2> QED
      BY <2>1, <2>2, Calls DEF Begins, Write, Owned
<1>2. CASE ReadBalancing
  <2>1. Begin(Main, Read(CB_ACTIVE_CELLS))
      BY <1>2 DEF ReadBalancing, Use
  <2>2. CB_ACTIVE_CELLS \notin {SET_CFGUPDATE, EXIT_CFGUPDATE}
      BY AddressAssumption, ConfigAssumption
  <2> QED
      BY <2>1, <2>2, Calls DEF Begins, Read, Owned
<1>3. CASE AllFetsOn
  <2>1. Begin(Main, Command(ALL_FETS_ON))
      BY <1>3 DEF AllFetsOn
  <2> QED
      BY <2>1, Calls, ConfigAssumption DEF Begins, Command
<1> QED
    BY <1>1, <1>2, <1>3

Stays == UNCHANGED <<icVars, callVars>> /\ ioErrors' \in 0 .. MaxIoErrors

LEMMA StepKinds ==
  ASSUME TypeOK, [Next]_vars
  PROVE  \/ \E t \in Threads : Step(t) \/ Begins(t)
         \/ ModeChanges
         \/ Stays
<1>1. CASE Requests
  <2>1. CASE StatusUnread
      BY <2>1, BoundAssumption DEF StatusUnread, Stays, TypeOK, InterfaceTypeOK
  <2> QED
      BY <1>1, <2>1, ConfiguringBegins, UsingBegins, ThreadIds DEF Requests
<1>2. CASE Configuring
  <2>1. CASE ModeFails \/ ModeCommanded \/ ModeSeen \/ ConfigureReturns
      BY <2>1 DEF ModeFails, ModeCommanded, ModeSeen, ConfigureReturns, Stays,
                  interfaceVars, TypeOK, InterfaceTypeOK
  <2>2. CASE PollAgain \/ PollsUsedUp
    <3>1. ioErrors \in 0 .. MaxIoErrors
        BY DEF TypeOK, InterfaceTypeOK
    <3>2. /\ \/ UNCHANGED ioErrors
             \/ ioErrors < MaxIoErrors /\ ioErrors' = ioErrors + 1
          /\ UNCHANGED <<icVars, callVars>>
      <4>1. ModeNotSeen
          BY <2>2 DEF PollAgain, PollsUsedUp
      <4> QED
          BY <4>1 DEF ModeNotSeen
    <3>3. ioErrors' \in 0 .. MaxIoErrors
        BY <3>1, <3>2, BoundAssumption
    <3> QED
        BY <3>2, <3>3 DEF Stays
  <2> QED
      BY <1>2, <2>1, <2>2, ConfiguringBegins, ThreadIds DEF Configuring
<1>3. CASE Using
  <2>1. CASE UseReturns
      BY <2>1 DEF UseReturns, Stays, interfaceVars, TypeOK, InterfaceTypeOK
  <2> QED
      BY <1>3, <2>1, UsingBegins, ThreadIds DEF Using
<1>4. CASE IcChangesMode
  BY <1>4 DEF IcChangesMode
<1>5. CASE UNCHANGED vars
  BY <1>5 DEF vars, interfaceVars, Stays, TypeOK, InterfaceTypeOK
<1> QED
    BY <1>1, <1>2, <1>3, <1>4, <1>5 DEF Next

(***************************************************************************)
(* The types of both modules are invariant.                                *)
(***************************************************************************)
LEMMA BeginsType ==
  ASSUME InterfaceTypeOK, AttemptsInv, NEW t \in Threads, Begins(t)
  PROVE  InterfaceTypeOK' /\ AttemptsInv'
<1>1. PICK o \in Op : Begin(t, o)
    BY DEF Begins
<1>2. o.kind = "write" => <<o.addr, o.value>> \in Registers \X Byte
    BY OpTypes
<1>3. asked' \subseteq Registers \X Byte
    BY <1>1, <1>2 DEF Begin, InterfaceTypeOK
<1>4. attempts' \in [Threads -> 0 .. READ_MAX_ATTEMPTS]
    BY <1>1, BoundAssumption DEF Begin, InterfaceTypeOK
<1>5. InterfaceTypeOK'
    BY <1>1, <1>3, <1>4 DEF Begin, InterfaceTypeOK, icVars, Transfers
<1>6. AttemptsInv'
    BY <1>1 DEF Begin, AttemptsInv, InterfaceTypeOK
<1> QED
    BY <1>5, <1>6

LEMMA InterfaceNext ==
  ASSUME TypeOK, AttemptsInv, [Next]_vars
  PROVE  InterfaceTypeOK' /\ AttemptsInv'
<1>0. InterfaceTypeOK
    BY DEF TypeOK
<1>1. CASE \E t \in Threads : Step(t)
    BY <1>0, <1>1, StepType, StepAttempts
<1>2. CASE \E t \in Threads : Begins(t)
    BY <1>0, <1>2, BeginsType
<1>3. CASE ModeChanges
    BY <1>0, <1>3 DEF ModeChanges, InterfaceTypeOK, AttemptsInv, callVars
<1>4. CASE Stays
    BY <1>0, <1>4 DEF Stays, InterfaceTypeOK, AttemptsInv, icVars, callVars
<1> QED
    BY <1>1, <1>2, <1>3, <1>4, StepKinds

ConfigTypes ==
  /\ stage \in {"idle", "enter", "entering", "entered", "threshold",
                "enabled", "enable", "exit", "exiting", "left"}
  /\ limit \in Byte
  /\ errors \subseteq {"mode", "limit"}
  /\ polls \in 0 .. MAX_POLLS - 1
  /\ config_update_mode_enabled \in BOOLEAN
  /\ configured \in {"none"} \union Results
  /\ configures \in 0 .. MaxConfigures

MainTypes ==
  /\ job \in {"idle", "open", "close", "all_on", "read"}
  /\ switched \in {"none"} \union Results
  /\ uses \in 0 .. MaxUses

LEMMA ConfigNext ==
  ASSUME TypeOK, [Next]_vars PROVE ConfigTypes'
<1>0. ConfigTypes
    BY DEF TypeOK, ConfigTypes
<1>A. 0 \in 0 .. MAX_POLLS - 1
    BY ConfigAssumption
<1>1. CASE \E v \in Limits : Configure(v)
    BY <1>0, <1>1, ConfigAssumption DEF Configure, Call, ConfigTypes
<1>2. CASE ModeFails \/ ModeCommanded
    BY <1>0, <1>2
    DEF ModeFails, ModeCommanded, Reached, Collect, config_update, ConfigTypes
<1>8. CASE ModeSeen
  <2>1. config_update \in BOOLEAN /\ stage' \in {"entered", "left"}
      BY <1>8 DEF ModeSeen, config_update, Reached
  <2>2. /\ config_update_mode_enabled' = config_update /\ polls' = 0
        /\ UNCHANGED <<limit, errors, configured, configures>>
      BY <1>8 DEF ModeSeen
  <2> QED
      BY <1>0, <1>A, <2>1, <2>2 DEF ConfigTypes
<1>3. CASE PollAgain
  <2>1. polls + 1 < MAX_POLLS => polls + 1 \in 0 .. MAX_POLLS - 1
      BY <1>0, ConfigAssumption DEF ConfigTypes
  <2> QED
      BY <1>0, <1>3, <2>1 DEF PollAgain, ModeNotSeen, ConfigTypes
<1>4. CASE PollsUsedUp
    BY <1>0, <1>A, <1>4
    DEF PollsUsedUp, ModeNotSeen, Reached, Collect, config_update, ConfigTypes
<1>5. CASE WriteThreshold \/ ReadEnabled \/ Enable \/ EnableReturns
    BY <1>0, <1>5
    DEF WriteThreshold, ReadEnabled, Enable, EnableReturns, Leave, Call, Collect,
        ConfigTypes
<1>6. CASE ConfigureReturns
    BY <1>0, <1>6 DEF ConfigureReturns, ConfigTypes, Results
<1>7. ASSUME UNCHANGED configVars PROVE ConfigTypes'
    BY <1>0, <1>7 DEF configVars, ConfigTypes
<1> QED
    BY <1>1, <1>2, <1>3, <1>4, <1>5, <1>6, <1>7, <1>8
    DEF Next, Requests, Configuring, Using, IcChangesMode, SetSwitches, StatusUnread,
        ReadBalancing, Use, AllFetsOn, UseReturns, vars

LEMMA MainNext ==
  ASSUME TypeOK, [Next]_vars PROVE MainTypes'
<1>0. MainTypes
    BY DEF TypeOK, MainTypes
<1>1. Idle(Main) => pc[Main] \in Results
    BY DEF Idle
<1>2. CASE \E bits \in SwitchBits : SetSwitches(bits)
    BY <1>0, <1>2, ConfigAssumption DEF SetSwitches, Use, MainTypes
<1>3. CASE StatusUnread \/ ReadBalancing
    BY <1>0, <1>3, ConfigAssumption
    DEF StatusUnread, ReadBalancing, Use, MainTypes, Results
<1>4. CASE AllFetsOn \/ UseReturns
    BY <1>0, <1>1, <1>4 DEF AllFetsOn, UseReturns, Result, MainTypes, Results
<1>5. ASSUME UNCHANGED mainVars PROVE MainTypes'
    BY <1>0, <1>5 DEF mainVars, MainTypes
<1> QED
    BY <1>2, <1>3, <1>4, <1>5
    DEF Next, Requests, Configuring, Using, IcChangesMode, Configure, ModeFails,
        ModeCommanded, ModeSeen, PollAgain, PollsUsedUp, ModeNotSeen, WriteThreshold,
        ReadEnabled, Enable, EnableReturns, ConfigureReturns, vars

Types == TypeOK /\ AttemptsInv

LEMMA TypesInit == Init => Types
<1> SUFFICES ASSUME Init PROVE Types
    OBVIOUS
<1>1. Command(SET_CFGUPDATE) \in Op
    BY Calls, AddressAssumption
<1>2. InterfaceTypeOK
  <2>1. 0 \in Byte /\ <<0, 0>> \in Byte \X Byte /\ 0 \in 0 .. MaxIoErrors
      BY BoundAssumption DEF Byte
  <2>2. [t \in Threads |-> 0] \in [Threads -> 0 .. READ_MAX_ATTEMPTS]
      BY BoundAssumption
  <2>3. memory \in [Registers -> Byte]
      BY AddressAssumption DEF Init, InterfaceInit
  <2>4. pc \in [Threads -> Results]
      BY DEF Init, InterfaceInit, Results
  <2> QED
      BY <1>1, <2>1, <2>2, <2>3, <2>4 DEF Init, InterfaceInit, InterfaceTypeOK
<1>3. limit \in Byte
    BY AddressAssumption, ConfigAssumption DEF Init
<1>4. AttemptsInv
    BY DEF Init, InterfaceInit, AttemptsInv
<1>5. polls \in 0 .. MAX_POLLS - 1 /\ configures \in 0 .. MaxConfigures
      /\ uses \in 0 .. MaxUses
    BY ConfigAssumption DEF Init
<1> QED
    BY <1>2, <1>3, <1>4, <1>5 DEF Init, Types, TypeOK

LEMMA TypesNext == Types /\ [Next]_vars => Types'
<1> SUFFICES ASSUME Types, [Next]_vars PROVE Types'
    OBVIOUS
<1>1. InterfaceTypeOK' /\ AttemptsInv'
    BY InterfaceNext DEF Types
<1>2. ConfigTypes' /\ MainTypes'
    BY ConfigNext, MainNext DEF Types
<1> QED
    BY <1>1, <1>2 DEF Types, TypeOK, ConfigTypes, MainTypes

\* The variables of the interface and of its two users keep their types, and
\* the polls of the address and of the mode are counted within their bounds.
THEOREM InterfaceTypes == Spec => []TypeOK
<1>1. Types => TypeOK
    BY DEF Types
<1> QED
    BY <1>1, TypesInit, TypesNext, PTL DEF Spec

--------------------------------------------------------------------------
(***************************************************************************)
(* No misdirected writes.                                                  *)
(*                                                                         *)
(* Only the register that a thread has addressed last, or one of the other *)
(* thread, can be the one the IC would write to; and what the IC accepts   *)
(* then, if it differs from the contents, somebody has asked for.          *)
(***************************************************************************)
Other(t) == IF t = Main THEN ThingSet ELSE Main
Addressed(t) == pc[t] \notin Results \union {"address"}
Accepted(t) == pc[t] = "commit" /\ Commits(t)

CallInv ==
  \A t \in Threads :
    /\ op[t].kind # "command" => op[t].addr \in Owned(t)
    /\ op[t].kind = "write" => <<op[t].addr, op[t].value>> \in asked
    /\ pc[t] \in {"write", "commit"} => op[t].kind = "write"
    /\ pc[t] \in {"echo", "compare", "data", "copy", "checksum", "verify"} =>
         op[t].kind = "read"
AddressInv ==
  \A t \in Threads : Addressed(t) =>
    subcmd \in {op[t].addr} \union Commands \union Owned(Other(t))
AcceptInv ==
  \A t \in Threads : Accepted(t) =>
    buffer = memory[subcmd] \/ <<subcmd, buffer>> \in asked
WriteInv == CallInv /\ AddressInv /\ AcceptInv

LEMMA OtherThread ==
  ASSUME NEW t \in Threads
  PROVE  /\ Other(t) \in Threads /\ Other(t) # t
         /\ \A u \in Threads : u = t \/ u = Other(t)
         /\ Other(Other(t)) = t
  BY ConfigAssumption DEF Other

LEMMA OwnedRegisters == ASSUME NEW t PROVE Owned(t) \subseteq Registers
  BY ConfigAssumption DEF Owned

\* Checksums of the same address tell data apart, those of the same data tell
\* the registers of different threads apart.
LEMMA SameRemainder ==
  ASSUME NEW s \in Nat, NEW r \in Nat, NEW v \in 0 .. 255,
         (s + v) % 256 = (r + v) % 256
  PROVE  s % 256 = r % 256
  BY SMTT(30)

LEMMA SameSummand ==
  ASSUME NEW s \in Nat, NEW v \in 0 .. 255, NEW w \in 0 .. 255,
         (s + v) % 256 = (s + w) % 256
  PROVE  v = w
  BY SMTT(30)

LEMMA SumType == ASSUME NEW a \in Address PROVE Low(a) + High(a) \in Nat
  BY AddressAssumption DEF Low, High

LEMMA ChecksumsEqual ==
  ASSUME NEW a \in Address, NEW b \in Address, NEW v \in Byte, NEW w \in Byte,
         Checksum(a, v) = Checksum(b, w)
  PROVE  (Low(a) + High(a) + v) % 256 = (Low(b) + High(b) + w) % 256
<1>1. Low(a) + High(a) + v \in Nat /\ Low(b) + High(b) + w \in Nat
    BY SumType DEF Byte
<1> QED
    BY <1>1 DEF Checksum

LEMMA SameAddress ==
  ASSUME NEW a \in Address, NEW v \in Byte, NEW w \in Byte,
         Checksum(a, v) = Checksum(a, w)
  PROVE  v = w
<1>1. (Low(a) + High(a) + v) % 256 = (Low(a) + High(a) + w) % 256
    BY ChecksumsEqual
<1> QED
    BY <1>1, SumType, SameSummand DEF Byte

LEMMA SameData ==
  ASSUME NEW a \in Address, NEW b \in Address, NEW v \in Byte,
         Checksum(a, v) = Checksum(b, v)
  PROVE  AddressSum(a) = AddressSum(b)
<1>1. (Low(a) + High(a) + v) % 256 = (Low(b) + High(b) + v) % 256
    BY ChecksumsEqual
<1> QED
    BY <1>1, SumType, SameRemainder DEF Byte, AddressSum

LEMMA SumsDiffer ==
  ASSUME NEW t \in Threads, NEW a \in Owned(t), NEW b \in Owned(Other(t))
  PROVE  AddressSum(a) # AddressSum(b)
<1>1. CASE t = Main
    BY <1>1, SumsAssumption DEF Other
<1>2. CASE t # Main
  <2>1. t = ThingSet
      BY <1>2, ConfigAssumption
  <2> QED
      BY <1>2, <2>1, SumsAssumption DEF Other
<1> QED
    BY <1>1, <1>2

LEMMA StepCall ==
  ASSUME InterfaceTypeOK, CallInv, NEW t \in Threads, Step(t)
  PROVE  CallInv' /\ op' = op /\ asked' = asked
<1>1. PICK step : GoTo(t, step)
    BY DEF Step, TransferFails, WriteAddress, WriteData, WriteChecksum, ReadAddress,
           CompareAddress, ReadData, CopyData, ReadChecksum, Verify
<1>2. op' = op /\ asked' = asked /\ pc' = [pc EXCEPT ![t] = step]
    BY <1>1 DEF GoTo
<1>3. op[t].kind \in {"read", "write", "command"}
    BY OpTypes DEF InterfaceTypeOK
<1>4. /\ pc'[t] \in {"write", "commit"} => op[t].kind = "write"
      /\ pc'[t] \in {"echo", "compare", "data", "copy", "checksum", "verify"} =>
           op[t].kind = "read"
  <2>1. CASE TransferFails(t) \/ WriteAddress(t)
      BY <1>3, <2>1 DEF TransferFails, WriteAddress, AfterAddress, GoTo,
                        InterfaceTypeOK
  <2>2. CASE WriteData(t) \/ WriteChecksum(t) \/ Verify(t)
      BY <2>2 DEF WriteData, WriteChecksum, Verify, GoTo, CallInv, InterfaceTypeOK
  <2>3. CASE ReadAddress(t) \/ CompareAddress(t)
      BY <2>3 DEF ReadAddress, CompareAddress, Compared, GoTo, CallInv,
                  InterfaceTypeOK
  <2>4. CASE ReadData(t) \/ CopyData(t) \/ ReadChecksum(t)
      BY <2>4 DEF ReadData, CopyData, ReadChecksum, GoTo, CallInv, InterfaceTypeOK
  <2> QED
      BY <2>1, <2>2, <2>3, <2>4 DEF Step
<1>5. \A u \in Threads : u # t => pc'[u] = pc[u]
    BY <1>2 DEF InterfaceTypeOK
<1>6. CallInv'
  <2> SUFFICES ASSUME NEW u \in Threads
               PROVE  /\ op[u].kind # "command" => op[u].addr \in Owned(u)
                      /\ op[u].kind = "write" => <<op[u].addr, op[u].value>> \in asked
                      /\ pc'[u] \in {"write", "commit"} => op[u].kind = "write"
                      /\ pc'[u] \in {"echo", "compare", "data", "copy", "checksum",
                                     "verify"} => op[u].kind = "read"
      BY <1>2 DEF CallInv
  <2>1. CASE u = t
      BY <1>4, <2>1 DEF CallInv
  <2>2. CASE u # t
      BY <1>5, <2>2 DEF CallInv
  <2> QED
      BY <2>1, <2>2
<1> QED
    BY <1>2, <1>6

LEMMA StepAddress ==
  ASSUME InterfaceTypeOK, CallInv, AddressInv, NEW t \in Threads, Step(t)
  PROVE  AddressInv'
<1>0. op' = op
    BY StepCall
<1>1. CASE WriteAddress(t)
  <2>1. subcmd' = op[t].addr
      BY <1>1 DEF WriteAddress
  <2>2. op[t].addr \in Commands \union Owned(t)
      BY OpTypes DEF CallInv, InterfaceTypeOK
  <2> SUFFICES ASSUME NEW u \in Threads
               PROVE  subcmd' \in {op[u].addr} \union Commands \union Owned(Other(u))
      BY <1>0 DEF AddressInv
  <2> QED
      BY <2>1, <2>2, OtherThread
<1>2. CASE ~ WriteAddress(t)
  <2>1. subcmd' = subcmd
      BY <1>2 DEF Step, TransferFails, WriteData, WriteChecksum, ReadAddress,
                  CompareAddress, ReadData, CopyData, ReadChecksum, Verify, icVars
  <2>2. pc[t] # "address" \/ pc'[t] = "error"
      BY <1>2 DEF Step, TransferFails, WriteData, WriteChecksum, ReadAddress,
                  CompareAddress, ReadData, CopyData, ReadChecksum, Verify, GoTo,
                  InterfaceTypeOK
  <2>3. pc[t] \notin Results
      BY <1>2 DEF Step, TransferFails, WriteData, WriteChecksum, ReadAddress,
                  CompareAddress, ReadData, CopyData, ReadChecksum, Verify, Results,
                  Transfers
  <2>4. \A u \in Threads : u # t => pc'[u] = pc[u]
      BY DEF Step, TransferFails, WriteAddress, WriteData, WriteChecksum, ReadAddress,
             CompareAddress, ReadData, CopyData, ReadChecksum, Verify, GoTo,
             InterfaceTypeOK
  <2>5. \A u \in Threads : Addressed(u)' => Addressed(u)
      BY <2>2, <2>3, <2>4 DEF Addressed, Results
  <2> QED
      BY <1>0, <2>1, <2>5 DEF AddressInv
<1> QED
    BY <1>1, <1>2

\* The data of one thread land in the buffer while another is about to have
\* them committed.
LEMMA MixedData ==
  ASSUME InterfaceTypeOK, CallInv, AddressInv, NEW t \in Threads, NEW u \in Threads,
         Addressed(t), op[t].kind = "write",
         u = t \/ pc[u] = "commit",
         subcmd \in Registers,
         Checksum(op[u].addr, op[u].value) = Checksum(subcmd, op[t].value)
  PROVE  <<subcmd, op[t].value>> \in asked
<1>1. /\ op[t] \in Op /\ op[u] \in Op
    BY DEF InterfaceTypeOK
<1>2. /\ op[t].addr \in Address /\ op[u].addr \in Address
      /\ op[t].value \in Byte /\ op[u].value \in Byte
    BY <1>1, OpTypes
<1>3. subcmd \in Address /\ subcmd \notin Commands
    BY AddressAssumption DEF Address
<1>4. op[u].kind = "write" /\ Addressed(u)
    BY DEF CallInv, Addressed, Results
<1>5. /\ op[t].addr \in Owned(t) /\ op[u].addr \in Owned(u)
      /\ <<op[t].addr, op[t].value>> \in asked
      /\ <<op[u].addr, op[u].value>> \in asked
    BY <1>4 DEF CallInv
<1>6. CASE subcmd = op[t].addr
    BY <1>5, <1>6
<1>7. CASE subcmd # op[t].addr /\ subcmd = op[u].addr
  <2>1. op[u].value = op[t].value
      BY <1>2, <1>7, SameAddress
  <2> QED
      BY <1>5, <1>7, <2>1
<1>8. CASE subcmd # op[t].addr /\ subcmd # op[u].addr
  <2>1. subcmd \in Owned(Other(t)) /\ subcmd \in Owned(Other(u))
      BY <1>3, <1>4, <1>8 DEF AddressInv
  <2>2. u = t
    <3>1. CASE u = Other(t)
      <4>1. Other(u) = t
          BY <3>1, OtherThread
      <4>2. AddressSum(subcmd) # AddressSum(subcmd)
          BY <2>1, <4>1, SumsDiffer
      <4> QED
          BY <4>2
    <3> QED
        BY <3>1, OtherThread
  <2>3. AddressSum(op[t].addr) = AddressSum(subcmd)
      BY <1>2, <1>3, <2>2, SameData
  <2>4. AddressSum(op[t].addr) # AddressSum(subcmd)
      BY <1>5, <2>1, SumsDiffer
  <2> QED
      BY <2>3, <2>4
<1> QED
    BY <1>6, <1>7, <1>8

LEMMA StepAccept ==
  ASSUME InterfaceTypeOK, WriteInv, NEW t \in Threads, Step(t)
  PROVE  AcceptInv'
<1>0. op' = op /\ asked' = asked
    BY StepCall DEF WriteInv
<1>1. \A u \in Threads : u # t => pc'[u] = pc[u]
    BY DEF Step, TransferFails, WriteAddress, WriteData, WriteChecksum, ReadAddress,
           CompareAddress, ReadData, CopyData, ReadChecksum, Verify, GoTo,
           InterfaceTypeOK
<1> SUFFICES ASSUME NEW u \in Threads, Accepted(u)'
             PROVE  buffer' = memory'[subcmd'] \/ <<subcmd', buffer'>> \in asked
    BY <1>0 DEF AcceptInv
<1>2. pc'[u] = "commit" /\ subcmd' \in Registers
      /\ Checksum(op[u].addr, op[u].value) = Checksum(subcmd', buffer')
    BY <1>0 DEF Accepted, Commits
<1>3. CASE WriteAddress(t)
  <2>1. ~ Execute(op[t].addr)
      BY <1>2, <1>3, AddressAssumption DEF WriteAddress, Execute
  <2> QED
      BY <1>3, <2>1 DEF WriteAddress, Provide
<1>4. CASE WriteData(t)
  <2>1. buffer' = op[t].value /\ subcmd' = subcmd /\ pc[t] = "write"
      BY <1>4 DEF WriteData
  <2>2. Addressed(t) /\ op[t].kind = "write"
      BY <2>1 DEF Addressed, Results, WriteInv, CallInv
  <2>3. u = t \/ pc[u] = "commit"
      BY <1>1, <1>2
  <2> QED
      BY <1>2, <2>1, <2>2, <2>3, MixedData DEF WriteInv
<1>5. CASE WriteChecksum(t)
  <2>1. u # t
      BY <1>2, <1>5 DEF WriteChecksum, GoTo, InterfaceTypeOK
  <2>2. Accepted(u)
      BY <1>1, <1>2, <1>5, <2>1 DEF WriteChecksum, Accepted, Commits
  <2>3. CASE Commits(t)
      BY <1>2, <1>5, <2>3 DEF WriteChecksum, InterfaceTypeOK
  <2>4. CASE ~ Commits(t)
      BY <1>5, <2>2, <2>4 DEF WriteChecksum, WriteInv, AcceptInv
  <2> QED
      BY <2>3, <2>4
<1>6. CASE ~ WriteAddress(t) /\ ~ WriteData(t) /\ ~ WriteChecksum(t)
  <2>1. UNCHANGED <<subcmd, buffer, memory>>
      BY <1>6 DEF Step, TransferFails, ReadAddress, CompareAddress, ReadData,
                  CopyData, ReadChecksum, Verify, icVars
  <2>2. pc'[t] # "commit"
      BY <1>6 DEF Step, TransferFails, ReadAddress, CompareAddress, Compared, ReadData,
                  CopyData, ReadChecksum, Verify, GoTo, InterfaceTypeOK
  <2>3. Accepted(u)
      BY <1>1, <1>2, <2>1, <2>2 DEF Accepted, Commits
  <2> QED
      BY <2>1, <2>3 DEF WriteInv, AcceptInv
<1> QED
    BY <1>3, <1>4, <1>5, <1>6

LEMMA BeginsWrite ==
  ASSUME InterfaceTypeOK, WriteInv, NEW t \in Threads, Begins(t)
  PROVE  WriteInv'
<1>1. PICK o \in Op : Begin(t, o) /\ (o.kind # "command" => o.addr \in Owned(t))
    BY DEF Begins
<1>2. /\ pc'[t] = "address" /\ op'[t] = o
      /\ \A u \in Threads : u # t => pc'[u] = pc[u] /\ op'[u] = op[u]
    BY <1>1 DEF Begin, InterfaceTypeOK
<1>3. /\ asked \subseteq asked'
      /\ o.kind = "write" => <<o.addr, o.value>> \in asked'
    BY <1>1 DEF Begin
<1>4. UNCHANGED <<subcmd, buffer, memory>>
    BY <1>1 DEF Begin, icVars
<1>5. CallInv'
  <2> SUFFICES ASSUME NEW u \in Threads
               PROVE  /\ op'[u].kind # "command" => op'[u].addr \in Owned(u)
                      /\ op'[u].kind = "write" =>
                           <<op'[u].addr, op'[u].value>> \in asked'
                      /\ pc'[u] \in {"write", "commit"} => op'[u].kind = "write"
                      /\ pc'[u] \in {"echo", "compare", "data", "copy", "checksum",
                                     "verify"} => op'[u].kind = "read"
      BY DEF CallInv
  <2>1. CASE u = t
      BY <1>1, <1>2, <1>3, <2>1
  <2>2. CASE u # t
      BY <1>2, <1>3, <2>2 DEF WriteInv, CallInv
  <2> QED
      BY <2>1, <2>2
<1>6. AddressInv'
    BY <1>2, <1>4 DEF WriteInv, AddressInv, Addressed
<1>7. AcceptInv'
  <2> SUFFICES ASSUME NEW u \in Threads, Accepted(u)'
               PROVE  buffer' = memory'[subcmd'] \/ <<subcmd', buffer'>> \in asked'
      BY DEF AcceptInv
  <2>1. u # t /\ Accepted(u)
      BY <1>2, <1>4 DEF Accepted, Commits
  <2> QED
      BY <1>3, <1>4, <2>1 DEF WriteInv, AcceptInv
<1> QED
    BY <1>5, <1>6, <1>7 DEF WriteInv

LEMMA WriteInit == Init => WriteInv
<1> SUFFICES ASSUME Init PROVE WriteInv
    OBVIOUS
<1>1. \A t \in Threads : pc[t] = "ok" /\ op[t].kind = "command"
    BY DEF Init, InterfaceInit, Command
<1> QED
    BY <1>1 DEF WriteInv, CallInv, AddressInv, AcceptInv, Addressed, Accepted, Results

LEMMA WriteNext == Types /\ WriteInv /\ [Next]_vars => WriteInv'
<1> SUFFICES ASSUME Types, WriteInv, [Next]_vars PROVE WriteInv'
    OBVIOUS
<1>0. TypeOK /\ InterfaceTypeOK /\ AttemptsInv
    BY DEF Types, TypeOK
<1>1. CASE \E t \in Threads : Step(t)
    BY <1>0, <1>1, StepCall, StepAddress, StepAccept DEF WriteInv
<1>2. CASE \E t \in Threads : Begins(t)
    BY <1>0, <1>2, BeginsWrite
<1>3. CASE ModeChanges \/ Stays
  <2>1. UNCHANGED <<subcmd, buffer, memory, pc, op, asked>>
      BY <1>3 DEF ModeChanges, Stays, icVars, callVars
  <2> QED
      BY <2>1 DEF WriteInv, CallInv, AddressInv, AcceptInv, Addressed, Accepted,
                  Commits
<1> QED
    BY <1>0, <1>1, <1>2, <1>3, StepKinds

LEMMA OnlyCommits ==
  Types /\ WriteInv /\ [Next]_vars =>
    \A a \in Registers : memory'[a] # memory[a] => <<a, memory'[a]>> \in asked
<1> SUFFICES ASSUME Types, WriteInv, [Next]_vars,
                    NEW a \in Registers, memory'[a] # memory[a]
             PROVE  <<a, memory'[a]>> \in asked
    OBVIOUS
<1>0. TypeOK /\ InterfaceTypeOK
    BY DEF Types, TypeOK
<1>1. PICK t \in Threads : WriteChecksum(t)
    BY <1>0, StepKinds
    DEF Step, TransferFails, WriteAddress, WriteData, ReadAddress, CompareAddress,
        ReadData, CopyData, ReadChecksum, Verify, Begins, Begin, ModeChanges, Stays,
        icVars
<1>2. Commits(t) /\ a = subcmd /\ memory'[a] = buffer
    BY <1>0, <1>1 DEF WriteChecksum, InterfaceTypeOK
<1>3. Accepted(t)
    BY <1>1, <1>2 DEF Accepted, WriteChecksum
<1> QED
    BY <1>2, <1>3 DEF WriteInv, AcceptInv

\* The IC changes a register only to a value that a thread wanted there, how-
\* ever the transfers of two calls of bq769x2_data_write() are mixed; for any
\* registers of the two threads whose address sums differ.
THEOREM WritesWhereWanted == Spec => NoMisdirectedWrite
<1>1. Init => Types /\ WriteInv
    BY TypesInit, WriteInit
<1>2. Types /\ WriteInv /\ [Next]_vars => (Types /\ WriteInv)'
    BY TypesNext, WriteNext
<1>3. Types /\ WriteInv /\ [Next]_vars =>
        [\A a \in Registers :
           memory'[a] # memory[a] => <<a, memory'[a]>> \in asked]_vars
    BY OnlyCommits
<1> QED
    BY <1>1, <1>2, <1>3, PTL DEF Spec, NoMisdirectedWrite

--------------------------------------------------------------------------
(***************************************************************************)
(* The config update mode is left.                                         *)
(*                                                                         *)
(* Only configure() commands a change of the mode; once the command to     *)
(* leave it was sent, the IC is not ordered back into it before the next   *)
(* configure().                                                            *)
(***************************************************************************)
LeftSafely == ~ ordered /\ ~ cfgupdate /\ ~ config_update_mode_enabled
ModeInv ==
  /\ pc[Main] = "address" => op[Main].addr \notin {SET_CFGUPDATE, EXIT_CFGUPDATE}
  /\ stage \in {"idle", "entering", "entered", "exiting", "left"} => Idle(ThingSet)
  /\ stage = "exit" => op[ThingSet] = Command(EXIT_CFGUPDATE)
  /\ stage = "exit" /\ pc[ThingSet] = "ok" => ~ ordered
  /\ stage = "exiting" => ~ ordered
  /\ stage = "left" /\ "mode" \notin errors => LeftSafely
  /\ stage = "idle" /\ configured = "ok" => LeftSafely

LEMMA StepOfThread ==
  ASSUME InterfaceTypeOK, NEW t \in Threads, Step(t)
  PROVE  /\ ~ Idle(t) /\ op' = op /\ cfgupdate' = cfgupdate
         /\ pc'[t] # "address"
         /\ \A u \in Threads : u # t => pc'[u] = pc[u]
         /\ WriteAddress(t) \/ ordered' = ordered
<1>1. op[t].kind \in {"read", "write", "command"}
    BY OpTypes DEF InterfaceTypeOK
<1>2. CASE WriteAddress(t)
    BY <1>1, <1>2 DEF WriteAddress, AfterAddress, GoTo, Idle, Results,
                      InterfaceTypeOK
<1>3. CASE TransferFails(t) \/ WriteData(t) \/ WriteChecksum(t)
    BY <1>3 DEF TransferFails, WriteData, WriteChecksum, GoTo, Idle, Results, Transfers,
                icVars, InterfaceTypeOK
<1>4. CASE ReadAddress(t) \/ CompareAddress(t)
    BY <1>4 DEF ReadAddress, CompareAddress, Compared, GoTo, Idle, Results, icVars,
                InterfaceTypeOK
<1>5. CASE ReadData(t) \/ CopyData(t) \/ ReadChecksum(t) \/ Verify(t)
    BY <1>5 DEF ReadData, CopyData, ReadChecksum, Verify, GoTo, Idle, Results, icVars,
                InterfaceTypeOK
<1> QED
    BY <1>2, <1>3, <1>4, <1>5 DEF Step

\* Steps of the main thread do not concern the mode.
LEMMA MainKeepsMode ==
  ASSUME InterfaceTypeOK, ModeInv, Step(Main) \/ Begins(Main),
         UNCHANGED configVars
  PROVE  ModeInv'
<1>1. /\ UNCHANGED <<stage, errors, config_update_mode_enabled, configured>>
    BY DEF configVars
<1>2. /\ pc'[ThingSet] = pc[ThingSet] /\ op'[ThingSet] = op[ThingSet]
      /\ cfgupdate' = cfgupdate /\ ordered' = ordered
      /\ pc'[Main] = "address" => op'[Main].addr \notin {SET_CFGUPDATE, EXIT_CFGUPDATE}
  <2>1. CASE Step(Main)
    <3>1. CASE WriteAddress(Main)
      <4>1. op[Main].addr \notin {SET_CFGUPDATE, EXIT_CFGUPDATE}
          BY <3>1 DEF WriteAddress, ModeInv
      <4>2. ordered' = ordered
          BY <3>1, <4>1 DEF WriteAddress, Execute, Provide, InterfaceTypeOK
      <4> QED
          BY <2>1, <4>2, ThreadIds, StepOfThread
    <3> QED
        BY <2>1, <3>1, ThreadIds, StepOfThread
  <2>2. CASE Begins(Main)
    <3>1. PICK o \in Op : /\ Begin(Main, o)
                         /\ o.addr \notin {SET_CFGUPDATE, EXIT_CFGUPDATE}
        BY <2>2 DEF Begins
    <3> QED
        BY <3>1, ThreadIds DEF Begin, icVars, InterfaceTypeOK
  <2> QED
      BY <2>1, <2>2
<1> QED
    BY <1>1, <1>2 DEF ModeInv, Idle, LeftSafely

LEMMA CallKeepsMode ==
  ASSUME InterfaceTypeOK, CallInv, ModeInv, Step(ThingSet), UNCHANGED configVars
  PROVE  ModeInv'
<1>1. stage' = stage
    BY DEF configVars
<1>2. /\ stage \notin {"idle", "entering", "entered", "exiting", "left"}
      /\ op' = op /\ pc'[Main] = pc[Main]
    BY ThreadIds, StepOfThread DEF ModeInv
<1>3. ASSUME stage = "exit", pc'[ThingSet] = "ok" PROVE ~ ordered'
  <2>1. op[ThingSet] = Command(EXIT_CFGUPDATE)
      BY <1>3 DEF ModeInv
  <2>2. op[ThingSet].kind = "command" /\ op[ThingSet].addr = EXIT_CFGUPDATE
      BY <2>1 DEF Command
  <2>3. pc[ThingSet] \notin {"write", "commit", "echo", "compare", "data", "copy",
                            "checksum", "verify"}
      BY <2>2, ThreadIds DEF CallInv
  <2>4. WriteAddress(ThingSet)
      BY <1>3, <2>3, ThreadIds
      DEF Step, TransferFails, WriteData, WriteChecksum, ReadAddress,
          CompareAddress, ReadData, CopyData, ReadChecksum, Verify, GoTo,
          InterfaceTypeOK
  <2>5. Execute(EXIT_CFGUPDATE)
      BY <2>2, <2>4, AddressAssumption DEF WriteAddress, Provide
  <2>6. EXIT_CFGUPDATE # SET_CFGUPDATE
      BY AddressAssumption
  <2>7. ordered' = (EXIT_CFGUPDATE = SET_CFGUPDATE
                      \/ (EXIT_CFGUPDATE # EXIT_CFGUPDATE /\ ordered))
      BY <2>5 DEF Execute
  <2> QED
      BY <2>6, <2>7
<1>4. /\ op'[Main] = op[Main] /\ op'[ThingSet] = op[ThingSet]
      /\ stage' \notin {"idle", "entering", "entered", "exiting", "left"}
    BY <1>1, <1>2
<1>5. stage' = "exit" /\ pc'[ThingSet] = "ok" => ~ ordered'
    BY <1>1, <1>3
<1> QED
    BY <1>1, <1>2, <1>4, <1>5 DEF ModeInv

LEMMA BeginKeepsMode ==
  ASSUME InterfaceTypeOK, ModeInv, NEW o, Begin(ThingSet, o),
         stage' \in {"enter", "threshold", "enabled", "enable", "exit"},
         stage' = "exit" => o = Command(EXIT_CFGUPDATE)
  PROVE  ModeInv'
<1>1. /\ pc'[ThingSet] = "address" /\ op'[ThingSet] = o
      /\ pc'[Main] = pc[Main] /\ op'[Main] = op[Main]
    BY ThreadIds DEF Begin, InterfaceTypeOK
<1> QED
    BY <1>1 DEF ModeInv

LEMMA ModeNext == Types /\ CallInv /\ ModeInv /\ [Next]_vars => ModeInv'
<1> SUFFICES ASSUME Types, CallInv, ModeInv, [Next]_vars PROVE ModeInv'
    OBVIOUS
<1>0. TypeOK /\ InterfaceTypeOK
    BY DEF Types, TypeOK
<1>1. CASE \E v \in Limits : Configure(v)
    BY <1>0, <1>1, BeginKeepsMode DEF Configure, Call
<1>2. CASE WriteThreshold \/ ReadEnabled
    BY <1>0, <1>2, BeginKeepsMode DEF WriteThreshold, ReadEnabled, Call
<1>3. CASE Enable \/ EnableReturns
    BY <1>0, <1>3, BeginKeepsMode DEF Enable, EnableReturns, Leave, Call
<1>4. CASE ModeFails \/ PollsUsedUp
  <2>1. UNCHANGED <<pc, op, ordered>> /\ Idle(ThingSet)
      BY <1>4 DEF ModeFails, PollsUsedUp, ModeNotSeen, Polling, Returns, interfaceVars,
                  icVars, callVars, ModeInv
  <2>2. stage' \in {"entered", "left"} /\ "mode" \in errors'
      BY <1>4 DEF ModeFails, PollsUsedUp, Reached, Collect
  <2> QED
      BY <2>1, <2>2 DEF ModeInv, Idle
<1>5. CASE ModeCommanded
  <2>1. UNCHANGED <<pc, op, ordered>> /\ Idle(ThingSet) /\ pc[ThingSet] # "error"
      BY <1>5 DEF ModeCommanded, Returns, Failed, interfaceVars, icVars, callVars
  <2>2. pc[ThingSet] = "ok"
      BY <2>1 DEF Idle, Results
  <2>3. \/ stage' = "entering"
        \/ stage' = "exiting" /\ stage = "exit"
      BY <1>5 DEF ModeCommanded, Returns, config_update, Entering
  <2> QED
      BY <2>1, <2>2, <2>3 DEF ModeInv, Idle
<1>6. CASE ModeSeen
  <2>1. /\ UNCHANGED <<pc, op, ordered, cfgupdate, errors>> /\ Idle(ThingSet)
        /\ config_update_mode_enabled' = config_update
        /\ cfgupdate = config_update
      BY <1>6 DEF ModeSeen, ModeIsSet, Polling, interfaceVars, icVars, callVars, ModeInv
  <2>2. CASE stage = "entering"
      BY <1>6, <2>1, <2>2 DEF ModeSeen, Reached, config_update, Entering, ModeInv, Idle
  <2>3. CASE stage = "exiting"
    <3>1. stage' = "left" /\ ~ config_update
        BY <1>6, <2>3 DEF ModeSeen, Reached, config_update, Entering
    <3>2. ~ ordered
        BY <2>3 DEF ModeInv
    <3> QED
        BY <2>1, <3>1, <3>2 DEF ModeInv, Idle, LeftSafely
  <2> QED
      BY <1>6, <2>2, <2>3 DEF ModeSeen, Polling
<1>7. CASE PollAgain \/ StatusUnread
  <2>1. UNCHANGED <<pc, op, ordered, cfgupdate, stage, errors, configured,
                    config_update_mode_enabled>>
      BY <1>7 DEF PollAgain, StatusUnread, ModeNotSeen, icVars, callVars, configVars
  <2> QED
      BY <2>1 DEF ModeInv, Idle, LeftSafely
<1>8. CASE ConfigureReturns
  <2>1. /\ UNCHANGED <<pc, op, ordered, cfgupdate, config_update_mode_enabled>>
        /\ stage = "left" /\ stage' = "idle"
        /\ configured' = "ok" => errors = {}
      BY <1>8 DEF ConfigureReturns, interfaceVars, icVars, callVars
  <2> QED
      BY <2>1 DEF ModeInv, Idle, LeftSafely
<1>9. CASE Step(ThingSet) /\ UNCHANGED <<configVars, mainVars>>
    BY <1>0, <1>9, CallKeepsMode
<1>10. CASE Step(Main) /\ UNCHANGED <<configVars, mainVars>>
    BY <1>0, <1>10, MainKeepsMode
<1>11. CASE \/ \E bits \in SwitchBits : SetSwitches(bits)
            \/ ReadBalancing \/ AllFetsOn
  <2>1. Begins(Main)
      BY <1>0, <1>11, UsingBegins
  <2>2. UNCHANGED configVars
      BY <1>11 DEF SetSwitches, ReadBalancing, AllFetsOn, Use
  <2> QED
      BY <1>0, <2>1, <2>2, MainKeepsMode
<1>12. CASE UseReturns \/ UNCHANGED vars
  <2>1. UNCHANGED <<pc, op, ordered, cfgupdate, stage, errors, configured,
                    config_update_mode_enabled>>
      BY <1>12 DEF UseReturns, vars, interfaceVars, icVars, callVars, configVars
  <2> QED
      BY <2>1 DEF ModeInv, Idle, LeftSafely
<1>13. CASE IcChangesMode
  <2>1. /\ UNCHANGED <<pc, op, ordered, stage, errors, configured,
                       config_update_mode_enabled>>
        /\ cfgupdate # ordered /\ cfgupdate' = ordered
      BY <1>13 DEF IcChangesMode, ModeChanges, callVars, configVars
  <2> QED
      BY <1>0, <2>1 DEF ModeInv, Idle, LeftSafely, InterfaceTypeOK
<1> QED
    BY <1>1, <1>2, <1>3, <1>4, <1>5, <1>6, <1>7, <1>8, <1>9, <1>10, <1>11, <1>12, <1>13
    DEF Next, Requests, Configuring, Using

\* configure() reports success only with the IC back in normal mode, for any
\* number of failing transfers and calls of the other thread.
THEOREM ModeIsLeft == Spec => []UpdateModeLeft
<1>1. Init => Types /\ WriteInv /\ ModeInv
  <2>1. Init => ModeInv
      BY ThreadIds DEF Init, InterfaceInit, ModeInv, Idle, Results
  <2> QED
      BY <2>1, TypesInit, WriteInit
<1>2. Types /\ WriteInv /\ ModeInv /\ [Next]_vars => (Types /\ WriteInv /\ ModeInv)'
    BY TypesNext, WriteNext, ModeNext DEF WriteInv
<1>3. ModeInv => UpdateModeLeft
    BY DEF ModeInv, UpdateModeLeft, LeftSafely
<1> QED
    BY <1>1, <1>2, <1>3, PTL DEF Spec
--------------------------------------------------------------------------
(***************************************************************************)
(* Calls that nobody disturbs.                                             *)
(*                                                                         *)
(* While no other thread makes a step, the IC shows the address of the     *)
(* call, and its buffers hold what the call put there or asked it for.     *)
(***************************************************************************)
Reading == {"echo", "compare", "data", "copy", "checksum", "verify"}
Undisturbed(t) ==
  /\ pc[t] \in Reading \union {"write", "commit"} => subcmd = op[t].addr
  /\ pc[t] = "commit" => buffer = op[t].value
  /\ pc[t] \in Reading => buffer = memory[op[t].addr]
  /\ pc[t] = "copy" => buf_data[1] = memory[op[t].addr]
  /\ pc[t] \in {"checksum", "verify"} => got[t] = memory[op[t].addr]
AloneInv == \A t \in Threads : alone[t] => Undisturbed(t)

LEMMA StepAlone ==
  ASSUME InterfaceTypeOK, CallInv, AloneInv, NEW t \in Threads, Step(t)
  PROVE  AloneInv'
<1>1. PICK step : GoTo(t, step)
    BY DEF Step, TransferFails, WriteAddress, WriteData, WriteChecksum, ReadAddress,
           CompareAddress, ReadData, CopyData, ReadChecksum, Verify
<1>2. /\ op' = op /\ alone' = [u \in Threads |-> u = t /\ alone[t]]
      /\ pc' = [pc EXCEPT ![t] = step]
    BY <1>1 DEF GoTo
<1> SUFFICES ASSUME alone[t] PROVE Undisturbed(t)'
    BY <1>2 DEF AloneInv
<1>3. Undisturbed(t)
    BY DEF AloneInv
<1>4. op[t].kind \in {"read", "write", "command"} /\ op[t].addr \in Address
    BY OpTypes DEF InterfaceTypeOK
<1>5. op[t].kind \in {"read", "write"} =>
        op[t].addr \in Registers /\ op[t].addr \notin Commands
    BY OpTypes, AddressAssumption DEF InterfaceTypeOK
<1>6. CASE TransferFails(t)
    BY <1>2, <1>6 DEF TransferFails, GoTo, Undisturbed, Reading, InterfaceTypeOK
<1>7. CASE WriteAddress(t)
  <2>1. pc'[t] = AfterAddress[op[t].kind] /\ subcmd' = op[t].addr /\ memory' = memory
      BY <1>7 DEF WriteAddress, GoTo, InterfaceTypeOK
  <2>2. op[t].kind = "read" => buffer' = memory[op[t].addr]
      BY <1>5, <1>7 DEF WriteAddress, Execute, Provide
  <2>3. /\ op[t].kind = "read" => pc'[t] = "echo"
        /\ op[t].kind = "write" => pc'[t] = "write"
        /\ op[t].kind = "command" => pc'[t] = "ok"
      BY <2>1 DEF AfterAddress
  <2> QED
      BY <1>2, <1>4, <2>1, <2>2, <2>3 DEF Undisturbed, Reading
<1>8. CASE WriteData(t)
    BY <1>2, <1>3, <1>8 DEF WriteData, GoTo, Undisturbed, Reading, InterfaceTypeOK
<1>9. CASE WriteChecksum(t) \/ Verify(t)
  <2>1. pc'[t] \in Results
      BY <1>9 DEF WriteChecksum, Verify, GoTo, InterfaceTypeOK, Results
  <2> QED
      BY <2>1 DEF Undisturbed, Reading, Results
<1>10. CASE ReadAddress(t) \/ CompareAddress(t)
  <2>1. /\ UNCHANGED <<subcmd, buffer, memory>> /\ pc[t] \in {"echo", "compare"}
        /\ pc'[t] \in {"echo", "compare", "data", "error"}
      BY <1>10 DEF ReadAddress, CompareAddress, Compared, GoTo, icVars, InterfaceTypeOK
  <2> QED
      BY <1>2, <1>3, <2>1 DEF Undisturbed, Reading
<1>11. CASE ReadData(t)
    BY <1>2, <1>3, <1>11 DEF ReadData, GoTo, Undisturbed, Reading, icVars,
                             InterfaceTypeOK
<1>12. CASE CopyData(t)
    BY <1>2, <1>3, <1>12 DEF CopyData, GoTo, Undisturbed, Reading, icVars,
                             InterfaceTypeOK
<1>13. CASE ReadChecksum(t)
    BY <1>2, <1>3, <1>13 DEF ReadChecksum, GoTo, Undisturbed, Reading, icVars,
                             InterfaceTypeOK
<1> QED
    BY <1>6, <1>7, <1>8, <1>9, <1>10, <1>11, <1>12, <1>13 DEF Step

LEMMA AloneNext == Types /\ WriteInv /\ AloneInv /\ [Next]_vars => AloneInv'
<1> SUFFICES ASSUME Types, WriteInv, AloneInv, [Next]_vars PROVE AloneInv'
    OBVIOUS
<1>0. TypeOK /\ InterfaceTypeOK /\ CallInv
    BY DEF Types, TypeOK, WriteInv
<1>1. CASE \E t \in Threads : Step(t)
    BY <1>0, <1>1, StepAlone
<1>2. CASE \E t \in Threads : Begins(t)
  <2>1. PICK t \in Threads, o \in Op : Begin(t, o)
      BY <1>2 DEF Begins
  <2>2. /\ pc'[t] = "address"
        /\ \A u \in Threads : u # t =>
             pc'[u] = pc[u] /\ op'[u] = op[u] /\ alone'[u] = alone[u]
        /\ UNCHANGED <<subcmd, buffer, memory, got, buf_data>>
      BY <1>0, <2>1 DEF Begin, icVars, InterfaceTypeOK
  <2> SUFFICES ASSUME NEW u \in Threads, alone'[u] PROVE Undisturbed(u)'
      BY DEF AloneInv
  <2>3. CASE u = t
      BY <2>2, <2>3 DEF Undisturbed, Reading
  <2>4. CASE u # t
      BY <2>2, <2>4 DEF Undisturbed, AloneInv
  <2> QED
      BY <2>3, <2>4
<1>3. CASE ModeChanges \/ Stays
  <2>1. UNCHANGED <<subcmd, buffer, memory, callVars>>
      BY <1>3 DEF ModeChanges, Stays, icVars
  <2> QED
      BY <2>1 DEF AloneInv, Undisturbed, callVars
<1> QED
    BY <1>0, <1>1, <1>2, <1>3, StepKinds

\* SuccessIsTrue for calls that nobody disturbs, of which it holds for all
\* contents: a mixture whose checksum agrees by chance is taken for data.
SuccessAloneIsTrue ==
  [][\A t \in Threads : alone'[t] =>
       /\ SucceedsNow(t, "read") => got[t] = memory[op[t].addr]
       /\ SucceedsNow(t, "write") => memory'[op[t].addr] = op[t].value]_vars

LEMMA AloneSucceeds ==
  ASSUME Types, WriteInv, AloneInv, [Next]_vars, NEW t \in Threads, alone'[t]
  PROVE  /\ SucceedsNow(t, "read") => got[t] = memory[op[t].addr]
         /\ SucceedsNow(t, "write") => memory'[op[t].addr] = op[t].value
<1>0. TypeOK /\ InterfaceTypeOK /\ CallInv
    BY DEF Types, TypeOK, WriteInv
<1> SUFFICES ASSUME NEW kind \in {"read", "write"}, SucceedsNow(t, kind)
             PROVE  /\ kind = "read" => got[t] = memory[op[t].addr]
                    /\ kind = "write" => memory'[op[t].addr] = op[t].value
    OBVIOUS
<1>1. op[t].kind = kind /\ pc[t] \notin Results /\ pc'[t] = "ok"
    BY DEF SucceedsNow, Idle
<1>2. Step(t)
  <2>1. \A u \in Threads : Begins(u) => pc'[t] = pc[t] \/ pc'[t] = "address"
      BY <1>0 DEF Begins, Begin, InterfaceTypeOK
  <2>2. \A u \in Threads : u # t /\ Step(u) => pc'[t] = pc[t]
      BY <1>0, StepOfThread
  <2>3. ModeChanges \/ Stays => pc' = pc
      BY DEF ModeChanges, Stays, callVars
  <2> QED
      BY <1>0, <1>1, <2>1, <2>2, <2>3, StepKinds DEF Results
<1>3. alone[t] /\ Undisturbed(t)
  <2>1. PICK step : GoTo(t, step)
      BY <1>2
      DEF Step, TransferFails, WriteAddress, WriteData, WriteChecksum, ReadAddress,
          CompareAddress, ReadData, CopyData, ReadChecksum, Verify
  <2> QED
      BY <2>1 DEF GoTo, AloneInv
<1>4. WriteChecksum(t) \/ Verify(t)
  <2>1. ~ WriteAddress(t)
      BY <1>0, <1>1 DEF WriteAddress, AfterAddress, GoTo, InterfaceTypeOK
  <2> QED
      BY <1>0, <1>1, <1>2, <2>1
      DEF Step, TransferFails, WriteData, ReadAddress, CompareAddress, Compared,
          ReadData, CopyData, ReadChecksum, GoTo, InterfaceTypeOK
<1>5. CASE WriteChecksum(t)
  <2>1. kind = "write" /\ subcmd = op[t].addr /\ buffer = op[t].value
      BY <1>0, <1>1, <1>3, <1>5 DEF WriteChecksum, CallInv, Undisturbed
  <2>2. subcmd \in Registers
      BY <1>0, <1>1, <2>1, OpTypes DEF InterfaceTypeOK
  <2> QED
      BY <1>0, <1>5, <2>1, <2>2 DEF WriteChecksum, Commits, InterfaceTypeOK
<1>6. CASE Verify(t)
    BY <1>0, <1>1, <1>3, <1>6 DEF Verify, CallInv, Undisturbed
<1> QED
    BY <1>4, <1>5, <1>6

\* A call of bq769x2_data_read() or bq769x2_data_write() that reports success,
\* and during which no other thread used the interface, has read what the
\* register contains or written what it was to write; for any contents and
\* any interleaving of the calls around it.
THEOREM CallsAloneSucceed == Spec => SuccessAloneIsTrue
<1>1. Init => Types /\ WriteInv /\ AloneInv
  <2>1. Init => AloneInv
      BY DEF Init, InterfaceInit, AloneInv
  <2> QED
      BY <2>1, TypesInit, WriteInit
<1>2. Types /\ WriteInv /\ AloneInv /\ [Next]_vars
        => (Types /\ WriteInv /\ AloneInv)'
    BY TypesNext, WriteNext, AloneNext
<1>3. Types /\ WriteInv /\ AloneInv /\ [Next]_vars =>
        [\A t \in Threads : alone'[t] =>
           /\ SucceedsNow(t, "read") => got[t] = memory[op[t].addr]
           /\ SucceedsNow(t, "write") => memory'[op[t].addr] = op[t].value]_vars
    BY AloneSucceeds
<1> QED
    BY <1>1, <1>2, <1>3, PTL DEF Spec, SuccessAloneIsTrue
=============================================================================
