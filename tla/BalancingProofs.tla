------------------------- MODULE BalancingProofs -------------------------
(***************************************************************************)
(* Proofs about cell balancing: for any number of sections and cells, any  *)
(* voltages and any number of failed transfers.                            *)
(***************************************************************************)
EXTENDS Bq769x0Balancing, TLAPS

USE SizeAssumption, InputAssumption

LEMMA FirstSection == 1 \in Sections
  BY DEF Sections

LEMMA NextSection == ASSUME NEW s \in Sections, More(s) PROVE s + 1 \in Sections
  BY DEF Sections, More

LEMMA CandidatesArePositions == ASSUME NEW s PROVE Candidates(s) \in SUBSET Positions
  BY DEF Candidates

\* What a function of sections becomes when one section is changed.
LEMMA WriteCellbalType ==
  ASSUME NEW s \in Sections, NEW cells \in SUBSET Positions, TypeOK,
         WriteCellbal(s, cells)
  PROVE  cellbal' \in Mask /\ ioErrors' \in 0 .. MaxIoErrors
  BY DEF TypeOK, Mask, WriteCellbal

(***************************************************************************)
(* The variables keep their types.                                         *)
(***************************************************************************)
LEMMA InitType == Init => TypeOK
<1> SUFFICES ASSUME Init PROVE TypeOK
    OBVIOUS
<1>1. NoCells \in Mask
    BY DEF NoCells, Mask
<1>2. range \in Limits
    BY DEF Init, Limits
<1>3. seen \in [Positions -> Nat]
    BY DEF Init
<1>4. ioErrors \in 0 .. MaxIoErrors
    BY DEF Init
<1>5. cellbal \in Mask /\ status \in Mask /\ switches \in Mask /\ target \in Mask
    BY <1>1 DEF Init
<1>6. reading \in Sections /\ section \in Sections /\ at \in Sections
    BY FirstSection DEF Init
<1> QED
    BY <1>2, <1>3, <1>4, <1>5, <1>6 DEF Init, TypeOK

LEMMA NextType == TypeOK /\ [Next]_vars => TypeOK'
<1> SUFFICES ASSUME TypeOK, [Next]_vars PROVE TypeOK'
    OBVIOUS
<1>1. CASE ReadCellVoltages
  <2>1. volts' \in [Sections -> Profiles]
      BY <1>1 DEF ReadCellVoltages, TypeOK
  <2>2. reading' \in Sections /\ mpc' \in {"cells", "limits", "status"}
      BY <1>1, FirstSection, NextSection DEF ReadCellVoltages, TypeOK
  <2> QED
      BY <1>1, <2>1, <2>2 DEF ReadCellVoltages, TypeOK, workVars, choiceVars, apiVars
<1>2. CASE ReadCellLimits
  <2>1. Measured \subseteq Nat
      BY DEF Measured, TypeOK
  <2>2. range' \in Limits
      BY <1>2, <2>1 DEF ReadCellLimits, Limits
  <2> QED
      BY <1>2, <2>2 DEF ReadCellLimits, TypeOK, workVars, choiceVars, apiVars
<1>3. CASE ReadCurrentAndStatus
    BY <1>3 DEF ReadCurrentAndStatus, ReadStatus, TypeOK, workVars, choiceVars, apiVars
<1>4. CASE IdleTimePasses
    BY <1>4 DEF IdleTimePasses, TypeOK, workVars, choiceVars, apiVars
<1>5. CASE HandlerStart
  <2>1. CASE Needed /\ status' = NoCells /\ work' = "choose" /\ BeginSection(1)
    <3>1. volts[1] \in [Positions -> Nat]
        BY FirstSection DEF TypeOK
    <3> QED
        BY <1>5, <2>1, <3>1, FirstSection, CandidatesArePositions
           DEF HandlerStart, BeginSection, TypeOK, Mask, NoCells, mainVars, apiVars
  <2>2. CASE work' = "clear" /\ UNCHANGED <<section, choiceVars, status>>
      BY <1>5, <2>2 DEF HandlerStart, TypeOK, choiceVars, mainVars, apiVars
  <2> QED
      BY <1>5, <2>1, <2>2 DEF HandlerStart
<1>6. CASE ChooseCell
    BY <1>6 DEF ChooseCell, TryCell, TypeOK, mainVars, apiVars
<1>7. CASE SetSection
  <2>1. cellbal' \in Mask /\ ioErrors' \in 0 .. MaxIoErrors
      BY <1>7, WriteCellbalType DEF SetSection, TypeOK
  <2>2. status' \in Mask
      BY <1>7 DEF SetSection, TypeOK, Mask
  <2>3. CASE More(section) /\ BeginSection(section + 1) /\ UNCHANGED work
    <3>1. section + 1 \in Sections
        BY <2>3, NextSection DEF TypeOK
    <3>2. volts[section + 1] \in [Positions -> Nat]
        BY <3>1 DEF TypeOK
    <3> QED
        BY <1>7, <2>1, <2>2, <2>3, <3>1, <3>2, CandidatesArePositions
           DEF SetSection, BeginSection, TypeOK, mainVars, apiVars
  <2>4. CASE EndHandler
      BY <1>7, <2>1, <2>2, <2>4, FirstSection
         DEF SetSection, EndHandler, TypeOK, choiceVars, mainVars, apiVars
  <2> QED
      BY <1>7, <2>3, <2>4 DEF SetSection
<1>8. CASE ClearSection
  <2>1. cellbal' \in Mask /\ ioErrors' \in 0 .. MaxIoErrors
      BY <1>8, WriteCellbalType DEF ClearSection, TypeOK
  <2>2. CASE More(section) /\ section' = section + 1
             /\ UNCHANGED <<status, work, choiceVars>>
      BY <1>8, <2>1, <2>2, NextSection
         DEF ClearSection, TypeOK, choiceVars, mainVars, apiVars
  <2>3. CASE status' = NoCells /\ EndHandler
      BY <1>8, <2>1, <2>3, FirstSection
         DEF ClearSection, EndHandler, TypeOK, Mask, NoCells, choiceVars, mainVars, apiVars
  <2> QED
      BY <1>8, <2>2, <2>3 DEF ClearSection
<1>9. CASE ConfigureAuto
    BY <1>9 DEF ConfigureAuto, TypeOK, choiceVars, mainVars
<1>10. CASE ConfigureManual
    BY <1>10 DEF ConfigureManual, TypeOK, choiceVars, mainVars
<1>11. CASE CancelReturns
    BY <1>11, FirstSection
       DEF CancelReturns, SetSwitches, NoCells, Mask, TypeOK, workVars, choiceVars, mainVars
<1>12. ASSUME NEW cells \in Requests, Balance(cells) PROVE TypeOK'
    BY <1>12, FirstSection
       DEF Balance, SetSwitches, TypeOK, workVars, choiceVars, mainVars
<1>13. CASE WriteSection
  <2>1. target[at] \in SUBSET Positions
      BY DEF TypeOK, Mask
  <2>2. cellbal' \in Mask /\ ioErrors' \in 0 .. MaxIoErrors
      BY <1>13, <2>1, WriteCellbalType DEF WriteSection, TypeOK
  <2>3. at' \in Sections
      BY <1>13, FirstSection, NextSection DEF WriteSection, TypeOK
  <2>4. api' \in {"idle", "write"} /\ ok' \in BOOLEAN /\ switches' \in Mask
      BY <1>13 DEF WriteSection, TypeOK
  <2> QED
      BY <1>13, <2>2, <2>3, <2>4
         DEF WriteSection, TypeOK, workVars, choiceVars, mainVars
<1>14. CASE RejectSection
    BY <1>14, FirstSection
       DEF RejectSection, TypeOK, workVars, choiceVars, mainVars
<1>15. CASE UNCHANGED vars
    BY <1>15 DEF vars, TypeOK, workVars, choiceVars, mainVars, apiVars
<1> QED
    BY <1>1, <1>2, <1>3, <1>4, <1>5, <1>6, <1>7, <1>8, <1>9, <1>10, <1>11, <1>12,
       <1>13, <1>14, <1>15 DEF Next, Main, Handler, Call

(***************************************************************************)
(* The registers, the shared data and the positions of the three threads   *)
(* keep their types; the loops over the sections stay within them.         *)
(***************************************************************************)
THEOREM BalancingTypes == Spec => []TypeOK
  BY InitType, NextType, PTL DEF Spec

(***************************************************************************)
(* No two neighbours of a section are discharged: what the handler chooses *)
(* never contains two neighbours, and a request is looked at before it is  *)
(* written.                                                                *)
(***************************************************************************)
ApartInv == NoAdjacentCells /\ Apart(chosen)

LEMMA EmptyIsApart == Apart({})
  BY DEF Apart

LEMMA TryCellApart ==
  ASSUME TypeOK, Apart(chosen), NEW c \in Positions
  PROVE  Apart(TryCell(c))
<1>1. CASE \E b \in chosen : Adjacent(b, c)
    BY <1>1 DEF TryCell
<1>2. CASE ~\E b \in chosen : Adjacent(b, c)
  <2>1. \A b \in chosen : ~Adjacent(b, c) /\ ~Adjacent(c, b)
      BY <1>2 DEF Adjacent
  <2>2. ~Adjacent(c, c)
      BY DEF Adjacent, Positions
  <2> QED
      BY <1>2, <2>1, <2>2 DEF TryCell, Apart
<1> QED
    BY <1>1, <1>2

LEMMA WriteApart ==
  ASSUME TypeOK, NoAdjacentCells, NEW s \in Sections, NEW cells, Apart(cells),
         WriteCellbal(s, cells)
  PROVE  NoAdjacentCells'
  BY DEF TypeOK, Mask, NoAdjacentCells, WriteCellbal, Apart

LEMMA NextApart == TypeOK /\ ApartInv /\ [Next]_vars => ApartInv'
<1> SUFFICES ASSUME TypeOK, ApartInv, [Next]_vars PROVE ApartInv'
    OBVIOUS
<1> USE DEF ApartInv
<1>1. CASE HandlerStart
  <2>1. chosen' \in {chosen, {}}
      BY <1>1 DEF HandlerStart, BeginSection, choiceVars
  <2> QED
      BY <1>1, <2>1, EmptyIsApart DEF HandlerStart, NoAdjacentCells, Apart
<1>2. CASE ChooseCell
  <2>1. PICK c \in todo : chosen' = TryCell(c)
      BY <1>2 DEF ChooseCell
  <2>2. Apart(TryCell(c))
      BY <2>1, TryCellApart DEF TypeOK
  <2> QED
      BY <1>2, <2>1, <2>2 DEF ChooseCell, NoAdjacentCells, Apart
<1>3. CASE SetSection
  <2>1. NoAdjacentCells'
      BY <1>3, WriteApart DEF SetSection, TypeOK
  <2>2. chosen' \in {chosen, {}}
      BY <1>3 DEF SetSection, BeginSection, EndHandler, choiceVars
  <2> QED
      BY <2>1, <2>2, EmptyIsApart DEF Apart
<1>4. CASE ClearSection
  <2>1. NoAdjacentCells'
      BY <1>4, WriteApart, EmptyIsApart DEF ClearSection, TypeOK
  <2>2. UNCHANGED chosen
      BY <1>4 DEF ClearSection, EndHandler, choiceVars
  <2> QED
      BY <2>1, <2>2 DEF Apart
<1>5. CASE WriteSection
  <2>1. NoAdjacentCells'
      BY <1>5, WriteApart DEF WriteSection, Accepted, TypeOK
  <2>2. UNCHANGED chosen
      BY <1>5 DEF WriteSection, workVars, choiceVars
  <2> QED
      BY <2>1, <2>2 DEF Apart
<1>6. CASE UNCHANGED <<cellbal, chosen>>
    BY <1>6 DEF NoAdjacentCells, Apart
<1> QED
    BY <1>1, <1>2, <1>3, <1>4, <1>5, <1>6
       DEF Next, Main, ReadCellVoltages, ReadCellLimits, ReadCurrentAndStatus,
           IdleTimePasses, Handler, ConfigureAuto, ConfigureManual, Balance, Call,
           CancelReturns, RejectSection, vars, workVars, choiceVars

(***************************************************************************)
(* No thread ever discharges two neighbouring cells of a section: the      *)
(* handler and balance() both test for neighbours before they write.       *)
(***************************************************************************)
THEOREM NeighboursApart == Spec => []NoAdjacentCells
<1>1. Init => ApartInv
    BY EmptyIsApart DEF Init, ApartInv, NoAdjacentCells, NoCells
<1> QED
    BY <1>1, BalancingTypes, NextApart, PTL DEF Spec, ApartInv

(***************************************************************************)
(* A cell is left out only for a chosen neighbour of at least its voltage: *)
(* the cells still to be tried are below the chosen ones, hence one that   *)
(* collides is left out for a neighbour above it.                          *)
(***************************************************************************)
ChoiceInv ==
  work = "choose" =>
    /\ chosen \subseteq wanted \ todo
    /\ \A b \in chosen, c \in todo : seen[b] >= seen[c]
    /\ \A c \in wanted \ (todo \union chosen) :
         \E b \in chosen : Adjacent(b, c) /\ seen[b] >= seen[c]

LEMMA BeginKeepsChoice ==
  ASSUME NEW s, BeginSection(s)
  PROVE  ChoiceInv'
  BY DEF BeginSection, ChoiceInv

LEMMA ChooseKeepsChoice ==
  ASSUME TypeOK, ChoiceInv, ChooseCell
  PROVE  ChoiceInv'
<1>1. PICK c \in todo : ComesNext(c) /\ chosen' = TryCell(c) /\ todo' = todo \ {c}
    BY DEF ChooseCell
<1>2. /\ work = "choose" /\ UNCHANGED <<work, seen, wanted>>
      /\ seen \in [Positions -> Nat] /\ todo \subseteq wanted /\ wanted \subseteq Positions
    BY DEF ChooseCell, TypeOK
<1>3. \A b \in todo : seen[c] >= seen[b]
    BY <1>1, <1>2 DEF ComesNext
<1>4. CASE \E b \in chosen : Adjacent(b, c)
  <2>1. chosen' = chosen
      BY <1>1, <1>4 DEF TryCell
  <2>2. \E b \in chosen : Adjacent(b, c) /\ seen[b] >= seen[c]
      BY <1>1, <1>2, <1>4 DEF ChoiceInv
  <2> QED
      BY <1>1, <1>2, <2>1, <2>2 DEF ChoiceInv
<1>5. CASE ~\E b \in chosen : Adjacent(b, c)
  <2>1. chosen' = chosen \union {c}
      BY <1>1, <1>5 DEF TryCell
  <2>2. chosen' \subseteq wanted' \ todo'
      BY <1>1, <1>2, <2>1 DEF ChoiceInv
  <2>3. \A b \in chosen', a \in todo' : seen'[b] >= seen'[a]
      BY <1>1, <1>2, <1>3, <2>1 DEF ChoiceInv
  <2>4. \A a \in wanted' \ (todo' \union chosen') :
          \E b \in chosen' : Adjacent(b, a) /\ seen'[b] >= seen'[a]
      BY <1>1, <1>2, <2>1 DEF ChoiceInv
  <2> QED
      BY <1>2, <2>2, <2>3, <2>4 DEF ChoiceInv
<1> QED
    BY <1>4, <1>5

LEMMA NextChoice == TypeOK /\ ChoiceInv /\ [Next]_vars => ChoiceInv'
<1> SUFFICES ASSUME TypeOK, ChoiceInv, [Next]_vars PROVE ChoiceInv'
    OBVIOUS
<1>1. CASE work' # "choose"
    BY <1>1 DEF ChoiceInv
<1>2. CASE \E s \in Int : BeginSection(s)
    BY <1>2, BeginKeepsChoice
<1>3. CASE ChooseCell
    BY <1>3, ChooseKeepsChoice
<1>4. CASE UNCHANGED <<work, choiceVars>>
    BY <1>4 DEF ChoiceInv, choiceVars, Adjacent
<1>5. CASE HandlerStart
    BY <1>1, <1>2, <1>5 DEF HandlerStart
<1>6. CASE SetSection
  <2>1. section + 1 \in Int
      BY DEF TypeOK, Sections
  <2>2. CASE EndHandler
      BY <1>1, <2>2 DEF EndHandler
  <2> QED
      BY <1>2, <1>6, <2>1, <2>2 DEF SetSection
<1>7. CASE ClearSection
    BY <1>1, <1>7 DEF ClearSection, EndHandler
<1>8. CASE ConfigureAuto
    BY <1>1, <1>4, <1>8 DEF ConfigureAuto
<1>9. CASE ConfigureManual
    BY <1>1, <1>4, <1>9 DEF ConfigureManual
<1> QED
    BY <1>3, <1>4, <1>5, <1>6, <1>7, <1>8, <1>9
       DEF Next, Main, ReadCellVoltages, ReadCellLimits, ReadCurrentAndStatus,
           IdleTimePasses, Handler, Balance, Call, CancelReturns, WriteSection,
           RejectSection, vars, workVars

(***************************************************************************)
(* The greedy choice of the work handler leaves a cell out only for a      *)
(* neighbour of at least its voltage.                                      *)
(***************************************************************************)
THEOREM BestNeighbourChosen == Spec => []LeftOutForHigher
<1>1. Init => ChoiceInv
    BY DEF Init, ChoiceInv
<1>2. ChoiceInv => LeftOutForHigher
    BY DEF ChoiceInv, LeftOutForHigher
<1> QED
    BY <1>1, <1>2, BalancingTypes, NextChoice, PTL DEF Spec

(***************************************************************************)
(* Once automatic balancing is off and the work is cancelled, the handler  *)
(* stays away, and a call that writes the registers one by one has written *)
(* those below the one it is at.                                           *)
(***************************************************************************)
ManualInv ==
  /\ api # "idle" => ~auto
  /\ ~auto /\ api # "cancel" => work = "none"
  /\ api = "write" => \A s \in Sections : s < at => cellbal[s] = target[s]
  /\ ~auto /\ api = "idle" /\ ok => cellbal = switches

LEMMA WriteKeepsManual ==
  ASSUME TypeOK, ManualInv, WriteSection
  PROVE  ManualInv'
<1>1. /\ api = "write" /\ ~auto /\ work = "none"
      /\ UNCHANGED <<auto, work, target>>
    BY DEF WriteSection, ManualInv, workVars
<1>2. at \in Sections /\ cellbal \in Mask /\ target \in Mask /\ ioErrors \in Nat
    BY DEF TypeOK
<1>3. CASE ioErrors' > ioErrors
    BY <1>1, <1>3 DEF WriteSection, ManualInv
<1>4. CASE ~(ioErrors' > ioErrors)
  <2>1. cellbal' = [cellbal EXCEPT ![at] = target[at]]
      BY <1>2, <1>4 DEF WriteSection, WriteCellbal
  <2>2. \A s \in Sections : s <= at => cellbal'[s] = target[s]
      BY <1>1, <1>2, <2>1 DEF ManualInv, Mask, Sections
  <2>3. CASE More(at)
    <3>1. at' = at + 1 /\ api' = "write"
        BY <1>4, <2>3 DEF WriteSection
    <3> QED
        BY <1>1, <1>2, <2>2, <3>1 DEF ManualInv, Sections
  <2>4. CASE ~More(at)
    <3>1. api' = "idle" /\ switches' = target
        BY <1>4, <2>4 DEF WriteSection
    <3>2. \A s \in Sections : cellbal'[s] = target[s]
        BY <1>2, <2>2, <2>4 DEF More, Sections
    <3>3. cellbal' = target
        BY <1>2, <2>1, <3>2 DEF Mask
    <3> QED
        BY <1>1, <3>1, <3>3 DEF ManualInv
  <2> QED
      BY <2>3, <2>4
<1> QED
    BY <1>3, <1>4

LEMMA NextManual == TypeOK /\ ManualInv /\ [Next]_vars => ManualInv'
<1> SUFFICES ASSUME TypeOK, ManualInv, [Next]_vars PROVE ManualInv'
    OBVIOUS
<1> USE DEF ManualInv
<1>1. CASE Handler
  <2>1. work # "none"
      BY <1>1 DEF Handler, HandlerStart, ChooseCell, SetSection, ClearSection
  <2>2. UNCHANGED <<auto, api>> /\ (~auto => api = "cancel")
      BY <1>1, <2>1
         DEF Handler, HandlerStart, ChooseCell, SetSection, ClearSection, apiVars, TypeOK
  <2> QED
      BY <2>1, <2>2
<1>2. CASE ConfigureAuto
    BY <1>2 DEF ConfigureAuto
<1>3. CASE ConfigureManual
    BY <1>3 DEF ConfigureManual
<1>4. CASE CancelReturns
    BY <1>4 DEF CancelReturns, Cancelled, SetSwitches, workVars, Sections
<1>5. ASSUME NEW cells \in Requests, Balance(cells) PROVE ManualInv'
    BY <1>5 DEF Balance, SetSwitches, workVars, Sections
<1>6. CASE WriteSection
    BY <1>6, WriteKeepsManual
<1>7. CASE RejectSection
    BY <1>7 DEF RejectSection, workVars
<1>8. CASE UNCHANGED <<cellbal, work, apiVars>>
    BY <1>8 DEF apiVars
<1> QED
    BY <1>1, <1>2, <1>3, <1>4, <1>5, <1>6, <1>7, <1>8
       DEF Next, Main, ReadCellVoltages, ReadCellLimits, ReadCurrentAndStatus,
           IdleTimePasses, Call, vars, workVars

(***************************************************************************)
(* After a successful call that turns automatic balancing off or balances  *)
(* by hand, registers and driver agree and no handler is left.             *)
(***************************************************************************)
THEOREM ManualStays == Spec => []ManualTakesOver
<1>1. Init => ManualInv
    BY DEF Init, ManualInv
<1>2. ManualInv => ManualTakesOver
    BY DEF ManualInv, ManualTakesOver
<1> QED
    BY <1>1, <1>2, BalancingTypes, NextManual, PTL DEF Spec
==========================================================================
