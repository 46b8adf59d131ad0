--------------------------- MODULE MonitorProofs ---------------------------
(***************************************************************************)
(* Proofs about the button and the pace of the loop, about what is read of *)
(* the battery and about the state of charge: for any battery, any times,  *)
(* any number of presses and of transfers that fail.                       *)
(***************************************************************************)
EXTENDS Monitor, FiniteSetTheorems, TLAPS

StartUp == {"activate", "first reading", "button init"}
Polls == {"read", "soc", "button", "time", "next", "release"}

Times ==
  /\ now \in Nat /\ since \in Nat /\ time_pressed \in Nat
  /\ t_start \in Nat /\ wake \in Nat
  /\ since <= now /\ time_pressed <= since

\* time_pressed is the time of the last press, unless that came before
\* button_init().
PressInv ==
  /\ main \notin StartUp => watched # {}
  /\ watched # {} =>
       time_pressed = since \/ \E start \in watched : since <= start
  /\ main = "time" => pin \/ until = now

\* The loop is never ahead by more than an interval, and has caught up before
\* it waits with the button held for too long.
PaceInv ==
  /\ main \in StartUp \union Polls \union {"sleep", "off"}
  /\ main \in StartUp => t_start = 0
  /\ main \in Polls => t_start <= now
  /\ main = "sleep" => wake = t_start /\ t_start <= now + 1
  /\ main = "release" => t_start + 1 <= wake
  /\ main = "next" /\ pin => now - since <= LongPress \/ t_start + 1 <= now
  /\ LongPressIsSeen

ButtonInv == Times /\ PressInv /\ PaceInv

LEMMA Durations == LongPress \in Nat /\ Release \in Nat /\ Release >= 1
BY MonitorAssumption

LEMMA Longer ==
  ASSUME NEW a \in Nat, NEW b \in Nat, NEW d \in Nat, d >= 1, a <= b
  PROVE  a + 1 <= b + d
OBVIOUS

LEMMA ButtonStart == Init => ButtonInv
BY DEF Init, ButtonInv, Times, PressInv, PaceInv, LongPressIsSeen, StartUp

\* What the steps of the main thread share, but for its program counter.
LEMMA TimesKept ==
  ASSUME Times, UNCHANGED <<now, since, time_pressed>>,
         t_start' \in Nat, wake' \in Nat
  PROVE  Times'
BY DEF Times

LEMMA MainKeeps == ButtonInv /\ Main => ButtonInv'
<1> SUFFICES ASSUME ButtonInv, Main PROVE ButtonInv'
    OBVIOUS
<1> USE DEF buttonVars
<1>0. Times /\ PressInv /\ PaceInv
    BY DEF ButtonInv
<1>1. CASE Activate \/ FirstReading
  <2>1. /\ UNCHANGED <<now, since, time_pressed, t_start, wake, pin, until, watched>>
        /\ main' \in {"first reading", "button init"} /\ main \in StartUp
      BY <1>1 DEF Activate, FirstReading, StartUp
  <2>2. Times'
      BY <1>0, <2>1 DEF Times
  <2>3. PressInv'
      BY <1>0, <2>1 DEF PressInv, StartUp
  <2>4. PaceInv'
      BY <1>0, <2>1 DEF PaceInv, LongPressIsSeen, StartUp, Polls
  <2> QED
      BY <2>2, <2>3, <2>4 DEF ButtonInv
<1>2. CASE ButtonInit
  <2>1. /\ UNCHANGED <<now, since, time_pressed, wake, pin, until>>
        /\ watched' = {now} /\ t_start' = now /\ main' = "read"
      BY <1>2 DEF ButtonInit
  <2>2. Times'
      BY <1>0, <2>1 DEF Times
  <2>3. PressInv'
      BY <1>0, <2>1 DEF PressInv, StartUp, Times
  <2>4. t_start' <= now'
      BY <1>0, <2>1 DEF Times
  <2>5. PaceInv'
      BY <2>1, <2>4 DEF PaceInv, LongPressIsSeen, StartUp, Polls
  <2> QED
      BY <2>2, <2>3, <2>5 DEF ButtonInv
<1>3. CASE Read \/ bms_soc_update \/ ReadPin \/ WakesUp
  <2>1. /\ UNCHANGED <<now, since, time_pressed, t_start, wake, pin, until, watched>>
        /\ \/ main \in {"read", "soc", "button"} /\ main' \in {"soc", "button"}
           \/ main = "button" /\ main' = "time" /\ pin
           \/ main = "button" /\ main' = "next" /\ ~ pin
           \/ main = "sleep" /\ main' = "read" /\ now >= wake
      BY <1>3 DEF Read, bms_soc_update, ReadPin, WakesUp
  <2>2. Times'
      BY <1>0, <2>1 DEF Times
  <2>3. PressInv'
      BY <1>0, <2>1 DEF PressInv, StartUp
  <2>4. PaceInv'
      BY <1>0, <2>1 DEF PaceInv, LongPressIsSeen, StartUp, Polls
  <2> QED
      BY <2>2, <2>3, <2>4 DEF ButtonInv
<1>4. CASE ReadTime
  <2>1. /\ UNCHANGED <<now, since, time_pressed, t_start, pin, until, watched>>
        /\ main = "time"
        /\ \/ main' = "release" /\ wake' = now + Release
           \/ main' = "next" /\ wake' = wake /\ ~ (now - time_pressed > LongPress)
      BY <1>4 DEF ReadTime
  <2>2. Times'
      BY <1>0, <2>1, Durations DEF Times
  <2>3. PressInv'
      BY <1>0, <2>1 DEF PressInv, StartUp
  <2>4. t_start' <= now'
      BY <1>0, <2>1 DEF PaceInv, Polls
  <2>5. ASSUME main' = "release" PROVE PaceInv'
    <3>1. wake' = now' + Release
        BY <2>1, <2>5
    <3>2. t_start' + 1 <= wake'
      <4>1. t_start' \in Nat /\ now' \in Nat
          BY <2>2 DEF Times
      <4> QED
          BY <2>4, <3>1, <4>1, Durations, Longer
    <3> QED
        BY <2>4, <2>5, <3>2 DEF PaceInv, LongPressIsSeen, StartUp, Polls
  <2>6. ASSUME main' = "next" PROVE PaceInv'
    <3>1. ~ (now - time_pressed > LongPress)
        BY <2>1, <2>6
    <3>2. now' - since' <= LongPress
        BY <1>0, <2>1, <3>1, Durations DEF Times
    <3> QED
        BY <2>4, <2>6, <3>2 DEF PaceInv, LongPressIsSeen, StartUp, Polls
  <2> QED
      BY <2>1, <2>2, <2>3, <2>5, <2>6 DEF ButtonInv
<1>5. CASE SetModeOff
  <2>1. /\ UNCHANGED <<now, since, time_pressed, t_start, wake, pin, until, watched>>
        /\ main = "release" /\ now >= wake /\ main' \in {"off", "next"}
      BY <1>5 DEF SetModeOff
  <2>2. Times'
      BY <1>0, <2>1 DEF Times
  <2>3. PressInv'
      BY <1>0, <2>1 DEF PressInv, StartUp
  <2>4. t_start + 1 <= now /\ t_start <= now
      BY <1>0, <2>1 DEF PaceInv, Times, Polls
  <2>5. PaceInv'
      BY <1>0, <2>1, <2>4 DEF PaceInv, LongPressIsSeen, StartUp, Polls
  <2> QED
      BY <2>2, <2>3, <2>5 DEF ButtonInv
<1>6. CASE NextInterval
  <2>1. /\ UNCHANGED <<now, since, time_pressed, pin, until, watched>>
        /\ t_start' = t_start + 1 /\ wake' = t_start + 1
        /\ main = "next" /\ main' = "sleep"
      BY <1>6 DEF NextInterval
  <2>2. Times'
      BY <1>0, <2>1 DEF Times
  <2>3. PressInv'
      BY <1>0, <2>1 DEF PressInv, StartUp
  <2>4. /\ t_start <= now
        /\ pin => now - since <= LongPress \/ t_start + 1 <= now
      BY <1>0, <2>1 DEF PaceInv, Polls
  <2>5. LongPressIsSeen'
      BY <1>0, <2>1, <2>4 DEF LongPressIsSeen, Times
  <2>6. PaceInv'
      BY <1>0, <2>1, <2>4, <2>5 DEF PaceInv, StartUp, Polls, Times
  <2> QED
      BY <2>2, <2>3, <2>6 DEF ButtonInv
<1> QED
    BY <1>1, <1>2, <1>3, <1>4, <1>5, <1>6 DEF Main

LEMMA OthersKeep == ButtonInv /\ [Next]_vars /\ ~ Main => ButtonInv'
<1> SUFFICES ASSUME ButtonInv, [Next]_vars, ~ Main PROVE ButtonInv'
    OBVIOUS
<1>0. Times /\ PressInv /\ PaceInv
    BY DEF ButtonInv
<1>1. CASE Tick
  <2>1. /\ UNCHANGED <<since, time_pressed, t_start, wake, pin, until, watched, main>>
        /\ now' = now + 1 /\ Waits
      BY <1>1 DEF Tick, buttonVars
  <2>2. Times'
      BY <1>0, <2>1 DEF Times
  <2>3. PressInv'
      BY <1>0, <2>1 DEF PressInv, Waits
  <2>4. LongPressIsSeen'
    <3>1. ASSUME main = "sleep" PROVE ~ (now + 1 < wake)
        BY <1>0, <3>1 DEF PaceInv, Times
    <3> QED
        BY <2>1, <3>1 DEF LongPressIsSeen
  <2>5. main # "next"
      BY <2>1 DEF Waits
  <2>6. PaceInv'
      BY <1>0, <2>1, <2>4, <2>5 DEF PaceInv, Times
  <2> QED
      BY <2>2, <2>3, <2>6 DEF ButtonInv
<1>2. CASE Press
  <2>1. /\ UNCHANGED <<now, t_start, wake, until, watched, main>>
        /\ since' = now /\ pin' = TRUE
        /\ time_pressed' = IF watched = {} THEN time_pressed ELSE now
      BY <1>2 DEF Press, button_pressed_cb
  <2>2. Times'
      BY <1>0, <2>1 DEF Times
  <2>3. PressInv'
      BY <1>0, <2>1 DEF PressInv
  <2>4. now - since' <= LongPress
      BY <1>0, <2>1, Durations DEF Times
  <2>5. PaceInv'
      BY <1>0, <2>1, <2>4 DEF PaceInv, LongPressIsSeen
  <2> QED
      BY <2>2, <2>3, <2>5 DEF ButtonInv
<1>3. CASE ReleaseButton
  <2>1. /\ UNCHANGED <<now, since, time_pressed, t_start, wake, watched, main>>
        /\ pin' = FALSE /\ until' = now
      BY <1>3 DEF ReleaseButton
  <2>2. Times'
      BY <1>0, <2>1 DEF Times
  <2>3. PressInv'
      BY <1>0, <2>1 DEF PressInv
  <2>4. PaceInv'
      BY <1>0, <2>1 DEF PaceInv, LongPressIsSeen
  <2> QED
      BY <2>2, <2>3, <2>4 DEF ButtonInv
<1>4. CASE BatteryChanges \/ UNCHANGED vars
  <2>1. UNCHANGED <<now, since, time_pressed, t_start, wake, pin, until, watched, main>>
      BY <1>4 DEF BatteryChanges, buttonVars, vars
  <2>2. Times'
      BY <1>0, <2>1 DEF Times
  <2>3. PressInv'
      BY <1>0, <2>1 DEF PressInv
  <2>4. PaceInv'
      BY <1>0, <2>1 DEF PaceInv, LongPressIsSeen
  <2> QED
      BY <2>2, <2>3, <2>4 DEF ButtonInv
<1> QED
    BY <1>1, <1>2, <1>3, <1>4 DEF Next

\* Whoever holds the button for the long press has shut down the BMS before it
\* waits for the next interval, however long the loop was delayed.
THEOREM LongPressSeen == Spec => []LongPressIsSeen
<1>1. ButtonInv => LongPressIsSeen
    BY DEF ButtonInv, PaceInv
<1>2. ButtonInv /\ [Next]_vars => ButtonInv'
    BY MainKeeps, OthersKeep
<1> QED
    BY <1>1, <1>2, ButtonStart, PTL DEF Spec

\* The BMS shuts down only for a press that lasted, or that began before
\* button_init().
THEOREM LongPressOnly == Spec => OnlyLongPress
<1> DEFINE Lasted ==
      main = "time" /\ main' = "release" =>
        /\ pin \/ until = now
        /\ \/ now - since > LongPress
           \/ \E start \in watched : since <= start
<1>1. ButtonInv /\ [Next]_vars => [Lasted]_vars
  <2> SUFFICES ASSUME ButtonInv, Next, main = "time", main' = "release"
               PROVE  /\ pin \/ until = now
                      /\ \/ now - since > LongPress
                         \/ \E start \in watched : since <= start
      BY DEF vars
  <2>1. ReadTime
      BY DEF Next, Main, Activate, FirstReading, ButtonInit, Read, bms_soc_update,
             ReadPin, SetModeOff, NextInterval, WakesUp, Tick, BatteryChanges,
             Press, ReleaseButton
  <2>2. now - time_pressed > LongPress
      BY <2>1 DEF ReadTime
  <2>3. time_pressed = since \/ \E start \in watched : since <= start
      BY DEF ButtonInv, PressInv, StartUp
  <2>4. pin \/ until = now
      BY DEF ButtonInv, PressInv
  <2> QED
      BY <2>2, <2>3, <2>4
<1>2. ButtonInv /\ [Next]_vars => ButtonInv'
    BY MainKeeps, OthersKeep
<1> QED
    BY <1>1, <1>2, ButtonStart, PTL DEF Spec, OnlyLongPress
--------------------------------------------------------------------------
(***************************************************************************)
(* Maxima and sums of finitely many integers.  What is to be shown for all *)
(* subsets of a finite set is given as the set of those that have it.      *)
(***************************************************************************)
LEMMA SubsetsWellFounded ==
  ASSUME NEW S, IsFiniteSet(S)
  PROVE  IsWellFoundedOn(StrictSubsetOrdering(S), SUBSET S)
  BY FS_StrictSubsetOrderingWellFounded, FS_FiniteSubsetsOfFinite

LEMMA SubsetInduction ==
  ASSUME NEW S, IsFiniteSet(S), NEW Good,
         \A T \in SUBSET S : (\A U \in SUBSET T : U # T => U \in Good) => T \in Good
  PROVE  S \in Good
<1> DEFINE Bad == (SUBSET S) \ Good
<1> SUFFICES ASSUME S \notin Good PROVE FALSE
    OBVIOUS
<1>1. IsWellFoundedOn(StrictSubsetOrdering(S), SUBSET S)
    BY SubsetsWellFounded
<1>2. Bad \subseteq SUBSET S /\ Bad # {}
  <2>1. S \in Bad
      OBVIOUS
  <2> QED
      BY <2>1
<1>3. \E T \in Bad : \A U \in Bad : ~ (<<U, T>> \in StrictSubsetOrdering(S))
  <2> HIDE DEF Bad
  <2> QED
      BY <1>1, <1>2, WFMin
<1>4. PICK T \in Bad : \A U \in Bad : ~ (<<U, T>> \in StrictSubsetOrdering(S))
    BY <1>3
<1>5. ASSUME NEW U \in SUBSET T, U # T PROVE U \in Good
  <2>1. U \in SUBSET S /\ T \in SUBSET S
      BY <1>4
  <2>2. <<U, T>> \in StrictSubsetOrdering(S)
      BY <1>5, <2>1 DEF StrictSubsetOrdering
  <2> QED
      BY <1>4, <2>1, <2>2
<1> QED
    BY <1>4, <1>5

HasMax(T) == \E x \in T : \A y \in T : x >= y

LEMMA MaxExists ==
  ASSUME NEW S, IsFiniteSet(S)
  PROVE  S \subseteq Int /\ S # {} => HasMax(S)
<1> DEFINE Good == {T \in SUBSET S : T \subseteq Int /\ T # {} => HasMax(T)}
<1>1. ASSUME NEW T \in SUBSET S, \A U \in SUBSET T : U # T => U \in Good
      PROVE  T \in Good
  <2> SUFFICES ASSUME T \subseteq Int, NEW x \in T PROVE HasMax(T)
      OBVIOUS
  <2>1. CASE T \ {x} = {}
      BY <2>1 DEF HasMax
  <2>2. CASE T \ {x} # {}
    <3>1. HasMax(T \ {x})
        BY <1>1, <2>2
    <3>2. PICK m \in T \ {x} : \A y \in T \ {x} : m >= y
        BY <3>1 DEF HasMax
    <3>3. CASE m >= x
      <4>1. \A y \in T : m >= y
          BY <3>2, <3>3
      <4> QED
          BY <4>1 DEF HasMax
    <3>4. CASE ~ (m >= x)
      <4>1. \A y \in T : x >= y
          BY <3>2, <3>4
      <4> QED
          BY <4>1 DEF HasMax
    <3> QED
        BY <3>3, <3>4
  <2> QED
      BY <2>1, <2>2
<1>2. S \in Good
  <2> HIDE DEF Good
  <2> QED
      BY <1>1, SubsetInduction
<1> QED
    BY <1>2

LEMMA MaxIsMax ==
  ASSUME NEW S, IsFiniteSet(S), S \subseteq Int, S # {}
  PROVE  Max(S) \in S /\ \A y \in S : Max(S) >= y
  BY MaxExists DEF HasMax, Max

LEMMA LeastNumber ==
  ASSUME NEW T, T \subseteq Nat, T # {}
  PROVE  \E n \in T : \A m \in T : n <= m
<1>1. PICK k \in T : TRUE
    OBVIOUS
<1> DEFINE D == {d \in 0 .. k : k - d \in T}
<1>2. IsFiniteSet(0 .. k)
    BY FS_Interval
<1>3. IsFiniteSet(D) /\ D \subseteq Int /\ 0 \in D
    BY <1>1, <1>2, FS_Subset
<1> HIDE DEF D
<1>4. PICK d \in D : \A e \in D : d >= e
    BY <1>3, MaxExists DEF HasMax
<1> USE DEF D
<1>5. k - d \in T /\ d \in 0 .. k
    BY <1>4
<1>6. ASSUME NEW m \in T PROVE k - d <= m
  <2>1. CASE m <= k
    <3>1. k - m \in D
        BY <2>1
    <3> QED
        BY <1>4, <2>1, <3>1
  <2>2. CASE ~ (m <= k)
      BY <1>5, <2>2
  <2> QED
      BY <2>1, <2>2
<1> QED
    BY <1>5, <1>6

\* What the recursive function behind a sum has to satisfy; it exists.
SumStep(g, f, s) == IF s = {} THEN 0
                    ELSE f[CHOOSE x \in s : TRUE] + g[s \ {CHOOSE x \in s : TRUE}]

LEMMA SumStepType ==
  ASSUME NEW S, NEW f \in [S -> Int], NEW g, NEW s \in SUBSET S,
         \A x \in s : g[s \ {x}] \in Int
  PROVE  SumStep(g, f, s) \in Int
<1> DEFINE x == CHOOSE x \in s : TRUE
<1>1. CASE s = {}
    BY <1>1 DEF SumStep
<1>2. CASE s # {}
  <2>1. x \in s
      BY <1>2
  <2> HIDE DEF x
  <2>2. f[x] \in Int /\ g[s \ {x}] \in Int
      BY <2>1
  <2> QED
      BY <1>2, <2>2 DEF SumStep, x
<1> QED
    BY <1>1, <1>2

LEMMA SumsExist ==
  ASSUME NEW S, IsFiniteSet(S), NEW f \in [S -> Int]
  PROVE  \E g \in [SUBSET S -> Int] :
           \A s \in SUBSET S : g[s] = SumStep(g, f, s)
<1> DEFINE Solves(g, n) == \A s \in SUBSET S :
                            Cardinality(s) <= n => g[s] = SumStep(g, f, s)
           Bad == {n \in Nat : ~ \E g \in [SUBSET S -> Int] : Solves(g, n)}
<1>1. \A s \in SUBSET S : IsFiniteSet(s) /\ Cardinality(s) \in Nat
                         /\ Cardinality(s) <= Cardinality(S)
    BY FS_Subset, FS_CardinalityType
<1>2. Cardinality(S) \in Nat
    BY FS_CardinalityType
<1>3. Bad = {}
  <2> SUFFICES ASSUME Bad # {} PROVE FALSE
      OBVIOUS
  <2>0. Bad \in SUBSET Nat
      OBVIOUS
  <2> HIDE DEF Bad
  <2>1. PICK n \in Bad : \A m \in Bad : n <= m
      BY <2>0, LeastNumber
  <2> USE DEF Bad
  <2>2. n # 0
    <3> DEFINE g == [s \in SUBSET S |-> 0]
    <3>1. \A s \in SUBSET S : Cardinality(s) <= 0 => s = {}
        BY <1>1, FS_EmptySet
    <3>2. g \in [SUBSET S -> Int] /\ Solves(g, 0)
        BY <3>1 DEF SumStep
    <3> QED
        BY <3>2
  <2>3. n - 1 \in Nat /\ n - 1 \notin Bad
    <3>1. n - 1 \in Nat /\ ~ (n <= n - 1)
        BY <2>0, <2>1, <2>2
    <3> HIDE DEF Bad
    <3> QED
        BY <2>1, <3>1
  <2>4. PICK g \in [SUBSET S -> Int] : Solves(g, n - 1)
      BY <2>3
  <2> DEFINE h == [s \in SUBSET S |-> IF Cardinality(s) <= n - 1 THEN g[s]
                                      ELSE SumStep(g, f, s)]
  <2>5. \A s \in SUBSET S : SumStep(g, f, s) \in Int
      BY SumStepType
  <2>6. h \in [SUBSET S -> Int]
      BY <2>5
  <2>7. Solves(h, n)
    <3> SUFFICES ASSUME NEW s \in SUBSET S, Cardinality(s) <= n
                 PROVE  h[s] = SumStep(h, f, s)
        OBVIOUS
    <3>1. CASE s = {}
      <4>1. Cardinality(s) = 0
          BY <3>1, FS_EmptySet
      <4>2. 0 <= n - 1
          BY <2>3
      <4>3. h[s] = g[s] /\ g[s] = 0
          BY <2>4, <3>1, <4>1, <4>2 DEF SumStep
      <4> QED
          BY <3>1, <4>3 DEF SumStep
    <3>2. CASE s # {}
      <4> DEFINE x == CHOOSE x \in s : TRUE
      <4>1. x \in s
          BY <3>2
      <4> HIDE DEF x
      <4>2. Cardinality(s \ {x}) = Cardinality(s) - 1 /\ s \ {x} \in SUBSET S
          BY <1>1, <4>1, FS_RemoveElement
      <4>3. Cardinality(s \ {x}) <= n - 1
          BY <1>1, <2>3, <4>2
      <4>4. h[s \ {x}] = g[s \ {x}]
          BY <4>2, <4>3
      <4>5. SumStep(h, f, s) = SumStep(g, f, s)
          BY <3>2, <4>4 DEF SumStep, x
      <4>6. h[s] = SumStep(g, f, s)
          BY <2>4
      <4> QED
          BY <4>5, <4>6
    <3> QED
        BY <3>1, <3>2
  <2>8. n \notin Bad
      BY <2>6, <2>7
  <2> QED
      BY <2>1, <2>8
<1>4. PICK g \in [SUBSET S -> Int] : Solves(g, Cardinality(S))
    BY <1>2, <1>3
<1> QED
    BY <1>1, <1>4

LEMMA SumType ==
  ASSUME NEW S, IsFiniteSet(S), NEW f \in [S -> Int]
  PROVE  SumOf(f) \in Int
<1> DEFINE iter == CHOOSE h : h = [s \in SUBSET S |-> SumStep(h, f, s)]
<1>1. PICK g \in [SUBSET S -> Int] : \A s \in SUBSET S : g[s] = SumStep(g, f, s)
    BY SumsExist
<1>2. g = [s \in SUBSET S |-> SumStep(g, f, s)]
    BY <1>1
<1>3. iter = [s \in SUBSET S |-> SumStep(iter, f, s)]
    BY <1>2
<1>4. SumOf(f) = iter[S]
    BY DEF SumOf, FoldFunction, FoldFunctionOnSet, MapThenFoldSet, SumStep
<1> HIDE DEF iter
<1> DEFINE Good == {s \in SUBSET S : iter[s] \in Int}
<1>5. ASSUME NEW T \in SUBSET S, \A U \in SUBSET T : U # T => U \in Good
      PROVE  T \in Good
  <2>1. \A x \in T : iter[T \ {x}] \in Int
      BY <1>5
  <2>2. SumStep(iter, f, T) \in Int
      BY <2>1, SumStepType
  <2>3. iter[T] = SumStep(iter, f, T)
      BY <1>3
  <2> QED
      BY <2>2, <2>3
<1>6. S \in Good
  <2> HIDE DEF Good
  <2> QED
      BY <1>5, SubsetInduction
<1> QED
    BY <1>4, <1>6
--------------------------------------------------------------------------
(***************************************************************************)
(* The interpolation of the state of charge stays within the values of the *)
(* table.                                                                  *)
(***************************************************************************)
LEMMA ProductMonotone ==
  ASSUME NEW m \in Nat, NEW k \in Nat, NEW d \in Nat, k <= d
  PROVE  m * k \in Nat /\ m * k <= m * d
<1>1. m * d = m * k + m * (d - k)
    OBVIOUS
<1>2. m * (d - k) >= 0
    OBVIOUS
<1>3. m * k \in Nat /\ m * d \in Nat
    OBVIOUS
<1> QED
    BY <1>1, <1>2, <1>3

LEMMA Quotient ==
  ASSUME NEW m \in Nat, NEW k \in Nat, NEW d \in Nat, 0 < d, k <= d
  PROVE  (m * k) \div d \in 0 .. m
<1>1. m * k \in Nat /\ m * k <= m * d
    BY ProductMonotone
<1> DEFINE q == (m * k) \div d
<1>2. q \in Nat /\ d * q <= m * k
    BY <1>1
<1>3. ASSUME q > m PROVE FALSE
  <2>1. m + 1 <= q
      BY <1>2, <1>3
  <2>2. d * (m + 1) <= d * q
      BY <1>2, <2>1, ProductMonotone
  <2>3. d * (m + 1) = m * d + d
      OBVIOUS
  <2> HIDE DEF q
  <2>4. m * d \in Nat /\ d * q \in Nat
      BY <1>2
  <2> QED
      BY <1>1, <1>2, <2>2, <2>3, <2>4
<1> QED
    BY <1>2, <1>3

LEMMA SegmentBounds ==
  ASSUME NEW b1 \in Int, NEW b2 \in Int, b2 <= b1,
         NEW a1 \in Int, NEW a2 \in Int, NEW x \in Int, a2 <= x, x < a1
  PROVE  b1 + Truncated((b2 - b1) * Abs(x - a1), Abs(a2 - a1)) \in b2 .. b1
<1> DEFINE m == b1 - b2
           k == a1 - x
           d == a1 - a2
<1>1. m \in Nat /\ k \in Nat /\ d \in Nat /\ k <= d /\ 0 < d /\ 0 < k
    OBVIOUS
<1>2. Abs(x - a1) = k /\ Abs(a2 - a1) = d
    BY DEF Abs
<1>3. (b2 - b1) * k = - (m * k)
    OBVIOUS
<1>4. m * k \in Nat
    BY <1>1
<1> HIDE DEF m, k, d
<1>5. (m * k) \div d \in 0 .. m
    BY <1>1, Quotient
<1>6. Truncated(- (m * k), d) = - ((m * k) \div d)
  <2>1. CASE m * k = 0
    <3>1. 0 \div d = 0
        BY <1>1
    <3> QED
        BY <2>1, <3>1 DEF Truncated
  <2>2. CASE m * k # 0
    <3>1. ~ (- (m * k) >= 0) /\ - (- (m * k)) = m * k
        BY <1>4, <2>2
    <3> QED
        BY <3>1 DEF Truncated
  <2> QED
      BY <2>1, <2>2
<1>7. b1 - ((m * k) \div d) \in b2 .. b1
    BY <1>5 DEF m
<1> QED
    BY <1>2, <1>3, <1>5, <1>6, <1>7

Falling(a, n) == /\ n \in Nat /\ n >= 2
                 /\ a \in [1 .. n -> Int] /\ Len(a) = n
                 /\ \A i \in 2 .. n : a[i] <= a[i - 1]

LEMMA InterpolationBounds ==
  ASSUME NEW n, NEW a, NEW b, Falling(a, n), Falling(b, n), a[n] < a[1],
         NEW x \in Int, NEW F \in Nat, \A i \in 1 .. n : b[i] \in 0 .. F
  PROVE  interpolate(a, b, x) \in 0 .. F
<1> DEFINE reached == {i \in DOMAIN a : Reached(a, i, x)}
           first == CHOOSE i \in reached : \A j \in reached : i <= j
<1>0. DOMAIN a = 1 .. n /\ n \in Nat /\ n >= 2 /\ Len(a) = n /\ Len(b) = n
    BY DEF Falling
<1>1. \A i \in 1 .. n : Reached(a, i, x) <=> x >= a[i]
    BY <1>0 DEF Reached, Falling
<1>2. CASE reached = {}
    BY <1>0, <1>2 DEF interpolate
<1>3. CASE reached # {}
  <2>1. \E i \in reached : \A j \in reached : i <= j
    <3>1. reached \subseteq Nat
        BY <1>0
    <3> HIDE DEF reached
    <3> QED
        BY <1>3, <3>1, LeastNumber
  <2>2. first \in reached /\ \A j \in reached : first <= j
      BY <2>1
  <2>3. interpolate(a, b, x) = IF first = 1 THEN b[1] ELSE OnSegment(a, b, first, x)
      BY <1>3 DEF interpolate
  <2> HIDE DEF first
  <2>4. first \in 1 .. n /\ x >= a[first]
      BY <1>0, <1>1, <2>2
  <2>5. CASE first = 1
      BY <1>0, <2>3, <2>5
  <2>6. CASE first # 1
    <3>1. first \in 2 .. n /\ first - 1 \in 1 .. n
        BY <1>0, <2>4, <2>6
    <3>2. first - 1 \notin reached
        BY <2>2, <3>1
    <3>3. x < a[first - 1]
      <4>1. ~ (x >= a[first - 1])
          BY <1>0, <1>1, <3>1, <3>2
      <4> QED
          BY <3>1, <4>1 DEF Falling
    <3>4. /\ b[first] <= b[first - 1] /\ b[first] \in 0 .. F /\ b[first - 1] \in 0 .. F
          /\ a[first] \in Int /\ a[first - 1] \in Int
        BY <2>4, <3>1 DEF Falling
    <3>5. OnSegment(a, b, first, x) \in b[first] .. b[first - 1]
      <4> DEFINE high == a[first - 1]
                 low  == a[first]
                 full == b[first - 1]
                 less == b[first]
      <4>1. /\ high \in Int /\ low \in Int /\ full \in Int /\ less \in Int
            /\ less <= full /\ low <= x /\ x < high
          BY <2>4, <3>3, <3>4
      <4>2. OnSegment(a, b, first, x)
              = full + Truncated((less - full) * Abs(x - high), Abs(low - high))
          BY DEF OnSegment
      <4> HIDE DEF high, low, full, less
      <4>3. full + Truncated((less - full) * Abs(x - high), Abs(low - high))
              \in less .. full
          BY <4>1, SegmentBounds
      <4>4. OnSegment(a, b, first, x) \in less .. full
          BY <4>2, <4>3
      <4> QED
          BY <4>4 DEF less, full
    <3> QED
        BY <2>3, <2>6, <3>4, <3>5
  <2> QED
      BY <2>5, <2>6
<1> QED
    BY <1>2, <1>3

\* The tables of bms_common.c fall.
LEMMA Tables ==
  /\ Falling(ocv_points, 21) /\ ocv_points[21] < ocv_points[1]
  /\ Falling(soc_default, 21) /\ \A i \in 1 .. 21 : soc_default[i] \in 0 .. Full
  /\ Falling(ocv_simple, 2) /\ ocv_simple[2] < ocv_simple[1]
  /\ Falling(<<Full, 0>>, 2)
<1>1. Falling(ocv_lfp, 21) /\ ocv_lfp[21] < ocv_lfp[1]
    BY DEF Falling, ocv_lfp
<1>2. Falling(ocv_nmc, 21) /\ ocv_nmc[21] < ocv_nmc[1]
    BY DEF Falling, ocv_nmc
<1>3. Falling(ocv_lto, 21) /\ ocv_lto[21] < ocv_lto[1]
    BY DEF Falling, ocv_lto
<1>4. Falling(ocv_points, 21) /\ ocv_points[21] < ocv_points[1]
    BY <1>1, <1>2, <1>3, MonitorAssumption DEF ocv_points
<1>5. Falling(ocv_simple, 2) /\ ocv_simple[2] < ocv_simple[1]
    BY MonitorAssumption DEF ocv_simple, Falling
<1>6. Falling(<<Full, 0>>, 2)
    BY MonitorAssumption DEF Falling
<1>7. Falling(soc_default, 21) /\ \A i \in 1 .. 21 : soc_default[i] \in 0 .. Full
  <2> DEFINE q == Full \div 100
  <2>1. q \in Nat /\ q * 100 = Full
      BY MonitorAssumption
  <2> HIDE DEF q
  <2>2. \A i \in 1 .. 21 : soc_default[i] = q * (105 - 5 * i)
      BY DEF soc_default, q
  <2>3. \A k \in 0 .. 100 : q * k \in 0 .. Full
      BY <2>1, ProductMonotone
  <2>4. \A i \in 1 .. 21 : soc_default[i] \in 0 .. Full
      BY <2>2, <2>3
  <2>5. ASSUME NEW i \in 2 .. 21 PROVE soc_default[i] <= soc_default[i - 1]
    <3>1. /\ 105 - 5 * i \in Nat /\ 105 - 5 * (i - 1) \in Nat
          /\ 105 - 5 * i <= 105 - 5 * (i - 1)
        OBVIOUS
    <3>2. q * (105 - 5 * i) <= q * (105 - 5 * (i - 1))
        BY <2>1, <3>1, ProductMonotone
    <3> QED
        BY <2>2, <3>2
  <2>6. soc_default \in [1 .. 21 -> Int]
      BY <2>4, MonitorAssumption DEF soc_default
  <2>7. Len(soc_default) = 21
      BY <2>6
  <2> QED
      BY <2>4, <2>5, <2>6, <2>7 DEF Falling
<1> QED
    BY <1>4, <1>5, <1>6, <1>7

LEMMA ResetBounds ==
  ASSUME NEW avg \in Int PROVE bms_soc_reset(avg) \in 0 .. Full
<1>1. Full \in Nat
    BY MonitorAssumption
<1>2. CASE curve = "none"
  <2>1. \A i \in 1 .. 2 : <<Full, 0>>[i] \in 0 .. Full
      BY <1>1
  <2>2. interpolate(ocv_simple, <<Full, 0>>, avg) \in 0 .. Full
      BY <1>1, <2>1, Tables, InterpolationBounds
  <2> QED
      BY <1>2, <2>2 DEF bms_soc_reset
<1>3. CASE curve # "none"
  <2>1. interpolate(ocv_points, soc_default, avg) \in 0 .. Full
      BY <1>1, Tables, InterpolationBounds
  <2> QED
      BY <1>3, <2>1 DEF bms_soc_reset
<1> QED
    BY <1>2, <1>3
--------------------------------------------------------------------------
(***************************************************************************)
(* What read_data() makes of ic_data.                                      *)
(***************************************************************************)
Fields == {"voltages", "connected", "avg", "min", "max", "total", "temps", "tmin",
           "tmax", "current", "flags"}
DataTypes(d, b) == /\ DOMAIN d = Fields
                   /\ d.avg \in Int /\ d.current \in Int
                   /\ DOMAIN d.temps = DOMAIN b.temps

LEMMA BatteryTypes ==
  ASSUME NEW b \in Batteries
  PROVE  /\ b.cells \in [DOMAIN b.cells -> Int] /\ b.temps \in [DOMAIN b.temps -> Int]
         /\ \E n \in Nat \ {0} : DOMAIN b.cells = 1 .. n
         /\ \E n \in Nat \ {0} : DOMAIN b.temps = 1 .. n
         /\ b.current \in Int /\ b.stack \in Nat
<1>1. /\ b.cells \in Seq(Nat) /\ b.cells # <<>> /\ b.temps \in Seq(Int)
      /\ b.temps # <<>> /\ b.stack \in Nat /\ b.current \in Int
    BY BatteryAssumption
<1>2. \E n \in Nat \ {0} : DOMAIN b.cells = 1 .. n
    BY <1>1
<1>3. \E n \in Nat \ {0} : DOMAIN b.temps = 1 .. n
    BY <1>1
<1> QED
    BY <1>1, <1>2, <1>3

\* A voltage that cannot be read is replaced by one that was read, or by the
\* first value.
LEMMA CarriedType ==
  ASSUME NEW n \in Nat, NEW values \in [1 .. n -> Int], NEW failures, NEW first \in Int
  PROVE  /\ Carried(values, failures, first) \in [1 .. n -> Int]
         /\ failures = {} => Carried(values, failures, first) = values
<1> DEFINE good(i) == {j \in 1 .. i : j \notin failures}
<1>1. ASSUME NEW i \in 1 .. n, good(i) # {}
      PROVE  /\ Max(good(i)) \in good(i)
             /\ failures = {} => Max(good(i)) = i
  <2>1. IsFiniteSet(1 .. i)
      BY FS_Interval
  <2>2. IsFiniteSet(good(i)) /\ good(i) \subseteq Int
      BY <2>1, FS_Subset
  <2>3. failures = {} => i \in good(i)
      OBVIOUS
  <2>4. \A j \in good(i) : j <= i
      OBVIOUS
  <2> HIDE DEF good
  <2>5. Max(good(i)) \in good(i) /\ \A j \in good(i) : Max(good(i)) >= j
      BY <1>1, <2>2, MaxIsMax
  <2>6. failures = {} => Max(good(i)) = i
      BY <2>2, <2>3, <2>4, <2>5
  <2> QED
      BY <2>5, <2>6
<1>2. ASSUME NEW i \in 1 .. n
      PROVE  /\ (IF good(i) = {} THEN first ELSE values[Max(good(i))]) \in Int
             /\ failures = {} =>
                  (IF good(i) = {} THEN first ELSE values[Max(good(i))]) = values[i]
  <2>1. CASE good(i) = {}
    <3>1. failures = {} => i \in good(i)
        OBVIOUS
    <3> QED
        BY <2>1, <3>1
  <2>2. CASE good(i) # {}
      BY <1>1, <2>2
  <2> QED
      BY <2>1, <2>2
<1>3. Carried(values, failures, first)
        = [i \in 1 .. n |-> IF good(i) = {} THEN first ELSE values[Max(good(i))]]
    BY DEF Carried
<1> HIDE DEF good
<1> QED
    BY <1>2, <1>3

LEMMA AverageType ==
  ASSUME NEW n \in Nat, NEW voltages \in [1 .. n -> Int]
  PROVE  Average(voltages) \in Int
<1> DEFINE connected == Connected(voltages)
           f == [i \in connected |-> voltages[i]]
<1>1. IsFiniteSet(1 .. n) /\ connected \in SUBSET (1 .. n)
    BY FS_Interval DEF Connected
<1>2. IsFiniteSet(connected) /\ f \in [connected -> Int]
    BY <1>1, FS_Subset
<1>3. Cardinality(connected) \in Nat /\ (Cardinality(connected) = 0 <=> connected = {})
    BY <1>2, FS_CardinalityType, FS_EmptySet
<1>4. SumOf(f) \in Int
  <2> HIDE DEF connected, f
  <2> QED
      BY <1>2, SumType
<1>5. Average(voltages) = IF connected = {} THEN NaN
                          ELSE SumOf(f) \div Cardinality(connected)
    BY DEF Average
<1> HIDE DEF connected, f
<1> QED
    BY <1>3, <1>4, <1>5 DEF NaN

LEMMA CellsRead ==
  ASSUME NEW b \in Batteries, NEW d, DataTypes(d, b), NEW c, NEW failed,
         NEW e, e = ReadCells(c, d, b, failed)
  PROVE  /\ DataTypes(e, b) /\ e.temps = d.temps
         /\ e.current = d.current /\ e.flags = d.flags
         /\ failed = {} => e.voltages = b.cells
<1>1. PICK n \in Nat : DOMAIN b.cells = 1 .. n /\ b.cells \in [1 .. n -> Int]
    BY BatteryTypes
<1> DEFINE failures == FailedCells(b, failed)
           voltages == Carried(b.cells, failures, 0)
<1>2. failed = {} => failures = {}
    BY DEF FailedCells
<1>3. voltages \in [1 .. n -> Int] /\ (failures = {} => voltages = b.cells)
  <2> HIDE DEF failures
  <2> QED
      BY <1>1, CarriedType
<1>4. Average(voltages) \in Int
  <2> HIDE DEF voltages
  <2> QED
      BY <1>3, AverageType
<1>5. CASE c = "bq769x0" /\ failures # {}
    BY <1>2, <1>5 DEF ReadCells, DataTypes, Fields
<1>6. CASE ~ (c = "bq769x0" /\ failures # {})
  <2>1. e = WithStatistics(c, d, voltages)
      BY <1>6 DEF ReadCells
  <2> HIDE DEF voltages, failures
  <2> QED
      BY <1>2, <1>3, <1>4, <2>1 DEF WithStatistics, DataTypes, Fields
<1> QED
    BY <1>5, <1>6

LEMMA TotalRead ==
  ASSUME NEW b \in Batteries, NEW d, DataTypes(d, b), NEW c, NEW failed,
         NEW e, e = ReadTotal(c, d, b, failed)
  PROVE  /\ DataTypes(e, b) /\ e.voltages = d.voltages /\ e.temps = d.temps
         /\ e.current = d.current /\ e.flags = d.flags
         /\ failed = {} /\ c # "isl94202" => e.total = b.stack
  BY DEF ReadTotal, DataTypes, Fields

LEMMA TempsRead ==
  ASSUME NEW b \in Batteries, NEW d, DataTypes(d, b), NEW failed,
         NEW c \in {"bq769x0", "bq769x2", "isl94202"},
         NEW e \in ReadTemps(c, d, b, failed)
  PROVE  /\ DataTypes(e, b) /\ e.voltages = d.voltages /\ e.total = d.total
         /\ e.current = d.current /\ e.flags = d.flags
         /\ failed = {} /\ c # "isl94202" =>
              e.temps = b.temps /\ e.tmax = Max(Range(b.temps))
<1>1. PICK n \in Nat \ {0} : DOMAIN b.temps = 1 .. n /\ b.temps \in [1 .. n -> Int]
    BY BatteryTypes
<1>2. failed = {} => FailedTemps(b, failed) = {}
    BY DEF FailedTemps
<1>3. CASE c = "bq769x0"
  <2> DEFINE read == Prefix(b.temps, FailedTemps(b, failed))
  <2>1. e = ReadTempsBq769x0(d, b, failed)
      BY <1>3 DEF ReadTemps
  <2>2. ASSUME failed = {}
        PROVE  read = 1 .. n /\ {b.temps[i] : i \in read} = Range(b.temps)
      BY <1>1, <1>2, <2>2 DEF Prefix, Range
  <2>3. /\ DataTypes(e, b) /\ e.voltages = d.voltages /\ e.total = d.total
        /\ e.current = d.current /\ e.flags = d.flags
    <3> HIDE DEF read
    <3>1. CASE read = {}
        BY <2>1, <3>1 DEF ReadTempsBq769x0, read
    <3>2. CASE read # {}
        BY <2>1, <3>2 DEF ReadTempsBq769x0, read, DataTypes, Fields
    <3> QED
        BY <3>1, <3>2
  <2>4. ASSUME failed = {}
        PROVE  e.temps = b.temps /\ e.tmax = Max(Range(b.temps))
    <3>1. read # {} /\ read = DOMAIN d.temps
        BY <1>1, <2>2, <2>4 DEF DataTypes
    <3>2. e.temps = [i \in DOMAIN d.temps |->
                       IF i \in read THEN b.temps[i] ELSE d.temps[i]]
        BY <2>1, <3>1 DEF ReadTempsBq769x0, DataTypes, Fields
    <3>3. e.tmax = Max({b.temps[i] : i \in read})
        BY <2>1, <3>1 DEF ReadTempsBq769x0, DataTypes, Fields
    <3> QED
        BY <1>1, <2>2, <2>4, <3>1, <3>2, <3>3
  <2> QED
      BY <2>3, <2>4
<1>4. CASE c = "bq769x2"
  <2> DEFINE temps == Carried(b.temps, FailedTemps(b, failed), -273)
  <2>1. temps \in [1 .. n -> Int] /\ (failed = {} => temps = b.temps)
      BY <1>1, <1>2, CarriedType
  <2>2. e = WithTemps(d, temps)
      BY <1>4 DEF ReadTemps, ReadTempsBq769x2
  <2> HIDE DEF temps
  <2> QED
      BY <1>1, <2>1, <2>2 DEF WithTemps, DataTypes, Fields
<1>5. CASE c # "bq769x0" /\ c # "bq769x2"
  <2>1. PICK v : e = [d EXCEPT !.tmax = v, !.tmin = v]
      BY <1>5 DEF ReadTemps, ReadTempsIsl94202
  <2> QED
      BY <1>5, <2>1 DEF DataTypes, Fields
<1> QED
    BY <1>3, <1>4, <1>5

LEMMA FieldUpdated ==
  ASSUME NEW d, DOMAIN d = Fields, NEW k \in Fields, NEW v,
         NEW e, e = [d EXCEPT ![k] = v]
  PROVE  DOMAIN e = Fields /\ e[k] = v /\ \A j \in Fields \ {k} : e[j] = d[j]
  OBVIOUS

LEMMA CurrentUpdated ==
  ASSUME NEW b, NEW d, DataTypes(d, b), NEW v \in Int,
         NEW e, e = [d EXCEPT !.current = v]
  PROVE  /\ DataTypes(e, b) /\ e.voltages = d.voltages /\ e.total = d.total
         /\ e.temps = d.temps /\ e.tmax = d.tmax /\ e.flags = d.flags
         /\ e.current = v
<1>1. /\ DOMAIN e = Fields /\ e["current"] = v
      /\ \A j \in Fields \ {"current"} : e[j] = d[j]
    BY FieldUpdated DEF DataTypes, Fields
<1> QED
    BY <1>1 DEF DataTypes, Fields

LEMMA FlagsUpdated ==
  ASSUME NEW b, NEW d, DataTypes(d, b), NEW v,
         NEW e, e = [d EXCEPT !.flags = v]
  PROVE  /\ DataTypes(e, b) /\ e.voltages = d.voltages /\ e.total = d.total
         /\ e.temps = d.temps /\ e.tmax = d.tmax /\ e.current = d.current
         /\ e.flags = v
<1>1. /\ DOMAIN e = Fields /\ e["flags"] = v
      /\ \A j \in Fields \ {"flags"} : e[j] = d[j]
    BY FieldUpdated DEF DataTypes, Fields
<1> QED
    BY <1>1 DEF DataTypes, Fields

LEMMA CurrentRead ==
  ASSUME NEW b \in Batteries, NEW d, DataTypes(d, b), NEW c, NEW failed,
         NEW e \in ReadCurrent(c, d, b, failed)
  PROVE  /\ DataTypes(e, b) /\ e.voltages = d.voltages /\ e.total = d.total
         /\ e.temps = d.temps /\ e.tmax = d.tmax /\ e.flags = d.flags
         /\ failed = {} => e.current = b.current
<1> DEFINE values == IF <<"current", 0>> \notin failed THEN {b.current}
                     ELSE IF c = "bq769x0" THEN {d.current}
                     ELSE IF c = "bq769x2" THEN {0}
                     ELSE GarbageCurrents
<1>1. values \subseteq Int /\ (failed = {} => values = {b.current})
  <2>1. b.current \in Int
      BY BatteryTypes
  <2>2. d.current \in Int
      BY DEF DataTypes
  <2>3. GarbageCurrents \subseteq Int
      BY MeasurementAssumption
  <2>4. values \in {{b.current}, {d.current}, {0}, GarbageCurrents}
      OBVIOUS
  <2>5. failed = {} => values = {b.current}
      OBVIOUS
  <2> HIDE DEF values
  <2>6. CASE values = GarbageCurrents
      BY <2>3, <2>5, <2>6
  <2>7. CASE values \in {{b.current}, {d.current}, {0}}
      BY <2>1, <2>2, <2>5, <2>7
  <2> QED
      BY <2>4, <2>6, <2>7
<1>2. PICK v \in values : e = [d EXCEPT !.current = v]
    BY DEF ReadCurrent
<1> HIDE DEF values
<1> QED
    BY <1>1, <1>2, CurrentUpdated

LEMMA FlagsRead ==
  ASSUME NEW b \in Batteries, NEW d, DataTypes(d, b), NEW c, NEW failed,
         NEW e \in ReadErrorFlags(c, d, b, failed)
  PROVE  /\ DataTypes(e, b) /\ e.voltages = d.voltages /\ e.total = d.total
         /\ e.temps = d.temps /\ e.tmax = d.tmax /\ e.current = d.current
         /\ failed = {} =>
              e.flags = b.flags \union IF c = "bq769x0" THEN Supervised(d) ELSE {}
<1> DEFINE read == b.flags \union IF c = "bq769x0" THEN Supervised(d) ELSE {}
           values == IF <<"status", 0>> \in failed
                     THEN IF c = "isl94202" THEN GarbageFlags ELSE {d.flags}
                     ELSE {read}
<1>1. failed = {} => values = {read}
    OBVIOUS
<1>2. PICK v \in values : e = [d EXCEPT !.flags = v]
    BY DEF ReadErrorFlags
<1>3. failed = {} => v = read
    BY <1>1, <1>2
<1> HIDE DEF values, read
<1>4. /\ DataTypes(e, b) /\ e.voltages = d.voltages /\ e.total = d.total
      /\ e.temps = d.temps /\ e.tmax = d.tmax /\ e.current = d.current
      /\ e.flags = v
    BY <1>2, FlagsUpdated
<1> QED
    BY <1>3, <1>4 DEF read

LEMMA DataRead ==
  ASSUME NEW b \in Batteries, NEW d, DataTypes(d, b), NEW failed,
         NEW c \in {"bq769x0", "bq769x2", "isl94202"},
         NEW e \in ReadData(c, d, b, failed)
  PROVE  /\ DataTypes(e, b)
         /\ failed = {} /\ c # "isl94202" =>
              /\ e.voltages = b.cells /\ e.temps = b.temps /\ e.total = b.stack
              /\ e.current = b.current /\ b.flags \subseteq e.flags
              /\ c = "bq769x0" =>
                   \E d2 : /\ e.flags = b.flags \union Supervised(d2)
                           /\ d2.flags = d.flags
                           /\ d2.tmax = Max(Range(b.temps))
<1> DEFINE cells == ReadCells(c, d, b, failed)
           total == ReadTotal(c, cells, b, failed)
<1>1. PICK d1 \in ReadTemps(c, total, b, failed) :
        \E d2 \in ReadCurrent(c, d1, b, failed) : e \in ReadErrorFlags(c, d2, b, failed)
    BY DEF ReadData
<1>2. PICK d2 \in ReadCurrent(c, d1, b, failed) : e \in ReadErrorFlags(c, d2, b, failed)
    BY <1>1
<1>3. /\ DataTypes(cells, b) /\ cells.flags = d.flags
      /\ failed = {} => cells.voltages = b.cells
    BY CellsRead
<1> HIDE DEF cells
<1>4. /\ DataTypes(total, b) /\ total.flags = d.flags
      /\ failed = {} /\ c # "isl94202" =>
           total.voltages = b.cells /\ total.total = b.stack
    BY <1>3, TotalRead
<1> HIDE DEF total
<1>5. /\ DataTypes(d1, b) /\ d1.flags = d.flags
      /\ failed = {} /\ c # "isl94202" =>
           /\ d1.voltages = b.cells /\ d1.total = b.stack
           /\ d1.temps = b.temps /\ d1.tmax = Max(Range(b.temps))
    BY <1>1, <1>4, TempsRead
<1>6. /\ DataTypes(d2, b) /\ d2.flags = d.flags
      /\ failed = {} /\ c # "isl94202" =>
           /\ d2.voltages = b.cells /\ d2.total = b.stack /\ d2.current = b.current
           /\ d2.temps = b.temps /\ d2.tmax = Max(Range(b.temps))
    BY <1>2, <1>5, CurrentRead
<1>7. /\ DataTypes(e, b) /\ e.voltages = d2.voltages /\ e.total = d2.total
      /\ e.temps = d2.temps /\ e.current = d2.current
      /\ failed = {} =>
           e.flags = b.flags \union IF c = "bq769x0" THEN Supervised(d2) ELSE {}
    BY <1>2, <1>6, FlagsRead
<1> QED
    BY <1>6, <1>7

LEMMA HighestTemp ==
  ASSUME NEW b \in Batteries
  PROVE  /\ Max(Range(b.temps)) \in Int
         /\ \A limit \in Int : Hot(b, limit) <=> Max(Range(b.temps)) > limit
<1>1. PICK n \in Nat \ {0} : DOMAIN b.temps = 1 .. n /\ b.temps \in [1 .. n -> Int]
    BY BatteryTypes
<1> DEFINE temps == Range(b.temps)
<1>2. b.temps \in Surjection(1 .. n, temps)
    BY <1>1 DEF Surjection, Range
<1>3. IsFiniteSet(1 .. n)
    BY FS_Interval
<1>4. IsFiniteSet(temps)
  <2> HIDE DEF temps
  <2> QED
      BY <1>2, <1>3, FS_Surjection
<1>5. temps \subseteq Int /\ b.temps[1] \in temps
    BY <1>1 DEF Range
<1>6. Max(temps) \in temps /\ \A y \in temps : Max(temps) >= y
  <2> HIDE DEF temps
  <2> QED
      BY <1>4, <1>5, MaxIsMax
<1>7. ASSUME NEW limit \in Int PROVE Hot(b, limit) <=> \E y \in temps : y > limit
  <2>1. \A i \in DOMAIN b.temps : b.temps[i] \in temps
      BY DEF Range
  <2>2. \A y \in temps : \E i \in DOMAIN b.temps : y = b.temps[i]
      BY DEF Range
  <2> HIDE DEF temps
  <2> QED
      BY <2>1, <2>2 DEF Hot
<1>8. Max(temps) \in Int
    BY <1>5, <1>6
<1>9. ASSUME NEW limit \in Int PROVE (\E y \in temps : y > limit) <=> Max(temps) > limit
  <2> DEFINE m == Max(temps)
  <2>1. m \in temps /\ m \in Int /\ \A y \in temps : y \in Int /\ m >= y
      BY <1>5, <1>6, <1>8
  <2> HIDE DEF temps, m
  <2>2. (\E y \in temps : y > limit) <=> m > limit
    <3>1. ASSUME NEW y \in temps, y > limit PROVE m > limit
        BY <2>1, <3>1
    <3> QED
        BY <2>1, <3>1
  <2> QED
      BY <2>2 DEF m
<1> HIDE DEF temps
<1> QED
    BY <1>7, <1>8, <1>9 DEF temps
--------------------------------------------------------------------------
(***************************************************************************)
(* What has been read of the battery, and the charge that is counted.      *)
(***************************************************************************)
MeasureInv ==
  /\ chip \in Chips /\ battery \in Batteries
  /\ DataTypes(data, battery)
  /\ vcell_mode \in SUBSET SUBSET DOMAIN battery.cells

\* The equation of ChargeIsCounted holds in every state, and bms_soc_reset()
\* comes before anything has been counted.
ChargeInv ==
  /\ soc \in 0 .. Full /\ counter \in Int /\ ~ Significant(counter)
  /\ soc_start \in Int /\ flow \in Int
  /\ last_update \in Nat /\ last_update <= now
  /\ main \in {"activate", "first reading"} => soc = soc_start
  /\ steady => soc + counter + battery.current * (now - last_update)
                 = soc_start + flow

RestInv ==
  /\ until \in Nat /\ until <= now
  /\ pin \in BOOLEAN /\ success \in BOOLEAN /\ steady \in BOOLEAN
  /\ events \in 0 .. MaxEvents

MonitorInv == ButtonInv /\ MeasureInv /\ ChargeInv /\ RestInv

LEMMA Current == \A b \in Batteries : b.current \in Int
  BY BatteryAssumption

LEMMA NoDataTypes == \A b \in Batteries : DataTypes(NoData(b), b)
  BY DEF DataTypes, NoData, Fields

LEMMA Detected ==
  ASSUME NEW b, NEW failed
  PROVE  detect_cells(b, failed) \in SUBSET SUBSET DOMAIN b.cells
<1> DEFINE cells == Connected(DetectedVoltages(b, failed))
<1>1. DOMAIN DetectedVoltages(b, failed) = DOMAIN b.cells
    BY DEF DetectedVoltages, Carried
<1>2. cells \in SUBSET DOMAIN b.cells
    BY <1>1 DEF Connected
<1>3. detect_cells(b, failed) \in {{cells}, {}}
    BY DEF detect_cells
<1> HIDE DEF cells
<1> QED
    BY <1>2, <1>3

LEMMA NothingCounted == 0 \in 0 .. Full /\ ~ Significant(0)
  BY MonitorAssumption DEF Significant, Abs

LEMMA MonitorStart == Init => MonitorInv
<1> SUFFICES ASSUME Init PROVE MonitorInv
    OBVIOUS
<1>1. ButtonInv
    BY ButtonStart
<1>2. MeasureInv
  <2>1. battery \in Batteries /\ data = NoData(battery) /\ chip \in Chips
        /\ vcell_mode = {}
      BY DEF Init
  <2> QED
      BY <2>1, NoDataTypes DEF MeasureInv
<1>3. ChargeInv
  <2>1. /\ battery \in Batteries /\ soc = 0 /\ counter = 0 /\ last_update = 0
        /\ now = 0 /\ flow = 0 /\ soc_start = 0
      BY DEF Init
  <2>2. battery.current \in Int
      BY <2>1, Current
  <2>3. battery.current * (0 - 0) = 0
      BY <2>2
  <2> QED
      BY <2>1, <2>3, NothingCounted DEF ChargeInv
<1>4. RestInv
  <2>1. MaxEvents \in Nat
      BY MonitorAssumption
  <2>2. until = 0 /\ now = 0 /\ events = 0 /\ pin \in BOOLEAN
      BY DEF Init
  <2>3. success \in BOOLEAN /\ steady \in BOOLEAN
      BY DEF Init
  <2> QED
      BY <2>1, <2>2, <2>3 DEF RestInv
<1> QED
    BY <1>1, <1>2, <1>3, <1>4 DEF MonitorInv

LEMMA MeasureKept == MonitorInv /\ [Next]_vars => MeasureInv'
<1> SUFFICES ASSUME MonitorInv, [Next]_vars PROVE MeasureInv'
    OBVIOUS
<1>0. MeasureInv /\ chip \in {"bq769x0", "bq769x2", "isl94202"}
    BY MonitorAssumption DEF MonitorInv, MeasureInv
<1>1. CASE Activate
  <2>1. UNCHANGED <<chip, battery, data>>
        /\ \/ vcell_mode' = vcell_mode
           \/ \E failed \in Failures(battery) : vcell_mode' = detect_cells(battery, failed)
      BY <1>1 DEF Activate, batteryVars
  <2>2. vcell_mode' \in SUBSET SUBSET DOMAIN battery.cells
      BY <1>0, <2>1, Detected DEF MeasureInv
  <2> QED
      BY <1>0, <2>1, <2>2 DEF MeasureInv
<1>2. CASE FirstReading
  <2>1. /\ UNCHANGED <<chip, battery, vcell_mode>>
        /\ \E failed \in Failures(battery) :
             data' = ReadCells(chip, data, battery, failed)
      BY <1>2 DEF FirstReading, batteryVars
  <2>2. DataTypes(data', battery)
      BY <1>0, <2>1, CellsRead DEF MeasureInv
  <2> QED
      BY <1>0, <2>1, <2>2 DEF MeasureInv
<1>3. CASE Read
  <2>1. /\ UNCHANGED <<chip, battery, vcell_mode>>
        /\ \E failed \in Failures(battery) :
             data' \in ReadData(chip, data, battery, failed)
      BY <1>3 DEF Read, batteryVars
  <2>2. DataTypes(data', battery)
      BY <1>0, <2>1, DataRead DEF MeasureInv
  <2> QED
      BY <1>0, <2>1, <2>2 DEF MeasureInv
<1>4. CASE BatteryChanges
  <2>1. UNCHANGED <<chip, data, vcell_mode>> /\ battery' \in Batteries
      BY <1>4 DEF BatteryChanges
  <2>2. /\ DOMAIN battery'.cells = DOMAIN battery.cells
        /\ DOMAIN battery'.temps = DOMAIN battery.temps
      BY <1>0, <2>1, BatteryAssumption DEF MeasureInv
  <2> QED
      BY <1>0, <2>1, <2>2 DEF MeasureInv, DataTypes
<1>5. CASE UNCHANGED <<chip, battery, data, vcell_mode>>
    BY <1>0, <1>5 DEF MeasureInv
<1> QED
    BY <1>1, <1>2, <1>3, <1>4, <1>5
    DEF Next, Main, ButtonInit, bms_soc_update, ReadPin, ReadTime, SetModeOff,
        NextInterval, WakesUp, Tick, Press, ReleaseButton, vars, batteryVars

LEMMA ClampType ==
  ASSUME NEW v \in Int, NEW F \in Nat PROVE CLAMP(v, 0, F) \in 0 .. F
  BY DEF CLAMP, AtLeast, AtMost

LEMMA Later ==
  ASSUME NEW c \in Int, NEW m \in Nat, NEW n \in Nat
  PROVE  c * (n + 1 - m) = c * (n - m) + c /\ c * (n - n) = 0
         /\ c * (n - m) \in Int
<1>1. n + 1 - m = (n - m) + 1 /\ n - n = 0
    OBVIOUS
<1>2. c * ((n - m) + 1) = c * (n - m) + c
    OBVIOUS
<1>3. c * 0 = 0
    OBVIOUS
<1> QED
    BY <1>1, <1>2, <1>3

\* What is counted is added to the state of charge or kept for later.
LEMMA UpdateKeeps ==
  ASSUME ChargeInv, Times, MeasureInv, bms_soc_update
  PROVE  ChargeInv'
<1>1. /\ soc \in 0 .. Full /\ counter \in Int /\ soc_start \in Int /\ flow \in Int
      /\ last_update \in Nat /\ last_update <= now
      /\ steady => soc + counter + battery.current * (now - last_update)
                     = soc_start + flow
    BY DEF ChargeInv
<1>2. /\ UNCHANGED <<battery, flow, soc_start, now>>
      /\ last_update' = now /\ main' = "button"
      /\ steady' = (steady /\ data.current = battery.current
                     /\ (Significant(Counted) => soc' = soc + Counted))
      /\ IF Significant(Counted)
         THEN soc' = CLAMP(soc + Counted, 0, Full) /\ counter' = 0
         ELSE counter' = Counted /\ soc' = soc
    BY DEF bms_soc_update, batteryVars
<1>3. now \in Nat /\ Full \in Nat
    BY MonitorAssumption DEF Times
<1>4. data.current \in Int /\ battery.current \in Int
    BY Current DEF MeasureInv, DataTypes
<1>5. Counted \in Int /\ Counted = counter + data.current * (now - last_update)
    BY <1>1, <1>3, <1>4, Later DEF Counted
<1>6. soc' \in 0 .. Full /\ counter' \in Int /\ ~ Significant(counter')
  <2>1. CASE Significant(Counted)
    <3>1. soc + Counted \in Int
        BY <1>1, <1>5
    <3>2. soc' \in 0 .. Full
        BY <1>2, <1>3, <2>1, <3>1, ClampType
    <3> QED
        BY <1>2, <2>1, <3>2, NothingCounted
  <2>2. CASE ~ Significant(Counted)
      BY <1>1, <1>2, <1>5, <2>2
  <2> QED
      BY <2>1, <2>2
<1>7. ASSUME steady'
      PROVE  soc' + counter' + battery'.current * (now' - last_update')
               = soc_start' + flow'
  <2>1. battery'.current * (now' - last_update') = 0
      BY <1>2, <1>3, <1>4, Later
  <2>2. soc' + counter' = soc + Counted
    <3>1. CASE Significant(Counted)
      <4>1. soc' = soc + Counted /\ counter' = 0
          BY <1>2, <1>7, <3>1
      <4> QED
          BY <1>1, <1>5, <4>1
    <3>2. CASE ~ Significant(Counted)
        BY <1>2, <3>2
    <3> QED
        BY <3>1, <3>2
  <2>3. soc + Counted = soc_start + flow
    <3> DEFINE part == battery.current * (now - last_update)
    <3>1. part \in Int
        BY <1>1, <1>3, <1>4, Later
    <3>2. Counted = counter + part /\ soc + counter + part = soc_start + flow
        BY <1>1, <1>2, <1>5, <1>7
    <3> HIDE DEF part
    <3> QED
        BY <1>1, <3>1, <3>2
  <2>4. soc' + counter' \in Int
      BY <1>6
  <2> QED
      BY <1>2, <1>1, <2>1, <2>2, <2>3, <2>4
<1>8. /\ soc_start' \in Int /\ flow' \in Int
      /\ last_update' \in Nat /\ last_update' <= now'
      /\ main' \notin {"activate", "first reading"}
    BY <1>1, <1>2, <1>3
<1> QED
    BY <1>6, <1>7, <1>8 DEF ChargeInv

\* An interval passes.
LEMMA TickKeeps ==
  ASSUME ChargeInv, Times, MeasureInv, Tick
  PROVE  ChargeInv'
<1>1. /\ soc \in 0 .. Full /\ counter \in Int /\ soc_start \in Int /\ flow \in Int
      /\ last_update \in Nat /\ last_update <= now /\ now \in Nat
      /\ battery.current \in Int /\ Full \in Nat
    BY Current, MonitorAssumption DEF ChargeInv, Times, MeasureInv
<1>2. /\ UNCHANGED <<battery, soc, counter, last_update, soc_start, steady, main>>
      /\ now' = now + 1 /\ flow' = flow + battery.current
    BY DEF Tick, socVars
<1>3. ASSUME steady
      PROVE  soc + counter + battery.current * (now + 1 - last_update)
               = soc_start + (flow + battery.current)
  <2> DEFINE part == battery.current * (now - last_update)
             longer == battery.current * (now + 1 - last_update)
             c == battery.current
  <2>1. longer = part + c /\ part \in Int /\ c \in Int
      BY <1>1, Later
  <2>2. soc + counter + part = soc_start + flow
      BY <1>3 DEF ChargeInv
  <2>3. soc \in Int
      BY <1>1
  <2> HIDE DEF part, longer, c
  <2>4. soc + counter + longer = soc_start + (flow + c)
      BY <1>1, <2>1, <2>2, <2>3
  <2> QED
      BY <2>4 DEF longer, c
<1>4. ASSUME steady'
      PROVE  soc' + counter' + battery'.current * (now' - last_update')
               = soc_start' + flow'
  <2>1. steady /\ battery' = battery
      BY <1>2, <1>4
  <2>2. /\ soc' = soc /\ counter' = counter /\ soc_start' = soc_start
        /\ now' = now + 1 /\ last_update' = last_update
        /\ flow' = flow + battery.current
      BY <1>2
  <2>3. battery'.current * (now' - last_update')
          = battery.current * (now + 1 - last_update)
    <3>1. battery'.current = battery.current
        BY <2>1
    <3>2. now' - last_update' = now + 1 - last_update
        BY <1>1, <2>2
    <3> QED
        BY <3>1, <3>2, Zenon
  <2> QED
      BY <1>3, <2>1, <2>2, <2>3
<1>5. ~ Significant(counter') /\ counter' = counter
    BY <1>2 DEF ChargeInv
<1>6. main' \in {"activate", "first reading"} => soc' = soc_start'
    BY <1>2 DEF ChargeInv
<1>7. /\ soc' = soc /\ soc_start' = soc_start /\ last_update' = last_update
      /\ now' = now + 1 /\ flow' = flow + battery.current
    BY <1>2
<1>8. /\ soc' \in 0 .. Full /\ soc_start' \in Int /\ flow' \in Int
      /\ last_update' \in Nat /\ last_update' <= now'
    BY <1>1, <1>7
<1> QED
    BY <1>1, <1>4, <1>5, <1>6, <1>8 DEF ChargeInv

LEMMA ChargeKept == MonitorInv /\ [Next]_vars => ChargeInv'
<1> SUFFICES ASSUME MonitorInv, [Next]_vars PROVE ChargeInv'
    OBVIOUS
<1>0. ChargeInv /\ MeasureInv /\ Times
    BY DEF MonitorInv, ButtonInv
<1>1. CASE bms_soc_update
    BY <1>0, <1>1, UpdateKeeps
<1>2. CASE Tick
    BY <1>0, <1>2, TickKeeps
<1>3. CASE FirstReading
  <2>1. /\ UNCHANGED <<battery, flow, counter, last_update, steady, now>>
        /\ \E failed \in Failures(battery) :
             data' = ReadCells(chip, data, battery, failed)
        /\ soc' = bms_soc_reset(data'.avg) /\ soc_start' = soc'
        /\ main' = "button init" /\ main = "first reading"
      BY <1>3 DEF FirstReading, batteryVars
  <2>2. data'.avg \in Int
    <3>1. DataTypes(data', battery)
        BY <1>0, <2>1, CellsRead DEF MeasureInv
    <3> QED
        BY <3>1 DEF DataTypes
  <2>3. soc' \in 0 .. Full
      BY <2>1, <2>2, ResetBounds
  <2>4. ASSUME steady
        PROVE  soc' + counter + battery.current * (now - last_update) = soc_start' + flow
    <3> DEFINE part == battery.current * (now - last_update)
               first == soc'
    <3>1. part \in Int /\ counter \in Int /\ flow \in Int /\ soc_start \in Int
        BY <1>0, Later, Current DEF ChargeInv, MeasureInv, Times
    <3>2. soc_start + counter + part = soc_start + flow
        BY <1>0, <2>1, <2>4 DEF ChargeInv
    <3>3. first \in Int /\ soc_start' = first
      <4>1. soc_start' = soc'
          BY <2>1
      <4>2. Full \in Nat
          BY MonitorAssumption
      <4> QED
          BY <2>3, <4>1, <4>2
    <3> HIDE DEF part, first
    <3>4. first + counter + part = first + flow
        BY <3>1, <3>2, <3>3
    <3> QED
        BY <3>3, <3>4 DEF part, first
  <2>5. soc_start' \in Int
    <3>1. soc_start' = soc'
        BY <2>1
    <3> QED
        BY <2>3, <3>1
  <2> QED
      BY <1>0, <2>1, <2>3, <2>4, <2>5 DEF ChargeInv
<1>4. CASE BatteryChanges
  <2>1. /\ UNCHANGED <<flow, soc, counter, last_update, soc_start, now, main>>
        /\ steady' = (steady /\ battery'.current = battery.current)
      BY <1>4 DEF BatteryChanges
  <2> QED
      BY <1>0, <2>1 DEF ChargeInv
<1>5. CASE /\ UNCHANGED <<battery, flow, soc, counter, last_update, soc_start,
                          steady, now>>
           /\ main' \in {"activate", "first reading"} =>
                main \in {"activate", "first reading"}
    BY <1>0, <1>5 DEF ChargeInv
<1>6. ASSUME \/ Activate \/ ButtonInit \/ Read \/ ReadPin \/ ReadTime \/ SetModeOff
             \/ NextInterval \/ WakesUp \/ Press \/ ReleaseButton \/ UNCHANGED vars
      PROVE  /\ UNCHANGED <<battery, flow, soc, counter, last_update, soc_start,
                            steady, now>>
             /\ main' \in {"activate", "first reading"} =>
                  main \in {"activate", "first reading"}
    BY <1>6 DEF Activate, ButtonInit, Read, ReadPin, ReadTime, SetModeOff,
                NextInterval, WakesUp, Press, ReleaseButton, vars, batteryVars, socVars
<1> QED
    BY <1>1, <1>2, <1>3, <1>4, <1>5, <1>6 DEF Next, Main

LEMMA RestKept == MonitorInv /\ [Next]_vars => RestInv'
<1> SUFFICES ASSUME MonitorInv, [Next]_vars PROVE RestInv'
    OBVIOUS
<1>0. RestInv /\ now \in Nat /\ MaxEvents \in Nat
    BY MonitorAssumption DEF MonitorInv, ButtonInv, Times
<1>1. events' = events \/ Event
    BY DEF Next, Main, Activate, FirstReading, ButtonInit, Read, bms_soc_update,
           ReadPin, ReadTime, SetModeOff, NextInterval, WakesUp, Tick, BatteryChanges,
           Press, ReleaseButton, vars, Counts
<1>2. events' \in 0 .. MaxEvents
    BY <1>0, <1>1 DEF RestInv, Event
<1>3. /\ pin' = pin \/ pin' \in BOOLEAN
      /\ \/ now' = now /\ until' \in {until, now}
         \/ now' = now + 1 /\ until' = until
    BY DEF Next, Main, Activate, FirstReading, ButtonInit, Read, bms_soc_update,
           ReadPin, ReadTime, SetModeOff, NextInterval, WakesUp, Tick, BatteryChanges,
           Press, ReleaseButton, vars, buttonVars
<1>4. success' = success \/ success' \in BOOLEAN
    BY DEF Next, Main, Activate, FirstReading, ButtonInit, Read, bms_soc_update,
           ReadPin, ReadTime, SetModeOff, NextInterval, WakesUp, Tick, BatteryChanges,
           Press, ReleaseButton, vars, Succeeds
<1>5. steady' = steady \/ steady' \in BOOLEAN
    BY DEF Next, Main, Activate, FirstReading, ButtonInit, Read, bms_soc_update,
           ReadPin, ReadTime, SetModeOff, NextInterval, WakesUp, Tick, BatteryChanges,
           Press, ReleaseButton, vars, socVars
<1> QED
    BY <1>0, <1>2, <1>3, <1>4, <1>5 DEF RestInv

LEMMA MonitorKept == MonitorInv /\ [Next]_vars => MonitorInv'
  BY MainKeeps, OthersKeep, MeasureKept, ChargeKept, RestKept DEF MonitorInv

--------------------------------------------------------------------------
LEMMA TypesHold == MonitorInv => TypeOK
<1> SUFFICES ASSUME MonitorInv PROVE TypeOK
    OBVIOUS
<1>1. /\ chip \in Chips /\ battery \in Batteries
      /\ vcell_mode \in SUBSET SUBSET DOMAIN battery.cells
      /\ DOMAIN data = Fields
    BY DEF MonitorInv, MeasureInv, DataTypes
<1>2. DOMAIN NoData(battery) = Fields
    BY <1>1, NoDataTypes DEF DataTypes
<1>3. /\ soc \in 0 .. Full /\ ~ Significant(counter)
      /\ last_update \in Nat /\ last_update <= now
    BY DEF MonitorInv, ChargeInv
<1>4. /\ now \in Nat /\ since \in Nat /\ time_pressed \in Nat
      /\ t_start \in Nat /\ wake \in Nat
      /\ since <= now /\ time_pressed <= now
    BY DEF MonitorInv, ButtonInv, Times
<1>5. RestInv
    BY DEF MonitorInv
<1> QED
    BY <1>1, <1>2, <1>3, <1>4, <1>5 DEF RestInv, TypeOK

\* The types; in particular the state of charge stays between empty and full,
\* for any voltages from which it is reset and any currents that are counted,
\* and what is kept in the coulomb counter stays insignificant.
THEOREM MonitorTypes == Spec => []TypeOK
  BY MonitorStart, MonitorKept, TypesHold, PTL DEF Spec

\* The state of charge and the coulomb counter add up to the charge that has
\* flowed, however long the loop is delayed.
THEOREM ChargeCounted == Spec => []ChargeIsCounted
<1>1. MonitorInv => ChargeIsCounted
  <2> SUFFICES ASSUME ChargeInv, MeasureInv, Times, steady
               PROVE  soc + counter
                        = soc_start + flow - battery.current * (now - last_update)
      BY DEF MonitorInv, ButtonInv, ChargeIsCounted
  <2> DEFINE part == battery.current * (now - last_update)
  <2>1. part \in Int
      BY Later, Current DEF ChargeInv, MeasureInv, Times
  <2>2. /\ soc \in Int /\ counter \in Int /\ soc_start \in Int /\ flow \in Int
    <3>1. /\ soc \in 0 .. Full /\ counter \in Int
          /\ soc_start \in Int /\ flow \in Int
        BY DEF ChargeInv
    <3> QED
        BY <3>1
  <2>3. soc + counter + part = soc_start + flow
      BY DEF ChargeInv
  <2> HIDE DEF part
  <2>4. soc + counter = soc_start + flow - part
      BY <2>1, <2>2, <2>3
  <2> QED
      BY <2>4 DEF part
<1> QED
    BY <1>1, MonitorStart, MonitorKept, PTL DEF Spec

LEMMA ReadStep ==
  ASSUME [Next]_vars, main = "read", main' = "soc"
  PROVE  Read
  BY DEF Next, Main, Activate, FirstReading, ButtonInit, bms_soc_update, ReadPin,
         ReadTime, SetModeOff, NextInterval, WakesUp, Tick, BatteryChanges, Press,
         ReleaseButton, vars

\* What a reading that succeeds has read, and from which data the flags came.
LEMMA ReadSucceeds ==
  ASSUME MonitorInv, [Next]_vars, main = "read", main' = "soc", success',
         chip # "isl94202"
  PROVE  /\ data'.voltages = battery.cells /\ data'.temps = battery.temps
         /\ data'.total = battery.stack /\ data'.current = battery.current
         /\ battery.flags \subseteq data'.flags
         /\ chip = "bq769x0" =>
              \E d2 : /\ data'.flags = battery.flags \union Supervised(d2)
                      /\ d2.flags = data.flags
                      /\ d2.tmax = Max(Range(battery.temps))
<1>1. Read
    BY ReadStep
<1>2. PICK failed \in Failures(battery) :
        /\ data' \in ReadData(chip, data, battery, failed)
        /\ success' = Succeeds(chip, failed)
    BY <1>1 DEF Read
<1>3. failed = {}
    BY <1>2 DEF Succeeds
<1>4. /\ chip \in {"bq769x0", "bq769x2", "isl94202"} /\ battery \in Batteries
      /\ DataTypes(data, battery)
    BY MonitorAssumption DEF MonitorInv, MeasureInv
<1> QED
    BY <1>2, <1>3, <1>4, DataRead

\* A reading that succeeds is the battery, whatever was read or failed before.
THEOREM ReadingIsFresh == Spec => SuccessIsFresh
<1> DEFINE Fresh ==
      main = "read" /\ main' = "soc" /\ success' /\ chip # "isl94202" =>
        /\ data'.voltages = battery.cells /\ data'.temps = battery.temps
        /\ data'.total = battery.stack /\ data'.current = battery.current
        /\ battery.flags \subseteq data'.flags
<1>1. MonitorInv /\ [Next]_vars => [Fresh]_vars
    BY ReadSucceeds
<1> QED
    BY <1>1, MonitorStart, MonitorKept, PTL DEF Spec, SuccessIsFresh

LEMMA OvertempComputed ==
  ASSUME NEW b \in Batteries, NEW d, NEW d2, NEW e,
         d2.flags = d.flags, d2.tmax = Max(Range(b.temps)),
         e = b.flags \union Supervised(d2)
  PROVE  /\ Hot(b, Limits.chg_ot_limit) => "CHG_OVERTEMP" \in e
         /\ "CHG_OVERTEMP" \in d.flags \ e =>
              ~ Hot(b, Limits.chg_ot_limit - Limits.temp_limit_hyst)
<1> DEFINE limit == Limits.chg_ot_limit
           hyst == Limits.temp_limit_hyst
           max == Max(Range(b.temps))
<1>1. limit \in Int /\ hyst \in Nat
    BY MeasurementAssumption
<1>2. max \in Int /\ \A l \in Int : Hot(b, l) <=> max > l
    BY HighestTemp
<1>3. Hysteresis("CHG_OVERTEMP", d2) = IF "CHG_OVERTEMP" \in d.flags THEN hyst ELSE 0
    BY DEF Hysteresis
<1>4. max > limit - Hysteresis("CHG_OVERTEMP", d2) => "CHG_OVERTEMP" \in e
    BY DEF Supervised, If
<1> HIDE DEF limit, hyst, max
<1>5. Hot(b, limit) => "CHG_OVERTEMP" \in e
  <2>1. Hysteresis("CHG_OVERTEMP", d2) \in Nat
      BY <1>1, <1>3
  <2>2. max > limit => max > limit - Hysteresis("CHG_OVERTEMP", d2)
      BY <1>1, <1>2, <2>1
  <2> QED
      BY <1>1, <1>2, <1>4, <2>2
<1>6. "CHG_OVERTEMP" \in d.flags \ e => ~ Hot(b, limit - hyst)
  <2>1. limit - hyst \in Int
      BY <1>1
  <2> QED
      BY <1>2, <1>3, <1>4, <2>1
<1> QED
    BY <1>5, <1>6 DEF limit, hyst

\* The computed overtemperature flag follows the hottest thermistor, with its
\* hysteresis, for any number of thermistors and any limits.
THEOREM OvertempComputedRight == Spec => OvertempHolds
<1> DEFINE Holds ==
      chip = "bq769x0" /\ main = "read" /\ main' = "soc" /\ success' =>
        /\ Hot(battery, Limits.chg_ot_limit) => "CHG_OVERTEMP" \in data'.flags
        /\ "CHG_OVERTEMP" \in data.flags \ data'.flags =>
             ~ Hot(battery, Limits.chg_ot_limit - Limits.temp_limit_hyst)
<1>1. MonitorInv /\ [Next]_vars => [Holds]_vars
  <2> SUFFICES ASSUME MonitorInv, [Next]_vars, chip = "bq769x0", main = "read",
                      main' = "soc", success'
               PROVE  /\ Hot(battery, Limits.chg_ot_limit) =>
                           "CHG_OVERTEMP" \in data'.flags
                      /\ "CHG_OVERTEMP" \in data.flags \ data'.flags =>
                           ~ Hot(battery, Limits.chg_ot_limit - Limits.temp_limit_hyst)
      OBVIOUS
  <2>1. battery \in Batteries
      BY DEF MonitorInv, MeasureInv
  <2>2. PICK d2 : /\ data'.flags = battery.flags \union Supervised(d2)
                  /\ d2.flags = data.flags
                  /\ d2.tmax = Max(Range(battery.temps))
      BY ReadSucceeds
  <2> QED
      BY <2>1, <2>2, OvertempComputed
<1> QED
    BY <1>1, MonitorStart, MonitorKept, PTL DEF Spec, OvertempHolds
=============================================================================
