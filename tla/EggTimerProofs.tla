---------------------------- MODULE EggTimerProofs ----------------------------
(***************************************************************************)
(* At most one timer and a punctual alarm, for every set of eggs, every    *)
(* alarm and however often an egg is chosen.                               *)
(***************************************************************************)
EXTENDS EggTimer, FiniteSetTheorems, TLAPS

(* The seconds counted and the seconds passed differ by a tick that is due. *)
Counts(t) == /\ elapsed = secondPassed + 1 - t.due
             /\ secondPassed <= totalTime

(* The inductive invariant: what is alive is the current timer, it counts, and
   nothing is alive while the alarm sounds. *)
EggInv == /\ TypeOK
          /\ Len(taps) <= tapped
          /\ ~Awake => live = {}
          /\ \A t \in live : t.name = timer /\ Counts(t)

-----------------------------------------------------------------------------
(* The type invariant, spelled out for the provers. *)
LEMMA Types ==
    ASSUME TypeOK
    PROVE  /\ timer \in Nat /\ timer <= MaxTaps
           /\ totalTime \in Nat /\ secondPassed \in Nat /\ elapsed \in Nat
           /\ asleep \in Nat /\ asleep <= AlarmTime
           /\ tapped \in Nat /\ tapped <= MaxTaps
           /\ \A t \in live : /\ t = [name |-> t.name, due |-> t.due]
                              /\ t.name \in 1..MaxTaps
                              /\ t.due = 0 \/ t.due = 1
<1>1. \A t \in [name : 1..MaxTaps, due : {0, 1}] :
        /\ t = [name |-> t.name, due |-> t.due]
        /\ t.name \in 1..MaxTaps /\ (t.due = 0 \/ t.due = 1)
  OBVIOUS
<1>2. totalTime \in Nat /\ secondPassed \in Nat /\ elapsed \in Nat
  BY DEF TypeOK
<1>3. timer \in Nat /\ timer <= MaxTaps /\ tapped \in Nat /\ tapped <= MaxTaps
  BY EggAssumption DEF TypeOK
<1>4. asleep \in Nat /\ asleep <= AlarmTime
  BY EggAssumption DEF TypeOK
<1>5. live \subseteq [name : 1..MaxTaps, due : {0, 1}]
  BY DEF TypeOK
<1> QED BY <1>1, <1>2, <1>3, <1>4, <1>5

LEMMA OnlyOne == EggInv => \A s, t \in live : s = t
<1> SUFFICES ASSUME EggInv, NEW s \in live, NEW t \in live PROVE s = t
  OBVIOUS
<1>1. TypeOK /\ s.name = timer /\ t.name = timer /\ Counts(s) /\ Counts(t)
  BY DEF EggInv
<1>2. s.due = t.due
  BY <1>1, Types DEF Counts
<1> QED BY <1>1, <1>2, Types

LEMMA EggInit == Init => EggInv
<1> SUFFICES ASSUME Init PROVE EggInv
  OBVIOUS
<1>1. TypeOK
  BY EggAssumption DEF Init, TypeOK
<1> QED BY <1>1 DEF Init, EggInv, Awake

(* A chosen egg replaces whatever timer there was. *)
LEMMA ChoosingKeepsInv == ASSUME EggInv, HardnessSelect PROVE EggInv'
<1>1. TypeOK /\ Len(taps) <= tapped
  BY DEF EggInv
<1>2. taps \in Seq(Hardness) /\ taps # <<>>
  BY <1>1 DEF TypeOK, HardnessSelect
<1>3. /\ Head(taps) \in Hardness /\ Tail(taps) \in Seq(Hardness)
      /\ Len(taps) \in Nat /\ Len(taps) > 0 /\ Len(Tail(taps)) = Len(taps) - 1
  BY <1>2
<1>4. /\ timer' = tapped - Len(taps) + 1 /\ tapped' = tapped
      /\ taps' = Tail(taps) /\ asleep' = asleep /\ asleep = 0
      /\ totalTime' = EggTimes[Head(taps)] /\ secondPassed' = 0 /\ elapsed' = 0
      /\ timeAlarm' = Head(taps)
  BY DEF HardnessSelect, Awake
<1>5. timer' \in 1..MaxTaps
  BY <1>1, <1>3, <1>4, Types, EggAssumption
<1>6. Invalidated(timer) = {}
  BY DEF EggInv, Invalidated
<1>7. live' = {[name |-> timer', due |-> 1]}
  BY <1>6 DEF HardnessSelect, Scheduled
<1>8. totalTime' \in Nat
  BY <1>3, <1>4, EggAssumption
<1>9. TypeOK'
  <2>1. timer' \in 0..MaxTaps /\ tapped' \in 0..MaxTaps /\ asleep' \in 0..AlarmTime
    BY <1>1, <1>4, <1>5, EggAssumption DEF TypeOK
  <2>2. live' \subseteq [name : 1..MaxTaps, due : {0, 1}]
    BY <1>5, <1>7
  <2> QED BY <1>3, <1>4, <1>8, <2>1, <2>2 DEF TypeOK
<1>10. Len(taps') <= tapped'
  BY <1>1, <1>3, <1>4, Types
<1>11. \A t \in live' : t.name = timer' /\ Counts(t)'
  BY <1>4, <1>7, <1>8 DEF Counts
<1> QED BY <1>4, <1>9, <1>10, <1>11 DEF EggInv, Awake

LEMMA CountingKeepsInv == ASSUME EggInv, NEW t \in live, CountSecond(t) PROVE EggInv'
<1>1. TypeOK /\ Len(taps) <= tapped /\ t.name = timer /\ Counts(t)
  BY DEF EggInv
<1>2. live = {t}
  BY OnlyOne
<1>3. live' = {[name |-> timer, due |-> 1]}
  BY <1>1, <1>2 DEF Scheduled, CountSecond
<1>4. /\ secondPassed' = secondPassed + 1 /\ secondPassed < totalTime /\ t.due = 0
      /\ UNCHANGED <<timer, totalTime, timeAlarm, asleep, taps, tapped, elapsed>>
      /\ Awake
  BY DEF CountSecond
<1>5. elapsed = secondPassed'
  BY <1>1, <1>4, Types DEF Counts
<1>6. TypeOK'
  <2>1. live' \subseteq [name : 1..MaxTaps, due : {0, 1}]
    BY <1>1, <1>3, Types
  <2> QED BY <1>1, <1>4, <2>1 DEF TypeOK
<1>7. \A s \in live' : s.name = timer' /\ Counts(s)'
  BY <1>1, <1>3, <1>4, <1>5, Types DEF Counts
<1> QED BY <1>1, <1>4, <1>6, <1>7 DEF EggInv, Awake

(* The alarm stops the timer that called it. *)
LEMMA AlarmKeepsInv == ASSUME EggInv, NEW t \in live, SoundAlarm(t) PROVE EggInv'
<1>1. TypeOK /\ Len(taps) <= tapped /\ t.name = timer /\ live = {t}
  BY OnlyOne DEF EggInv
<1>2. live' = {}
  BY <1>1 DEF Scheduled, SoundAlarm
<1>3. TypeOK'
  BY <1>1, <1>2, EggAssumption DEF TypeOK, SoundAlarm
<1> QED BY <1>1, <1>2, <1>3 DEF EggInv, SoundAlarm

LEMMA SecondKeepsInv == ASSUME EggInv, Second PROVE EggInv'
<1>1. TypeOK /\ Len(taps) <= tapped
  BY DEF EggInv
<1>2. UNCHANGED <<timer, totalTime, secondPassed, timeAlarm, taps, tapped>>
  BY DEF Second
<1>3. CASE Awake
  <2>1. PICK t \in live : TRUE
    BY <1>3 DEF Second
  <2>2. live = {t} /\ t.due > 0 /\ t.name = timer /\ Counts(t)
    BY <1>3, OnlyOne DEF Second, EggInv
  <2>3. t = [name |-> timer, due |-> 1] /\ timer \in 1..MaxTaps
    BY <1>1, <2>2, Types
  <2>4. live' = {[name |-> timer, due |-> 0]}
    BY <2>2, <2>3 DEF Second
  <2>5. elapsed' = elapsed + 1 /\ asleep' = 0
    BY <1>3, <2>2 DEF Second
  <2>6. elapsed = secondPassed /\ secondPassed <= totalTime
    BY <1>1, <2>2, <2>3, Types DEF Counts
  <2>7. TypeOK'
    <3>1. live' \subseteq [name : 1..MaxTaps, due : {0, 1}]
      BY <2>3, <2>4
    <3>2. elapsed' \in Nat /\ asleep' \in 0..AlarmTime
      BY <1>1, <2>5, Types, EggAssumption
    <3> QED BY <1>1, <1>2, <3>1, <3>2 DEF TypeOK
  <2>8. \A s \in live' : s.name = timer' /\ Counts(s)'
    BY <1>1, <1>2, <2>4, <2>5, <2>6, Types DEF Counts
  <2> QED BY <1>1, <1>2, <2>5, <2>7, <2>8 DEF EggInv, Awake
<1>4. CASE ~Awake
  <2>1. live = {} /\ live' = {} /\ elapsed' = elapsed /\ asleep' = asleep - 1
    BY <1>4 DEF Second, EggInv
  <2>2. asleep' \in 0..AlarmTime
    BY <1>1, <1>4, <2>1, Types, EggAssumption DEF Awake
  <2>3. TypeOK'
    BY <1>1, <1>2, <2>1, <2>2 DEF TypeOK
  <2> QED BY <1>1, <1>2, <2>1, <2>3 DEF EggInv
<1> QED BY <1>3, <1>4

LEMMA TapKeepsInv == ASSUME EggInv, NEW h \in Hardness, Tap(h) PROVE EggInv'
<1>1. TypeOK /\ Len(taps) <= tapped /\ taps \in Seq(Hardness)
  BY DEF EggInv, TypeOK
<1>2. /\ tapped' = tapped + 1 /\ tapped < MaxTaps /\ taps' = Append(taps, h)
      /\ UNCHANGED <<live, timer, totalTime, secondPassed, timeAlarm, asleep, elapsed>>
  BY DEF Tap
<1>3. taps' \in Seq(Hardness) /\ Len(taps') = Len(taps) + 1 /\ Len(taps) \in Nat
  BY <1>1, <1>2
<1>4. tapped' \in 0..MaxTaps /\ Len(taps') <= tapped'
  BY <1>1, <1>2, <1>3, Types, EggAssumption
<1>5. TypeOK'
  BY <1>1, <1>2, <1>3, <1>4 DEF TypeOK
<1> QED BY <1>2, <1>4, <1>5 DEF EggInv, Awake, Counts

LEMMA EggStep == EggInv /\ [Next]_vars => EggInv'
<1> SUFFICES ASSUME EggInv, [Next]_vars PROVE EggInv'
  OBVIOUS
<1>1. ASSUME NEW h \in Hardness, Tap(h) PROVE EggInv'
  BY <1>1, TapKeepsInv
<1>2. CASE HardnessSelect
  BY <1>2, ChoosingKeepsInv
<1>3. CASE UpdateCounter
  BY <1>3, CountingKeepsInv, AlarmKeepsInv DEF UpdateCounter
<1>4. CASE Second
  BY <1>4, SecondKeepsInv
<1>5. CASE UNCHANGED vars
  BY <1>5 DEF EggInv, TypeOK, Awake, Counts, vars
<1> QED BY <1>1, <1>2, <1>3, <1>4, <1>5 DEF Next

LEMMA EggAlways == Spec => []EggInv
BY EggInit, EggStep, PTL DEF Spec

(* Every variable of the timer keeps its type. *)
THEOREM EggTypeCorrect == Spec => []TypeOK
<1>1. EggInv => TypeOK
  BY DEF EggInv
<1> QED BY <1>1, EggAlways, PTL

(* However often an egg is chosen anew, at most one timer runs, the one that
   can be stopped (ViewController.swift:21). *)
THEOREM OneTimerRuns == Spec => []OneTimer
<1>1. EggInv => OneTimer
  <2> SUFFICES ASSUME EggInv PROVE OneTimer
    OBVIOUS
  <2>1. CASE live = {}
    BY <2>1, FS_EmptySet DEF OneTimer
  <2>2. CASE live # {}
    <3>1. PICK t \in live : TRUE
      BY <2>2
    <3>2. live = {t}
      BY OnlyOne
    <3>3. Cardinality(live) = 1
      BY <3>2, FS_Singleton
    <3> QED BY <3>3 DEF OneTimer, EggInv
  <2> QED BY <2>1, <2>2
<1> QED BY <1>1, EggAlways, PTL

(* The alarm sounds one second after the time of the egg chosen last, never for
   an earlier egg, whatever its time and however often it was chosen. *)
THEOREM AlarmSoundsOnTime == Spec => AlarmIsOnTime
<1>1. EggInv /\ [Next]_vars => [asleep = 0 /\ asleep' > 0 => elapsed = totalTime + 1]_vars
  <2> SUFFICES ASSUME EggInv, Next, asleep = 0, asleep' > 0
               PROVE elapsed = totalTime + 1
    OBVIOUS
  <2>1. PICK t \in live : SoundAlarm(t)
    BY DEF Next, Tap, HardnessSelect, UpdateCounter, CountSecond, Second, Awake
  <2>2. TypeOK /\ t.due = 0 /\ Counts(t) /\ secondPassed >= totalTime
    BY <2>1 DEF SoundAlarm, EggInv
  <2> QED BY <2>2, Types DEF Counts
<1> QED BY <1>1, EggAlways, PTL DEF Spec, AlarmIsOnTime
=============================================================================
