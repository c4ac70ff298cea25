------------------------------- MODULE EggTimer -------------------------------
(***************************************************************************)
(* EggTimer's ViewController.  Everything runs on the main thread: the     *)
(* taps, the repeating timer, and the alarm, which puts that thread to     *)
(* sleep.  Time passes in seconds; while the main thread is awake whatever *)
(* is due is served before the next second begins.                         *)
(***************************************************************************)
EXTENDS Naturals, Sequences, FiniteSets

CONSTANTS Hardness, EggTimes,   \* the buttons and the seconds they stand for
          AlarmTime,            \* how long playSound sleeps
          MaxTaps               \* bound on the taps

ASSUME EggAssumption == /\ EggTimes \in [Hardness -> Nat \ {0}]
                        /\ "done" \notin Hardness /\ "question" \notin Hardness
                        /\ AlarmTime \in Nat \ {0} /\ MaxTaps \in Nat

VARIABLES
    live,            \* scheduled timers: a name, and the seconds to the next fire
    timer,           \* the timer the variable of that name refers to; 0 is none
    totalTime, secondPassed,
    timeAlarm,       \* the label
    asleep,          \* seconds playSound still sleeps
    taps,            \* taps not yet served
    tapped,          \* how many taps there were
    elapsed          \* history: seconds since the running egg was chosen

vars == <<live, timer, totalTime, secondPassed, timeAlarm, asleep, taps, tapped,
          elapsed>>

TypeOK ==
    /\ live \subseteq [name : 1..MaxTaps, due : {0, 1}]
    /\ timer \in 0..MaxTaps
    /\ {totalTime, secondPassed, elapsed} \subseteq Nat
    /\ timeAlarm \in Hardness \cup {"question", "done"}
    /\ asleep \in 0..AlarmTime
    /\ taps \in Seq(Hardness)
    /\ tapped \in 0..MaxTaps

Init ==
    /\ live = {} /\ timer = 0
    /\ totalTime = 0 /\ secondPassed = 0
    /\ timeAlarm = "question" /\ asleep = 0
    /\ taps = <<>> /\ tapped = 0
    /\ elapsed = 0

Awake == asleep = 0

(* invalidate stops the timer for good; scheduledTimer starts another. *)
Invalidated(t) == {s \in live : s.name # t}
Scheduled(t) == [name |-> t, due |-> 1]

(* The user taps; the main thread may be asleep. *)
Tap(hardness) ==
    /\ tapped < MaxTaps
    /\ tapped' = tapped + 1
    /\ taps' = Append(taps, hardness)
    /\ UNCHANGED <<live, timer, totalTime, secondPassed, timeAlarm, asleep, elapsed>>

(* A mistake: the old timer goes on. *)
HardnessSelectKeepsOld ==
    /\ Awake /\ taps # <<>>
    /\ timer' = tapped - Len(taps) + 1
    /\ live' = live \cup {Scheduled(timer')}
    /\ secondPassed' = 0 /\ totalTime' = EggTimes[Head(taps)]
    /\ timeAlarm' = Head(taps)
    /\ taps' = Tail(taps) /\ elapsed' = 0
    /\ UNCHANGED <<asleep, tapped>>

(* A mistake: the seconds of the last egg still count. *)
HardnessSelectGoesOn ==
    /\ Awake /\ taps # <<>>
    /\ timer' = tapped - Len(taps) + 1
    /\ live' = Invalidated(timer) \cup {Scheduled(timer')}
    /\ totalTime' = EggTimes[Head(taps)]
    /\ timeAlarm' = Head(taps)
    /\ taps' = Tail(taps) /\ elapsed' = 0
    /\ UNCHANGED <<secondPassed, asleep, tapped>>

(* A mistake: invalidate comes after the new timer was assigned. *)
HardnessSelectStopsNew ==
    /\ Awake /\ taps # <<>>
    /\ timer' = tapped - Len(taps) + 1
    /\ live' = live
    /\ secondPassed' = 0 /\ totalTime' = EggTimes[Head(taps)]
    /\ timeAlarm' = Head(taps)
    /\ taps' = Tail(taps) /\ elapsed' = 0
    /\ UNCHANGED <<asleep, tapped>>

(* hardnessSelect; timers are named by the tap that started them. *)
HardnessSelect ==
    /\ Awake /\ taps # <<>>
    /\ timer' = tapped - Len(taps) + 1
    /\ live' = Invalidated(timer) \cup {Scheduled(timer')}
    /\ secondPassed' = 0 /\ totalTime' = EggTimes[Head(taps)]
    /\ timeAlarm' = Head(taps)
    /\ taps' = Tail(taps) /\ elapsed' = 0
    /\ UNCHANGED <<asleep, tapped>>

(* updateCounter while the egg cooks.  The progress bar shows
   secondPassed / totalTime from here on. *)
CountSecond(t) ==
    /\ Awake /\ t \in live /\ t.due = 0
    /\ secondPassed < totalTime
    /\ secondPassed' = secondPassed + 1
    /\ live' = (live \ {t}) \cup {Scheduled(t.name)}
    /\ UNCHANGED <<timer, totalTime, timeAlarm, asleep, taps, tapped, elapsed>>

(* updateCounter when it is done: stop the current timer, sound the alarm. *)
SoundAlarm(t) ==
    /\ Awake /\ t \in live /\ t.due = 0
    /\ secondPassed >= totalTime
    /\ live' = {IF s = t THEN Scheduled(s.name) ELSE s : s \in live}
                 \ {[name |-> timer, due |-> d] : d \in {0, 1}}
    /\ timeAlarm' = "done"
    /\ asleep' = AlarmTime
    /\ UNCHANGED <<timer, totalTime, secondPassed, taps, tapped, elapsed>>

(* A second passes.  A timer that was due during the sleep fires once. *)
Second ==
    /\ Awake => taps = <<>> /\ \A t \in live : t.due > 0
    /\ ~Awake \/ live # {}
    /\ live' = {[t EXCEPT !.due = 0] : t \in live}
    /\ asleep' = IF Awake THEN 0 ELSE asleep - 1
    /\ elapsed' = IF live = {} THEN elapsed ELSE elapsed + 1
    /\ UNCHANGED <<timer, totalTime, secondPassed, timeAlarm, taps, tapped>>

UpdateCounter == \E t \in live : CountSecond(t) \/ SoundAlarm(t)

Next == (\E h \in Hardness : Tap(h)) \/ HardnessSelect \/ UpdateCounter \/ Second

Spec == Init /\ [][Next]_vars

(* Time passes and the run loop serves taps and timers. *)
FairSpec == /\ Spec
            /\ WF_vars(HardnessSelect) /\ WF_vars(UpdateCounter) /\ WF_vars(Second)

-----------------------------------------------------------------------------
(* However often an egg is chosen anew, at most one timer runs, and it is the
   one that timer can still stop (ViewController.swift:21). *)
OneTimer == /\ Cardinality(live) <= 1
            /\ \A t \in live : t.name = timer

(* The alarm never sounds for an earlier egg nor counts its seconds: it starts
   one second after the time of the egg chosen last (the tick that finds the
   time used up), never before and never later. *)
AlarmIsOnTime ==
    [][asleep = 0 /\ asleep' > 0 => elapsed = totalTime + 1]_vars

(* Every egg is done in the end, once no other is chosen. *)
EveryEggIsDone == timeAlarm \in Hardness ~> timeAlarm = "done"
=============================================================================
