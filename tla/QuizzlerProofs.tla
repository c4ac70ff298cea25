---------------------------- MODULE QuizzlerProofs ----------------------------
(***************************************************************************)
(* The score and the screen of both quizzes, for any number of taps and of *)
(* timers that overlap.                                                    *)
(***************************************************************************)
EXTENDS Quizzler, TLAPS

(* The type invariant, ScreenFollows and ScoreIsDeserved are inductive together. *)
QuizInv == TypeOK /\ ScreenFollows /\ ScoreIsDeserved

-----------------------------------------------------------------------------
LEMMA Counts == /\ variant = "truefalse" => Count = 12
                /\ variant = "choice" => Count = 10
BY DEF Count, RightButton

(* The right answer to a question is a button. *)
LEMMA RightIsButton == ASSUME TypeOK, NEW q \in 0..(Count - 1) PROVE Right(q) \in Button
<1>1. CASE variant = "truefalse"
  <2>1. q + 1 \in 1..12
    BY <1>1, Counts
  <2> QED BY <1>1, <2>1 DEF Right, RightButton, Button
<1>2. CASE variant = "choice"
  <2>1. q + 1 \in 1..10
    BY <1>2, Counts
  <2> QED BY <1>2, <2>1 DEF Right, RightButton, Button
<1> QED BY <1>1, <1>2 DEF TypeOK

(* nextQuestion never leaves the quiz. *)
LEMMA NextIsQuestion == ASSUME TypeOK PROVE NextQuestion \in 0..(Count - 1)
<1>1. Count \in {10, 12}
  BY Counts DEF TypeOK
<1> QED BY <1>1 DEF NextQuestion, TypeOK

(* On the question shown, an answer is right just when its button is. *)
LEMMA JudgedAsShown ==
    ASSUME NEW b, shownQuestion = questionNumber
    PROVE  CheckAnswer(b) <=> b = Right(shownQuestion)
BY DEF CheckAnswer, Title

(* A choice answers its own question only. *)
LEMMA ChoiceIsOwn ==
    ASSUME NEW b, variant = "choice", CheckAnswer(b)
    PROVE  shownQuestion = questionNumber /\ b = Right(shownQuestion)
BY DEF CheckAnswer, Title

-----------------------------------------------------------------------------
LEMMA QuizInit == Init => QuizInv
<1> SUFFICES ASSUME Init PROVE QuizInv
  OBVIOUS
<1>1. Count \in {10, 12}
  BY Counts DEF Init
<1>2. Clear \in [Button -> {"clear", "green", "red"}]
  BY DEF Clear
<1>3. 0 \in 0..(Count - 1)
  BY <1>1
<1>4. {score, shownScore, deserved, taps, timers} \subseteq Nat
  BY DEF Init
<1>5. TypeOK
  BY <1>2, <1>3, <1>4 DEF Init, TypeOK
<1> QED BY <1>5 DEF QuizInv, Init, ScreenFollows, ScoreIsDeserved

LEMMA TapKeepsInv ==
    ASSUME QuizInv, NEW b \in Button, AnswerButtonPressed(b) PROVE QuizInv'
<1> USE DEF AnswerButtonPressed
<1> DEFINE right == IF CheckAnswer(b) THEN 1 ELSE 0
           earned == IF b = Right(shownQuestion) THEN 1 ELSE 0
<1>1. TypeOK /\ ScoreIsDeserved
  BY DEF QuizInv
<1>2. variant' = variant /\ Count' = Count /\ Button' = Button
  BY DEF Count, Button
<1>3. score' = score + right /\ deserved' = deserved + earned
  OBVIOUS
<1>4. TypeOK'
  <2>1. questionNumber' \in 0..(Count' - 1)
    BY <1>1, <1>2, NextIsQuestion
  <2>2. {score', deserved', taps', timers', shownScore'} \subseteq Nat
    BY <1>1 DEF TypeOK
  <2>3. colour' \in [Button' -> {"clear", "green", "red"}]
    BY <1>1, <1>2 DEF TypeOK
  <2>4. hasty' \in BOOLEAN
    BY <1>1 DEF TypeOK
  <2> QED BY <1>1, <1>2, <2>1, <2>2, <2>3, <2>4 DEF TypeOK
<1>5. ScreenFollows'
  BY <1>1 DEF TypeOK, ScreenFollows
<1>6. ~hasty' => score' = deserved'
  <2> SUFFICES ASSUME ~hasty' PROVE score' = deserved'
    OBVIOUS
  <2>1. ~hasty /\ shownQuestion = questionNumber
    OBVIOUS
  <2>2. right = earned
    BY <2>1, JudgedAsShown
  <2>3. score = deserved
    BY <1>1, <2>1 DEF ScoreIsDeserved
  <2> QED BY <1>3, <2>2, <2>3
<1>7. variant' = "choice" => score' <= deserved'
  <2> SUFFICES ASSUME variant = "choice" PROVE score' <= deserved'
    BY <1>2
  <2>1. right <= earned /\ right \in {0, 1} /\ earned \in {0, 1}
    BY ChoiceIsOwn
  <2>2. score <= deserved /\ score \in Nat /\ deserved \in Nat
    BY <1>1 DEF ScoreIsDeserved, TypeOK
  <2> HIDE DEF right, earned
  <2> QED BY <1>3, <2>1, <2>2
<1> QED BY <1>4, <1>5, <1>6, <1>7 DEF QuizInv, ScoreIsDeserved

LEMMA TimerKeepsInv == ASSUME QuizInv, UpdateUI PROVE QuizInv'
<1>1. variant' = variant /\ Count' = Count /\ Button' = Button
  BY DEF UpdateUI, Count, Button
<1>2. Clear' = Clear /\ Clear \in [Button -> {"clear", "green", "red"}]
  BY <1>1 DEF Clear
<1>3. TypeOK'
  BY <1>1, <1>2 DEF QuizInv, TypeOK, UpdateUI
<1>4. ScreenFollows'
  BY <1>2 DEF ScreenFollows, UpdateUI
<1>5. ScoreIsDeserved'
  BY DEF QuizInv, ScoreIsDeserved, UpdateUI
<1> QED BY <1>3, <1>4, <1>5 DEF QuizInv

LEMMA QuizStep == QuizInv /\ [Next]_vars => QuizInv'
<1> SUFFICES ASSUME QuizInv, [Next]_vars PROVE QuizInv'
  OBVIOUS
<1>1. CASE UNCHANGED vars
  <2>1. Count' = Count /\ Button' = Button
    BY <1>1 DEF vars, Count, Button
  <2>2. Clear' = Clear
    BY <2>1 DEF Clear
  <2> QED BY <1>1, <2>1, <2>2 DEF vars, QuizInv, TypeOK, ScreenFollows, ScoreIsDeserved
<1> QED BY <1>1, TapKeepsInv, TimerKeepsInv DEF Next

LEMMA QuizAlways == Spec => []QuizInv
BY QuizInit, QuizStep, PTL DEF Spec

(* Every variable of the quiz keeps its type: in particular no question is ever
   read past the last one, however often the quiz starts again. *)
THEOREM QuizTypeCorrect == Spec => []TypeOK
<1>1. QuizInv => TypeOK
  BY DEF QuizInv
<1> QED BY <1>1, QuizAlways, PTL

(* The score counts answers to what the screen showed, exactly when no tap was
   hasty, and with three choices never more. *)
THEOREM ScoreDeserved == Spec => []ScoreIsDeserved
<1>1. QuizInv => ScoreIsDeserved
  BY DEF QuizInv
<1> QED BY <1>1, QuizAlways, PTL

(* With no timer running the screen shows the current question and score. *)
THEOREM ScreenCatchesUp == Spec => []ScreenFollows
<1>1. QuizInv => ScreenFollows
  BY DEF QuizInv
<1> QED BY <1>1, QuizAlways, PTL
=============================================================================
