------------------------------- MODULE Quizzler -------------------------------
(***************************************************************************)
(* Both Quizzlers: the one with a True and a False button and the one with *)
(* three choices.  A tap is judged at once against the current question    *)
(* and moves on to the next; the screen follows 0.2 seconds later, when a  *)
(* timer calls updateUI.  Until then the buttons can be tapped again.      *)
(***************************************************************************)
EXTENDS Naturals, Sequences

CONSTANTS MaxTaps,      \* bound on the taps
          MaxTimers     \* bound on the taps within 0.2 seconds

ASSUME QuizAssumption == MaxTaps \in Nat /\ MaxTimers \in Nat

VARIABLES
    variant,            \* "truefalse" or "choice"
    questionNumber, score,
    shownQuestion,      \* the question whose text, titles and progress are shown
    shownScore,
    colour,             \* of each button
    timers,             \* one-shot timers that will call updateUI
    deserved,           \* history: taps that were right for what was shown
    hasty,              \* history: some tap came before the screen followed
    taps

vars == <<variant, questionNumber, score, shownQuestion, shownScore, colour,
          timers, deserved, hasty, taps>>

(* The button with the right answer to each question: 1 is True, 2 False. *)
RightButton == [truefalse |-> <<1, 1, 1, 1, 2, 1, 2, 1, 1, 2, 2, 1>>,
                choice    |-> <<2, 3, 2, 1, 3, 2, 2, 1, 2, 2>>]
Right(q) == RightButton[variant][q + 1]
Count == Len(RightButton[variant])
Button == IF variant = "choice" THEN 1..3 ELSE 1..2

(* No two questions share a title, so a choice is named by the question it
   belongs to; the titles True and False are always the same. *)
Title(q, b) == <<IF variant = "choice" THEN q ELSE 0, b>>

Clear == [b \in Button |-> "clear"]

TypeOK ==
    /\ variant \in {"truefalse", "choice"}
    /\ {questionNumber, shownQuestion} \subseteq 0..(Count - 1)
    /\ {score, shownScore, deserved, taps, timers} \subseteq Nat
    /\ colour \in [Button -> {"clear", "green", "red"}]
    /\ hasty \in BOOLEAN

(* viewDidLoad shows the first question. *)
Init ==
    /\ variant \in {"truefalse", "choice"}
    /\ questionNumber = 0 /\ score = 0
    /\ shownQuestion = 0 /\ shownScore = 0 /\ colour = Clear
    /\ timers = 0
    /\ deserved = 0 /\ hasty = FALSE /\ taps = 0

(* A mistake: one question too far. *)
NextQuestionTooFar == IF questionNumber < Count THEN questionNumber + 1 ELSE 0

(* nextQuestion starts again after the last one; the score stays. *)
NextQuestion == IF questionNumber + 1 < Count THEN questionNumber + 1 ELSE 0

(* A mistake: the choice is judged by the position of its button. *)
CheckAnswerByPosition(b) == b = Right(questionNumber)

(* checkAnswer, with the title the tapped button has now. *)
CheckAnswer(b) ==
    Title(shownQuestion, b) = Title(questionNumber, Right(questionNumber))

(* A mistake: the timer is started only after a right answer. *)
AnswerButtonPressedThenStuck(b) ==
    /\ taps < MaxTaps /\ timers < MaxTimers
    /\ taps' = taps + 1
    /\ score' = score + (IF CheckAnswer(b) THEN 1 ELSE 0)
    /\ colour' = [colour EXCEPT ![b] = IF CheckAnswer(b) THEN "green" ELSE "red"]
    /\ questionNumber' = NextQuestion
    /\ timers' = timers + (IF CheckAnswer(b) THEN 1 ELSE 0)
    /\ deserved' = deserved + (IF b = Right(shownQuestion) THEN 1 ELSE 0)
    /\ hasty' = (hasty \/ shownQuestion # questionNumber)
    /\ UNCHANGED <<variant, shownQuestion, shownScore>>

AnswerButtonPressed(b) ==
    /\ taps < MaxTaps /\ timers < MaxTimers
    /\ taps' = taps + 1
    /\ score' = score + (IF CheckAnswer(b) THEN 1 ELSE 0)
    /\ colour' = [colour EXCEPT ![b] = IF CheckAnswer(b) THEN "green" ELSE "red"]
    /\ questionNumber' = NextQuestion
    /\ timers' = timers + 1
    /\ deserved' = deserved + (IF b = Right(shownQuestion) THEN 1 ELSE 0)
    /\ hasty' = (hasty \/ shownQuestion # questionNumber)
    /\ UNCHANGED <<variant, shownQuestion, shownScore>>

(* A mistake: only the first two buttons are cleared. *)
UpdateUITwoButtons ==
    /\ timers > 0
    /\ timers' = timers - 1
    /\ shownQuestion' = questionNumber /\ shownScore' = score
    /\ colour' = [b \in Button |-> IF b = 3 THEN colour[b] ELSE "clear"]
    /\ UNCHANGED <<variant, questionNumber, score, deserved, hasty, taps>>

(* updateUI, called by a timer. *)
UpdateUI ==
    /\ timers > 0
    /\ timers' = timers - 1
    /\ shownQuestion' = questionNumber /\ shownScore' = score
    /\ colour' = Clear
    /\ UNCHANGED <<variant, questionNumber, score, deserved, hasty, taps>>

Next == (\E b \in Button : AnswerButtonPressed(b)) \/ UpdateUI

Spec == Init /\ [][Next]_vars

(* The run loop fires due timers. *)
FairSpec == Spec /\ WF_vars(UpdateUI)

-----------------------------------------------------------------------------
(* The score counts answers to what the screen showed: exactly, when every tap
   waited for the screen, and with three choices never more, as a title left
   over from the last question answers no other (ViewController.swift:34-46). *)
ScoreIsDeserved == /\ ~hasty => score = deserved
                   /\ variant = "choice" => score <= deserved

(* With no timer running the screen shows the current question and score and no
   button is coloured, however many taps and timers overlapped. *)
ScreenFollows ==
    timers = 0 => /\ shownQuestion = questionNumber
                  /\ shownScore = score
                  /\ colour = Clear

(* A screen that lags behind the quiz catches up. *)
LagIsBrief == shownQuestion # questionNumber ~> shownQuestion = questionNumber
=============================================================================
