------------------------------ MODULE Calculator ------------------------------
(***************************************************************************)
(* The advanced calculator's ViewController: a keypad over a label, a      *)
(* stored operator and two stored numbers.  Numbers are exact: a sign and  *)
(* a fraction, n/0 for infinity and 0/0 for nan.  What Double rounds and   *)
(* how String spells a number are left out.                                *)
(***************************************************************************)
EXTENDS Integers, Sequences, SequencesExt

CONSTANTS
    Digits,     \* the digit keys
    MaxLength,  \* bound on the keys of one number
    MaxNumber,  \* bound on the fractions calculated with
    MaxKeys     \* bound on the keys pressed

ASSUME CalculatorAssumption ==
    Digits \subseteq 0..9 /\ {MaxLength, MaxNumber, MaxKeys} \subseteq Nat

VARIABLES
    text,               \* displayLabel.text: a number the program printed, if
                        \* any, and the keys appended to it
    storedSymbol, previousNumber, storedValue, isFinishedTyping,
    stopped,            \* a fatalError ended the program
    pressed,            \* counts the keys
    operated,           \* history: an operator key was pressed
    sum                 \* history: what of a sum the last keys spell out

stored == <<storedSymbol, previousNumber, storedValue>>
vars == <<text, stored, isFinishedTyping, stopped, pressed, operated, sum>>

Operators == {"+", "-", "*", "/"}    \* the last two for the keys × and ÷
NoSymbol == "none"
Unary == {"+/-", "AC", "%"}
Point == 10             \* the key after the digits
NumKeys == Digits \cup {Point}

-----------------------------------------------------------------------------
(* Doubles. *)

gcd[a \in Nat, b \in Nat] == IF b = 0 THEN a ELSE gcd[b, a % b]

(* The number with this sign, in lowest terms; nan has no sign. *)
Fraction(negative, n, d) ==
    LET g == IF n = 0 /\ d = 0 THEN 1 ELSE gcd[n, d] IN
    [neg |-> negative /\ ~(n = 0 /\ d = 0), n |-> n \div g, d |-> d \div g]

Nan == Fraction(FALSE, 0, 0)
Zero == Fraction(FALSE, 0, 1)
IsInfinite(x) == x.d = 0 /\ x.n > 0

Negative(x) == Fraction(~x.neg, x.n, x.d)
Times(x, y) == Fraction(x.neg # y.neg, x.n * y.n, x.d * y.d)
Over(x, y) == Fraction(x.neg # y.neg, x.n * y.d, x.d * y.n)

Plus(x, y) ==
    LET signed(z) == IF z.neg THEN -z.n ELSE z.n
        s == signed(x) * y.d + signed(y) * x.d IN
    IF IsInfinite(x) /\ IsInfinite(y)
    THEN IF x.neg = y.neg THEN x ELSE Nan
    ELSE Fraction(s < 0 \/ (s = 0 /\ x.neg /\ y.neg), IF s < 0 THEN -s ELSE s, x.d * y.d)

Compute(symbol, x, y) == CASE symbol = "+" -> Plus(x, y)
                           [] symbol = "-" -> Plus(x, Negative(y))
                           [] symbol = "*" -> Times(x, y)
                           [] symbol = "/" -> Over(x, y)

(* Double(text) for a text of digits with at most one point. *)
Number(keys) ==
    LET add(read, key) ==
            CASE key = Point -> [read EXCEPT !.point = TRUE]
              [] key # Point /\ ~read.point -> [read EXCEPT !.n = 10 * @ + key]
              [] key # Point /\ read.point ->
                   [read EXCEPT !.n = 10 * @ + key, !.d = 10 * @]
        read == FoldLeft(add, [n |-> 0, d |-> 1, point |-> FALSE], keys) IN
    Fraction(FALSE, read.n, read.d)

-----------------------------------------------------------------------------
Printed(x) == [number |-> {x}, keys |-> <<>>]
Typed(keys) == [number |-> {}, keys |-> keys]

Points == {i \in DOMAIN text.keys : text.keys[i] = Point}
Continues == text.number # {} /\ text.keys # <<>>

(* The getter of displayValue: the label must be readable as a Double. *)
Readable == ~Continues /\ \A i, j \in Points : i = j
displayValue == IF text.number = {} THEN Number(text.keys)
                ELSE CHOOSE x \in text.number : TRUE

Init ==
    /\ text = Typed(<<0>>)
    /\ storedSymbol = NoSymbol /\ previousNumber = Zero /\ storedValue = Zero
    /\ isFinishedTyping = TRUE
    /\ stopped = FALSE /\ pressed = 0 /\ operated = FALSE /\ sum = <<>>

(* numButtonPressed: the first key replaces the text, unless it is a point; a
   second point is ignored. *)
NumButtonPressed(key) ==
    /\ isFinishedTyping \/ Len(text.keys) < MaxLength
    /\ IF isFinishedTyping
       THEN IF key = Point THEN UNCHANGED <<text, isFinishedTyping>>
            ELSE text' = Typed(<<key>>) /\ isFinishedTyping' = FALSE
       ELSE /\ text' = IF key = Point /\ (Points # {} \/ text.number # {}) THEN text
                       ELSE [text EXCEPT !.keys = Append(@, key)]
            /\ UNCHANGED isFinishedTyping
    /\ UNCHANGED <<stored, stopped, operated>>

(* A mistake: the last result is kept, not the number displayed. *)
OperatorOnResult(symbol) ==
    /\ symbol \in Operators
    /\ storedSymbol' = symbol /\ previousNumber' = storedValue
    /\ text' = Printed(storedValue)
    /\ UNCHANGED <<storedValue, stopped>>

(* calculate(symbol:isCalcMethod:_:) for an operator: remember, and show again. *)
Operator(symbol) ==
    /\ symbol \in Operators
    /\ storedSymbol' = symbol /\ previousNumber' = displayValue
    /\ text' = Printed(displayValue)
    /\ UNCHANGED <<storedValue, stopped>>

(* A mistake: the operator is used up. *)
EqualsForgets(symbol) ==
    /\ symbol = "="
    /\ \/ /\ storedSymbol # NoSymbol
          /\ storedValue' = Compute(storedSymbol, previousNumber, displayValue)
          /\ text' = Printed(storedValue')
          /\ UNCHANGED stopped
       \/ /\ storedSymbol = NoSymbol
          /\ stopped' = TRUE
          /\ UNCHANGED <<text, storedValue>>
    /\ storedSymbol' = NoSymbol
    /\ UNCHANGED previousNumber

(* "=": without an operator the result is nil, and the caller stops. *)
Equals(symbol) ==
    /\ symbol = "="
    /\ \/ /\ storedSymbol # NoSymbol
          /\ storedValue' = Compute(storedSymbol, previousNumber, displayValue)
          /\ text' = Printed(storedValue')
          /\ UNCHANGED stopped
       \/ /\ storedSymbol = NoSymbol
          /\ stopped' = TRUE
          /\ UNCHANGED <<text, storedValue>>
    /\ UNCHANGED <<storedSymbol, previousNumber>>

(* The other keys change the last result, whatever is displayed, and show it. *)
ChangeResult(symbol) ==
    /\ \/ symbol = "+/-" /\ storedValue' = Negative(storedValue)
       \/ symbol = "AC"  /\ storedValue' = Zero
       \/ symbol = "%"   /\ storedValue' = Times(storedValue, Fraction(FALSE, 1, 100))
    /\ text' = Printed(storedValue')
    /\ UNCHANGED <<storedSymbol, previousNumber, stopped>>

Calculate(symbol) == Operator(symbol) \/ Equals(symbol) \/ ChangeResult(symbol)

(* A mistake: the digits that follow extend the number just shown. *)
CalcButtonGoesOn(symbol) ==
    /\ UNCHANGED isFinishedTyping
    /\ IF Readable THEN Calculate(symbol)
       ELSE stopped' = TRUE /\ UNCHANGED <<text, stored>>
    /\ operated' = (operated \/ symbol \in Operators)

CalcButtonPressed(symbol) ==
    /\ isFinishedTyping' = TRUE
    /\ IF Readable THEN Calculate(symbol)
       ELSE stopped' = TRUE /\ UNCHANGED <<text, stored>>
    /\ operated' = (operated \/ symbol \in Operators)

-----------------------------------------------------------------------------
(* History: <<a>>, <<a, op>>, <<a, op, b>> or <<a, op, b, "=">> for the part of
   a sum that the last keys spell out, a and b the keys of its numbers. *)
SpelledNumber(key) ==
    IF key = Point /\ (~Len(sum) \in {1, 3} \/ Contains(Last(sum), Point)) THEN sum
    ELSE CASE Len(sum) \in {1, 3} -> [sum EXCEPT ![Len(sum)] = Append(@, key)]
           [] Len(sum) = 2 -> Append(sum, <<key>>)
           [] OTHER -> << <<key>> >>

SpelledSymbol(symbol) ==
    CASE symbol \in Operators /\ Len(sum) \in {1, 2} -> <<sum[1], symbol>>
      [] symbol \in Operators /\ Len(sum) = 3 -> <<sum[3], symbol>>
      [] symbol = "=" /\ Len(sum) = 3 -> Append(sum, symbol)
      [] OTHER -> <<>>

Press ==
    \/ \E key \in NumKeys : NumButtonPressed(key) /\ sum' = SpelledNumber(key)
    \/ \E symbol \in Operators \cup Unary \cup {"="} :
         CalcButtonPressed(symbol) /\ sum' = SpelledSymbol(symbol)

(* The numbers are within MaxNumber, so that TLC can compute the next. *)
WithinBounds == \A x \in {previousNumber, storedValue} :
                    x.n <= MaxNumber /\ x.d <= MaxNumber

Next ==
    /\ ~stopped
    /\ pressed < MaxKeys /\ pressed' = pressed + 1
    /\ WithinBounds
    /\ Press

Spec == Init /\ [][Next]_vars

-----------------------------------------------------------------------------
(* The program stops for one reason only, an "=" before any operator
   (ViewController.swift:51-53): never because the label cannot be read, and not
   for an "=" later on, however often it is repeated. *)
StopsOnlyWithoutOperator == stopped => Readable /\ ~operated

(* The label holds one number, printed or typed with at most one point: keys
   never run on from "inf", "nan" or a result (ViewController.swift:36,71-86). *)
TextIsOneNumber == Readable

(* Whatever was typed before, and whatever it left behind, the keys of a number,
   an operator, a number and "=" show their result; of a longer chain, that of
   the last two numbers (ViewController.swift:98-129). *)
SumIsRight ==
    Len(sum) = 4 => text = Printed(Compute(sum[2], Number(sum[1]), Number(sum[3])))
=============================================================================
