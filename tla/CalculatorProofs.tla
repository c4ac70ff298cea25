--------------------------- MODULE CalculatorProofs ---------------------------
(***************************************************************************)
(* What the calculator's label may hold and why the program stops, for     *)
(* every set of digit keys and every bound on keys and numbers.            *)
(***************************************************************************)
EXTENDS Calculator, SequenceTheorems, TLAPS

(* The label: a printed number or typed keys, never both, with one point. *)
LabelInv ==
    /\ text = [number |-> text.number, keys |-> text.keys]
    /\ text.keys \in Seq(0..Point)
    /\ text.number = {} \/ text.keys = <<>>
    /\ ~isFinishedTyping => text.number = {}
    /\ \A i, j \in Points : i = j

(* An operator key leaves its symbol stored for good. *)
SymbolInv == /\ operated => storedSymbol # NoSymbol
             /\ stopped => ~operated

CalcInv == LabelInv /\ SymbolInv

Typing(keys) == ~isFinishedTyping /\ text = Typed(keys)

(* The operator stays stored with the number before it. *)
Kept == /\ storedSymbol = sum[2] /\ sum[2] \in Operators
        /\ previousNumber = Number(sum[1])

(* What the last keys spell out is what the label and the store hold. *)
SumInv ==
    \/ sum = <<>> /\ isFinishedTyping
    \/ sum = <<sum[1]>> /\ Typing(sum[1])
    \/ /\ sum = <<sum[1], sum[2]>> /\ Kept
       /\ isFinishedTyping /\ text = Printed(Number(sum[1]))
    \/ sum = <<sum[1], sum[2], sum[3]>> /\ Kept /\ Typing(sum[3])
    \/ /\ sum = <<sum[1], sum[2], sum[3], "=">>
       /\ isFinishedTyping
       /\ text = Printed(Compute(sum[2], Number(sum[1]), Number(sum[3])))

-----------------------------------------------------------------------------
LEMMA LabelIsReadable == LabelInv => Readable
BY DEF LabelInv, Readable, Continues

(* Whatever the program prints is a label. *)
LEMMA PrintedIsLabel ==
    ASSUME NEW x, text' = Printed(x)
    PROVE  /\ text' = [number |-> text'.number, keys |-> text'.keys]
           /\ text'.keys = <<>> /\ text'.keys \in Seq(0..Point) /\ Points' = {}
<1>1. text' = [number |-> {x}, keys |-> <<>>]
  BY DEF Printed
<1>2. text'.number = {x} /\ text'.keys = <<>>
  BY <1>1
<1> QED BY <1>1, <1>2 DEF Points

LEMMA CalcInit == Init => CalcInv
<1> SUFFICES ASSUME Init PROVE CalcInv
  OBVIOUS
<1>1. text = [number |-> {}, keys |-> <<0>>]
  BY DEF Init, Typed
<1>2. text.number = {} /\ text.keys = <<0>>
  BY <1>1
<1>3. text.keys \in Seq(0..Point) /\ \A i, j \in Points : i = j
  BY <1>2 DEF Point, Points
<1> QED BY <1>1, <1>2, <1>3 DEF Init, CalcInv, LabelInv, SymbolInv

(* A key after the others adds a point only when there was none. *)
LEMMA AppendKeepsOnePoint ==
    ASSUME NEW keys \in Seq(0..Point), NEW key \in 0..Point, Point \in Nat,
           \A i, j \in {k \in DOMAIN keys : keys[k] = Point} : i = j,
           key = Point => {k \in DOMAIN keys : keys[k] = Point} = {}
    PROVE  LET longer == Append(keys, key) IN
           /\ longer \in Seq(0..Point)
           /\ \A i, j \in {k \in DOMAIN longer : longer[k] = Point} : i = j
<1> DEFINE longer == Append(keys, key)
           n == Len(keys) + 1
<1>1. /\ longer \in Seq(0..Point) /\ DOMAIN longer = DOMAIN keys \cup {n}
      /\ longer[n] = key
      /\ \A k \in DOMAIN keys : longer[k] = keys[k]
  <2>1. Len(keys) \in Nat /\ DOMAIN keys = 1..Len(keys)
    OBVIOUS
  <2>2. /\ longer \in Seq(0..Point) /\ Len(longer) = Len(keys) + 1
        /\ \A k \in 1..Len(keys) : longer[k] = keys[k]
        /\ longer[n] = key
    BY AppendProperties
  <2>3. DOMAIN longer = 1..n
    BY <2>2
  <2> HIDE DEF longer
  <2> QED BY <2>1, <2>2, <2>3
<1> HIDE DEF longer, n
<1>2. \A i, j \in {k \in DOMAIN longer : longer[k] = Point} : i = j
  BY <1>1
<1> QED BY <1>1, <1>2 DEF longer

LEMMA DigitKeepsInv ==
    ASSUME CalcInv, NEW key \in NumKeys, NumButtonPressed(key) PROVE CalcInv'
<1>1. key \in 0..Point /\ Point \in Nat
  BY CalculatorAssumption DEF NumKeys, Point
<1>2. UNCHANGED <<storedSymbol, stopped, operated>> /\ SymbolInv'
  BY DEF NumButtonPressed, stored, CalcInv, SymbolInv
<1>3. CASE text' = text /\ isFinishedTyping' = isFinishedTyping
  BY <1>2, <1>3 DEF CalcInv, LabelInv, Points
<1>4. CASE text' = Typed(<<key>>)
  <2>1. text' = [number |-> {}, keys |-> <<key>>]
    BY <1>4 DEF Typed
  <2>2. text'.number = {} /\ text'.keys = <<key>>
    BY <2>1
  <2>3. text'.keys \in Seq(0..Point) /\ \A i, j \in Points' : i = j
    BY <1>1, <2>2 DEF Points
  <2> QED BY <1>2, <2>1, <2>2, <2>3 DEF CalcInv, LabelInv
<1>5. CASE /\ ~isFinishedTyping /\ ~isFinishedTyping'
           /\ ~(key = Point /\ (Points # {} \/ text.number # {}))
           /\ text' = [text EXCEPT !.keys = Append(@, key)]
  <2>1. /\ text = [number |-> text.number, keys |-> text.keys]
        /\ text.number = {} /\ text.keys \in Seq(0..Point) /\ \A i, j \in Points : i = j
    BY <1>5 DEF CalcInv, LabelInv
  <2>2. text' = [number |-> {}, keys |-> Append(text.keys, key)]
    BY <1>5, <2>1
  <2>3. text'.number = {} /\ text'.keys = Append(text.keys, key)
    BY <2>2
  <2>4. key = Point => {k \in DOMAIN text.keys : text.keys[k] = Point} = {}
    BY <1>5 DEF Points
  <2>5. \A i, j \in {k \in DOMAIN text.keys : text.keys[k] = Point} : i = j
    BY <2>1 DEF Points
  <2>6. /\ text'.keys \in Seq(0..Point)
        /\ \A i, j \in {k \in DOMAIN text'.keys : text'.keys[k] = Point} : i = j
    BY <1>1, <2>1, <2>3, <2>4, <2>5, AppendKeepsOnePoint
  <2> QED BY <1>2, <2>2, <2>3, <2>6 DEF CalcInv, LabelInv, Points
<1> QED BY <1>3, <1>4, <1>5 DEF NumButtonPressed

LEMMA SymbolKeepsInv ==
    ASSUME CalcInv, ~stopped,
           NEW symbol \in Operators \cup Unary \cup {"="}, CalcButtonPressed(symbol)
    PROVE  CalcInv'
<1>1. /\ Calculate(symbol) /\ isFinishedTyping'
      /\ operated' = (operated \/ symbol \in Operators)
  BY LabelIsReadable DEF CalcButtonPressed, CalcInv
<1>2. CASE Operator(symbol)
  <2>1. SymbolInv'
    BY <1>1, <1>2 DEF Operator, Operators, NoSymbol, SymbolInv
  <2>2. LabelInv'
    BY <1>1, <1>2, PrintedIsLabel DEF Operator, LabelInv
  <2> QED BY <2>1, <2>2 DEF CalcInv
<1>3. CASE Equals(symbol)
  <2>1. (operated' <=> operated) /\ storedSymbol' = storedSymbol
    BY <1>1, <1>3 DEF Equals, Operators
  <2>2. SymbolInv'
    BY <1>3, <2>1 DEF Equals, SymbolInv, CalcInv
  <2>3. CASE text' = text
    BY <1>1, <2>2, <2>3 DEF CalcInv, LabelInv, Points
  <2>4. CASE text' = Printed(storedValue')
    BY <1>1, <2>2, <2>4, PrintedIsLabel DEF CalcInv, LabelInv
  <2> QED BY <1>3, <2>3, <2>4 DEF Equals
<1>4. CASE ChangeResult(symbol)
  <2>1. symbol \notin Operators
    BY <1>4 DEF ChangeResult, Operators
  <2>2. SymbolInv'
    BY <1>1, <1>4, <2>1 DEF ChangeResult, SymbolInv, CalcInv
  <2>3. text' = Printed(storedValue')
    BY <1>4 DEF ChangeResult
  <2> QED BY <1>1, <2>2, <2>3, PrintedIsLabel DEF CalcInv, LabelInv
<1> QED BY <1>1, <1>2, <1>3, <1>4 DEF Calculate

LEMMA CalcStep == CalcInv /\ [Next]_vars => CalcInv'
<1> SUFFICES ASSUME CalcInv, [Next]_vars PROVE CalcInv'
  OBVIOUS
<1>1. CASE Next
  BY <1>1, DigitKeepsInv, SymbolKeepsInv DEF Next, Press
<1>2. CASE UNCHANGED vars
  BY <1>2 DEF vars, stored, CalcInv, LabelInv, SymbolInv, Points
<1> QED BY <1>1, <1>2

LEMMA CalcInvariant == Spec => []CalcInv
BY CalcInit, CalcStep, PTL DEF Spec

-----------------------------------------------------------------------------
(* The label always reads as one number: keys never run on from "inf", "nan" or
   a result, and no second point is taken. *)
THEOREM LabelReads == Spec => []TextIsOneNumber
<1>1. CalcInv => TextIsOneNumber
  BY LabelIsReadable DEF CalcInv, TextIsOneNumber
<1> QED BY <1>1, CalcInvariant, PTL

(* The program stops for an "=" before any operator, and for nothing else. *)
THEOREM StopHasOneReason == Spec => []StopsOnlyWithoutOperator
<1>1. CalcInv => StopsOnlyWithoutOperator
  BY LabelIsReadable DEF CalcInv, SymbolInv, StopsOnlyWithoutOperator
<1> QED BY <1>1, CalcInvariant, PTL

-----------------------------------------------------------------------------
(* A tuple and one more. *)
LEMMA AppendOne ==
    ASSUME NEW S, NEW s \in Seq(S), NEW x \in S, NEW u \in Seq(S),
           Len(u) = Len(s) + 1, u[Len(s) + 1] = x, \A i \in 1..Len(s) : u[i] = s[i]
    PROVE  Append(s, x) = u
<1>1. Append(s, x) \in Seq(S) /\ Len(Append(s, x)) = Len(u)
  BY AppendProperties
<1>2. \A i \in 1..Len(u) : Append(s, x)[i] = u[i]
  <2>1. \A i \in 1..Len(u) : i = Len(s) + 1 \/ i \in 1..Len(s)
    OBVIOUS
  <2> QED BY <2>1, AppendProperties
<1> QED BY <1>1, <1>2, SeqEqual

LEMMA AppendToPair ==
    ASSUME NEW a, NEW b, NEW x
    PROVE  Append(<<a, b>>, x) = <<a, b, x>>
<1> DEFINE S == {a, b, x}
           s == <<a, b>>
           u == <<a, b, x>>
<1>1. s \in Seq(S) /\ Len(s) = 2 /\ x \in S /\ u \in Seq(S)
  OBVIOUS
<1>2. Len(u) = Len(s) + 1 /\ u[Len(s) + 1] = x /\ \A i \in 1..Len(s) : u[i] = s[i]
  OBVIOUS
<1> HIDE DEF S, s, u
<1>3. Append(s, x) = u
  BY <1>1, <1>2, AppendOne
<1> QED BY <1>3 DEF s, u

LEMMA AppendToTriple ==
    ASSUME NEW a, NEW b, NEW c, NEW x
    PROVE  Append(<<a, b, c>>, x) = <<a, b, c, x>>
<1> DEFINE S == {a, b, c, x}
           s == <<a, b, c>>
           u == <<a, b, c, x>>
<1>1. s \in Seq(S) /\ Len(s) = 3 /\ x \in S /\ u \in Seq(S)
  OBVIOUS
<1>2. Len(u) = Len(s) + 1 /\ u[Len(s) + 1] = x /\ \A i \in 1..Len(s) : u[i] = s[i]
  OBVIOUS
<1> HIDE DEF S, s, u
<1>3. Append(s, x) = u
  BY <1>1, <1>2, AppendOne
<1> QED BY <1>3 DEF s, u

(* How long a spelling is tells how far it has come. *)
LEMMA Lengths ==
    /\ \A n : n = 0 \/ n = 4 => n \notin {1, 2} /\ n # 3 /\ n \notin {1, 3}
    /\ \A n : n = 2 => n \notin {1, 3}
    /\ \A n : n = 3 => n # 0 /\ n # 1 /\ n # 2 /\ n # 4
    /\ \A n : n = 4 => n # 0 /\ n # 1 /\ n # 2 /\ n # 3
    /\ \A a, b, c, d :
         /\ Len(<<>>) = 0 /\ Len(<<a>>) = 1 /\ Len(<<a, b>>) = 2
         /\ Len(<<a, b, c>>) = 3 /\ Len(<<a, b, c, d>>) = 4
OBVIOUS

(* A key is added to a number and to what is spelled of it alike. *)
LEMMA DigitSpells ==
    ASSUME CalcInv, SumInv, NEW key \in NumKeys, NumButtonPressed(key),
           sum' = SpelledNumber(key)
    PROVE  SumInv'
<1>1. key \in 0..Point /\ Point \in Nat
  BY CalculatorAssumption DEF NumKeys, Point
<1>2. UNCHANGED <<storedSymbol, previousNumber>>
  BY DEF NumButtonPressed, stored
<1>3. CASE isFinishedTyping /\ key = Point
  <2>1. Len(sum) = 0 \/ Len(sum) = 2 \/ Len(sum) = 4
    BY <1>3, Lengths DEF SumInv, Typing
  <2>2. Len(sum) \notin {1, 3}
    BY <2>1, Lengths, Zenon
  <2>3. sum' = sum
    BY <1>3, <2>2 DEF SpelledNumber
  <2>4. UNCHANGED <<text, isFinishedTyping>>
    BY <1>3 DEF NumButtonPressed
  <2> QED BY <1>2, <2>3, <2>4 DEF SumInv, Kept, Typing
<1>4. CASE isFinishedTyping /\ key # Point
  <2>1. text' = Typed(<<key>>) /\ ~isFinishedTyping'
    BY <1>4 DEF NumButtonPressed
  <2>2. CASE sum = <<>> \/ sum = <<sum[1], sum[2], sum[3], "=">>
    <3>1. Len(sum) = 0 \/ Len(sum) = 4
      BY <2>2, Lengths, Zenon
    <3>2. Len(sum) \notin {1, 2} /\ Len(sum) # 2 /\ Len(sum) \notin {1, 3}
      BY <3>1, Lengths
    <3>3. sum' = << <<key>> >>
      BY <1>4, <3>2, Zenon DEF SpelledNumber
    <3>4. sum'[1] = <<key>>
      BY <3>3
    <3> QED BY <2>1, <3>3, <3>4 DEF SumInv, Typing
  <2>3. CASE sum = <<sum[1], sum[2]>> /\ Kept
    <3>1. Len(sum) = 2 /\ Len(sum) \notin {1, 3}
      BY <2>3, Lengths, Zenon
    <3>2. sum' = Append(sum, <<key>>)
      BY <1>4, <3>1, Zenon DEF SpelledNumber
    <3>3. sum' = <<sum[1], sum[2], <<key>> >>
      BY <2>3, <3>2, AppendToPair, Zenon
    <3>4. sum'[1] = sum[1] /\ sum'[2] = sum[2] /\ sum'[3] = <<key>>
      BY <3>3
    <3> QED BY <1>2, <2>1, <2>3, <3>3, <3>4 DEF SumInv, Typing, Kept
  <2> QED BY <1>4, <2>2, <2>3 DEF SumInv, Typing
<1>5. CASE ~isFinishedTyping
  <2>1. PICK keys : text = Typed(keys) /\
                    \/ sum = <<keys>>
                    \/ sum = <<sum[1], sum[2], keys>> /\ Kept
    BY <1>5 DEF SumInv, Typing
  <2>2. text = [number |-> {}, keys |-> keys] /\ text.keys = keys /\ text.number = {}
    BY <2>1 DEF Typed
  <2>3. keys \in Seq(0..Point)
    BY <2>2 DEF CalcInv, LabelInv
  <2>4. Len(sum) \in {1, 3} /\ Last(sum) = keys /\ sum[Len(sum)] = keys
    BY <2>1 DEF Last
  <2>5. Contains(keys, Point) <=> Points # {}
    BY <2>2, <2>3 DEF Contains, Points
  <2>6. ~isFinishedTyping'
    BY <1>5 DEF NumButtonPressed
  <2>7. CASE key = Point /\ Contains(keys, Point)
    <3>1. sum' = sum /\ text' = text
      BY <1>5, <2>4, <2>5, <2>7 DEF SpelledNumber, NumButtonPressed
    <3> QED BY <1>2, <1>5, <2>6, <3>1 DEF SumInv, Typing, Kept
  <2>8. CASE ~(key = Point /\ Contains(keys, Point))
    <3>1. text' = [text EXCEPT !.keys = Append(@, key)]
      BY <1>5, <2>2, <2>5, <2>8 DEF NumButtonPressed
    <3>2. text' = Typed(Append(keys, key))
      BY <2>2, <3>1 DEF Typed
    <3>3. sum' = [sum EXCEPT ![Len(sum)] = Append(@, key)]
      BY <2>4, <2>8 DEF SpelledNumber
    <3>4. CASE sum = <<keys>>
      <4>1. sum' = <<Append(keys, key)>>
        BY <3>3, <3>4
      <4>2. sum'[1] = Append(keys, key)
        BY <4>1
      <4> QED BY <2>6, <3>2, <4>1, <4>2 DEF SumInv, Typing
    <3>5. CASE sum = <<sum[1], sum[2], keys>> /\ Kept
      <4>1. sum' = <<sum[1], sum[2], Append(keys, key)>>
        BY <3>3, <3>5
      <4>2. sum'[1] = sum[1] /\ sum'[2] = sum[2] /\ sum'[3] = Append(keys, key)
        BY <4>1
      <4> QED BY <1>2, <2>6, <3>2, <3>5, <4>1, <4>2 DEF SumInv, Typing, Kept
    <3> QED BY <2>1, <3>4, <3>5
  <2> QED BY <2>7, <2>8
<1> QED BY <1>3, <1>4, <1>5

(* The number displayed is the one spelled last. *)
LEMMA DisplayIsSpelled ==
    /\ \A keys : text = Typed(keys) => displayValue = Number(keys)
    /\ \A x : text = Printed(x) => displayValue = x
BY DEF Typed, Printed, displayValue

LEMMA SymbolSpells ==
    ASSUME CalcInv, SumInv, NEW symbol \in Operators \cup Unary \cup {"="},
           CalcButtonPressed(symbol), sum' = SpelledSymbol(symbol)
    PROVE  SumInv'
<1>1. Calculate(symbol) /\ isFinishedTyping'
  BY LabelIsReadable DEF CalcButtonPressed, CalcInv
<1>2. CASE sum' = <<>>
  BY <1>1, <1>2 DEF SumInv
<1>3. CASE symbol \in Operators
  <2>1. /\ storedSymbol' = symbol /\ previousNumber' = displayValue
        /\ text' = Printed(displayValue)
    BY <1>1, <1>3 DEF Calculate, Operator, Equals, ChangeResult, Operators
  <2>2. ASSUME NEW a, displayValue = Number(a), sum' = <<a, symbol>> PROVE SumInv'
    <3>1. sum'[1] = a /\ sum'[2] = symbol
      BY <2>2
    <3> QED BY <1>1, <1>3, <2>1, <2>2, <3>1 DEF SumInv, Kept
  <2>3. CASE sum = <<sum[1]>> /\ Typing(sum[1])
    <3>1. Len(sum) = 1
      BY <2>3
    <3>2. sum' = <<sum[1], symbol>>
      BY <1>3, <3>1 DEF SpelledSymbol
    <3> QED BY <2>2, <2>3, <3>2, DisplayIsSpelled DEF Typing
  <2>4. CASE sum = <<sum[1], sum[2]>> /\ text = Printed(Number(sum[1]))
    <3>1. Len(sum) = 2
      BY <2>4
    <3>2. sum' = <<sum[1], symbol>>
      BY <1>3, <3>1 DEF SpelledSymbol
    <3> QED BY <2>2, <2>4, <3>2, DisplayIsSpelled
  <2>5. CASE sum = <<sum[1], sum[2], sum[3]>> /\ Typing(sum[3])
    <3>1. Len(sum) = 3
      BY <2>5
    <3>2. sum' = <<sum[3], symbol>>
      BY <1>3, <3>1 DEF SpelledSymbol, Operators
    <3> QED BY <2>2, <2>5, <3>2, DisplayIsSpelled DEF Typing
  <2>6. CASE sum = <<>> \/ sum = <<sum[1], sum[2], sum[3], "=">>
    <3>1. Len(sum) = 0 \/ Len(sum) = 4
      BY <2>6, Lengths, Zenon
    <3>2. Len(sum) \notin {1, 2} /\ Len(sum) # 3 /\ symbol # "="
      BY <1>3, <3>1, Lengths DEF Operators
    <3>3. sum' = <<>>
      BY <3>2, Zenon DEF SpelledSymbol
    <3> QED BY <1>2, <3>3
  <2> QED BY <2>3, <2>4, <2>5, <2>6 DEF SumInv
<1>4. CASE symbol = "=" /\ sum = <<sum[1], sum[2], sum[3]>> /\ Kept /\ Typing(sum[3])
  <2>1. Len(sum) = 3 /\ symbol \notin Operators
    BY <1>4, Lengths DEF Operators
  <2>2. sum' = <<sum[1], sum[2], sum[3], "=">>
    <3>1. sum' = Append(sum, "=")
      BY <1>4, <2>1, Zenon DEF SpelledSymbol
    <3> QED BY <1>4, <3>1, AppendToTriple, Zenon
  <2>3. displayValue = Number(sum[3]) /\ storedSymbol # NoSymbol
    BY <1>4, DisplayIsSpelled DEF Typing, Kept, Operators, NoSymbol
  <2>4. Equals(symbol)
    BY <1>1, <1>4 DEF Calculate, Operator, Operators, ChangeResult
  <2>5. text' = Printed(Compute(storedSymbol, previousNumber, displayValue))
    BY <2>3, <2>4 DEF Equals
  <2>6. text' = Printed(Compute(sum[2], Number(sum[1]), Number(sum[3])))
    BY <1>4, <2>3, <2>5 DEF Kept
  <2>7. sum'[1] = sum[1] /\ sum'[2] = sum[2] /\ sum'[3] = sum[3]
    BY <2>2
  <2> QED BY <1>1, <2>2, <2>6, <2>7 DEF SumInv
<1>5. CASE symbol \notin Operators /\ ~(symbol = "=" /\ Len(sum) = 3)
  BY <1>2, <1>5 DEF SpelledSymbol
<1>6. ASSUME Len(sum) = 3
      PROVE  sum = <<sum[1], sum[2], sum[3]>> /\ Kept /\ Typing(sum[3])
  <2>1. /\ sum # <<>> /\ sum # <<sum[1]>> /\ sum # <<sum[1], sum[2]>>
        /\ sum # <<sum[1], sum[2], sum[3], "=">>
    BY <1>6, Lengths, Zenon
  <2> QED BY <2>1, Zenon DEF SumInv
<1> QED BY <1>3, <1>4, <1>5, <1>6

LEMMA SumStep == CalcInv /\ SumInv /\ [Next]_vars => SumInv'
<1> SUFFICES ASSUME CalcInv, SumInv, [Next]_vars PROVE SumInv'
  OBVIOUS
<1>1. CASE Next
  BY <1>1, DigitSpells, SymbolSpells DEF Next, Press
<1>2. CASE UNCHANGED vars
  BY <1>2 DEF vars, stored, SumInv, Kept, Typing
<1> QED BY <1>1, <1>2

(* The keys of a number, an operator, a number and "=" show their result,
   whatever was pressed before and whatever it left in the store. *)
THEOREM SumsAreRight == Spec => []SumIsRight
<1>1. Init => SumInv
  BY DEF Init, SumInv
<1>2. SumInv => SumIsRight
  <2> SUFFICES ASSUME SumInv, Len(sum) = 4
               PROVE  text = Printed(Compute(sum[2], Number(sum[1]), Number(sum[3])))
    BY DEF SumIsRight
  <2>1. /\ sum # <<>> /\ sum # <<sum[1]>> /\ sum # <<sum[1], sum[2]>>
        /\ sum # <<sum[1], sum[2], sum[3]>>
    BY Lengths, Zenon
  <2> QED BY <2>1, Zenon DEF SumInv
<1> QED BY <1>1, <1>2, SumStep, CalcInvariant, PTL DEF Spec
=============================================================================
