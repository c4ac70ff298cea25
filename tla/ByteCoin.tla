------------------------------- MODULE ByteCoin -------------------------------
(***************************************************************************)
(* ByteCoin's ViewController: a picker of currencies above a price.  Each  *)
(* time the picker comes to rest, the price in that currency is asked for. *)
(***************************************************************************)
EXTENDS WebRequests

VARIABLE picked      \* the currency the picker rests on

vars == <<webVars, picked>>

TypeOK == WebTypeOK /\ picked \in Question

(* The picker starts on some row without asking for its price. *)
Init == WebInit /\ picked \in Question

(* A mistake: the price is asked for only when the labels show another
   currency. *)
DidSelectRowUnlessShown(currency) ==
    /\ Len(asked) < MaxRequests
    /\ picked' = currency
    /\ IF shown # 0 /\ asked[shown] = currency THEN UNCHANGED webVars
       ELSE Send(currency)

(* pickerView(_:didSelectRow:inComponent:), also for the row it was on. *)
DidSelectRow(currency) ==
    /\ Send(currency)
    /\ picked' = currency

Next == \/ \E currency \in Question : DidSelectRow(currency)
        \/ WebStep /\ UNCHANGED picked

Spec == Init /\ [][Next]_vars

-----------------------------------------------------------------------------
(* With nothing under way the price shown is in the currency the picker rests
   on, unless the last request failed or overlapped an earlier one
   (ViewController.swift:43-62). *)
LabelFollowsPicker ==
    Quiet /\ asked # <<>> =>
        LET last == Len(asked) IN
        \/ shown # 0 /\ asked[shown] = picked
        \/ stage[last] = "failed"
        \/ Overlapped(last)

=============================================================================
