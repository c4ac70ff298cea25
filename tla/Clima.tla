-------------------------------- MODULE Clima --------------------------------
(***************************************************************************)
(* Clima's WeatherViewController: a search field and a location button in  *)
(* front of the same labels.  Core Location reports on the main thread,    *)
(* in run loop turns of its own.                                           *)
(***************************************************************************)
EXTENDS WebRequests

CONSTANTS City,         \* texts that make a URL
          Unparsable,   \* texts URL(string:) refuses
          NoText,       \* the empty text
          Here,         \* the question about the current coordinates
          MaxPresses    \* bound on the presses of the location button

ASSUME ClimaAssumption ==
    /\ Question = City \cup {NoText, Here}
    /\ Unparsable \cap Question = {}
    /\ MaxPresses \in Nat

VARIABLES
    text,       \* the search field
    editing,    \* the search field is first responder
    hint,       \* the placeholder asks for input
    locating,   \* Core Location is working on a requestLocation
    reports,    \* what it has found and not yet told the delegate
    unserved,   \* history: requestLocation was called and neither a weather
                \* request nor an error has followed
    pressed

fieldVars == <<text, editing, hint>>
placeVars == <<locating, reports, unserved, pressed>>
vars == <<webVars, fieldVars, placeVars>>

TypeOK == /\ WebTypeOK
          /\ text \in City \cup Unparsable \cup {NoText}
          /\ {editing, hint, locating, unserved} \subseteq BOOLEAN
          /\ reports \in Seq({"place", "error"})
          /\ pressed \in 0..MaxPresses
          /\ locating => unserved

(* viewDidLoad asks for the location at once. *)
Init == /\ WebInit
        /\ text = NoText /\ editing = FALSE /\ hint = FALSE
        /\ locating = TRUE /\ reports = <<>> /\ unserved = TRUE /\ pressed = 0

(* MaxRequests leaves a request for every place still to be reported. *)
Room == Len(asked) + Len(reports) + (IF locating THEN 1 ELSE 0) < MaxRequests

-----------------------------------------------------------------------------
(* The search field. *)

Type(t) ==
    /\ editing' = TRUE
    /\ text' = t
    /\ UNCHANGED <<webVars, hint, placeVars>>

(* textFieldDidEndEditing: fetch the weather of the text, empty the field.  A
   text that makes no URL is dropped without a word. *)
DidEndEditing ==
    /\ IF text \in Unparsable THEN UNCHANGED webVars ELSE Send(text)
    /\ text' = NoText /\ editing' = FALSE

(* searchPressed and the return key: endEditing(true).  The delegate refuses to
   end with an empty field; whether the forced resignation heeds it is UIKit's
   choice, and when it does not an empty question is sent. *)
SearchPressed ==
    /\ editing /\ Room
    /\ hint' = (hint \/ text = NoText)
    /\ \/ DidEndEditing
       \/ text = NoText /\ UNCHANGED <<webVars, text, editing>>
    /\ UNCHANGED placeVars

-----------------------------------------------------------------------------
(* The location. *)

(* requestLocation; while one is under way, another changes nothing. *)
LocationButtonPressed ==
    /\ ~locating /\ pressed < MaxPresses /\ Room
    /\ pressed' = pressed + 1
    /\ locating' = TRUE /\ unserved' = TRUE
    /\ UNCHANGED <<webVars, fieldVars, reports>>

(* Core Location finds the place, or gives up; either ends the request. *)
Reports(report) ==
    /\ locating
    /\ locating' = FALSE
    /\ reports' = Append(reports, report)
    /\ UNCHANGED <<webVars, fieldVars, unserved, pressed>>

(* A mistake: a place that was found for an earlier press is not used. *)
DidUpdateLocationsIgnoringOld ==
    /\ reports # <<>> /\ Head(reports) = "place"
    /\ IF locating THEN UNCHANGED webVars ELSE Send(Here)
    /\ locating' = FALSE
    /\ unserved' = (unserved /\ locating)
    /\ reports' = Tail(reports)
    /\ UNCHANGED <<fieldVars, pressed>>

(* didUpdateLocations: stopUpdatingLocation also ends a request made since. *)
DidUpdateLocations ==
    /\ reports # <<>> /\ Head(reports) = "place"
    /\ Send(Here)
    /\ locating' = FALSE /\ unserved' = FALSE
    /\ reports' = Tail(reports)
    /\ UNCHANGED <<fieldVars, pressed>>

(* didFailWithError: printed. *)
DidFailWithError ==
    /\ reports # <<>> /\ Head(reports) = "error"
    /\ unserved' = locating
    /\ reports' = Tail(reports)
    /\ UNCHANGED <<webVars, fieldVars, locating, pressed>>

-----------------------------------------------------------------------------
UserStep == \/ \E t \in City \cup Unparsable \cup {NoText} : Type(t)
            \/ SearchPressed
            \/ LocationButtonPressed

Delegate == DidUpdateLocations \/ DidFailWithError
Locates == \E report \in {"place", "error"} : Reports(report)
Web(A) == A /\ UNCHANGED <<fieldVars, placeVars>>
Ends(r) == r \in Requests /\ (Answer(r) \/ Fail(r))

Next == UserStep \/ Locates \/ Delegate \/ Web(WebStep)

Spec == Init /\ [][Next]_vars

(* Requests and locations end, by time-out if need be; the main thread runs the
   queue and the location reports.  Nothing is asked of the user. *)
Fairness == /\ \A r \in 1..MaxRequests : WF_vars(Web(Ends(r)))
            /\ WF_vars(Web(SetLabels))
            /\ WF_vars(Locates) /\ WF_vars(Delegate)

FairSpec == Spec /\ Fairness

-----------------------------------------------------------------------------
(* Every requestLocation is followed by a weather request or a printed error,
   also when stopUpdatingLocation (WeatherViewController.swift:82) ends a
   newer one on behalf of the older. *)
EveryPressIsLocated == unserved ~> ~unserved
=============================================================================
