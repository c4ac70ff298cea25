----------------------------- MODULE WebRequests -----------------------------
(***************************************************************************)
(* How Clima and ByteCoin ask the web: every question starts a task in a   *)
(* URLSession of its own.  The tasks' completion handlers run on           *)
(* background queues in any order; a good answer posts a block to the main *)
(* queue, which sets the labels; an error or an answer that does not       *)
(* decode is only printed.                                                 *)
(***************************************************************************)
EXTENDS Naturals, Sequences, SequencesExt, FiniteSets

CONSTANTS Question,      \* what can be asked
          MaxRequests    \* bound on the requests sent

ASSUME RequestsAssumption == MaxRequests \in Nat

VARIABLES
    asked,     \* the question of every request so far
    stage,     \* how far each request has come
    mainQ,     \* label blocks on the main queue, by request
    shown,     \* the request whose answer the labels show; 0 at launch
    before     \* history: the requests that had ended when each was sent

webVars == <<asked, stage, mainQ, shown, before>>

Requests == DOMAIN asked
In(s) == {r \in Requests : stage[r] = s}
Ended == In("shown") \cup In("failed")
Quiet == Ended = Requests

WebTypeOK ==
    /\ asked \in Seq(Question) /\ Len(asked) <= MaxRequests
    /\ stage \in [Requests -> {"sent", "queued", "shown", "failed"}]
    /\ mainQ \in Seq(Requests)
    /\ shown \in {0} \cup Requests
    /\ before \in [Requests -> SUBSET Requests]

WebInit == /\ asked = <<>> /\ stage = <<>> /\ before = <<>>
           /\ mainQ = <<>>
           /\ shown = 0

(* performURL, performRequest: start a task for q. *)
Send(q) ==
    /\ Len(asked) < MaxRequests
    /\ asked' = Append(asked, q)
    /\ stage' = Append(stage, "sent")
    /\ before' = Append(before, Ended)
    /\ UNCHANGED <<mainQ, shown>>

(* A mistake: the handler runs for every part of the answer that arrives. *)
AnswerInParts(r) ==
    /\ stage[r] \in {"sent", "queued", "shown"}
    /\ Len(mainQ) < MaxRequests
    /\ stage' = [stage EXCEPT ![r] = "queued"]
    /\ mainQ' = Append(mainQ, r)
    /\ UNCHANGED <<asked, shown, before>>

(* A mistake: while a label block is queued the next one is not posted. *)
AnswerDropped(r) ==
    /\ stage[r] = "sent"
    /\ stage' = [stage EXCEPT ![r] = IF mainQ = <<>> THEN "queued" ELSE "shown"]
    /\ mainQ' = IF mainQ = <<>> THEN <<r>> ELSE mainQ
    /\ UNCHANGED <<asked, shown, before>>

(* The completion handler with data that decodes: post the label block. *)
Answer(r) ==
    /\ stage[r] = "sent"
    /\ stage' = [stage EXCEPT ![r] = "queued"]
    /\ mainQ' = Append(mainQ, r)
    /\ UNCHANGED <<asked, shown, before>>

(* The completion handler with an error, or data that does not decode. *)
Fail(r) ==
    /\ stage[r] = "sent"
    /\ stage' = [stage EXCEPT ![r] = "failed"]
    /\ UNCHANGED <<asked, mainQ, shown, before>>

(* A mistake: labels that already show an answer are not set again. *)
SetLabelsOnce ==
    /\ mainQ # <<>>
    /\ LET r == Head(mainQ) IN
         /\ shown' = IF shown = 0 THEN r ELSE shown
         /\ stage' = [stage EXCEPT ![r] = "shown"]
    /\ mainQ' = Tail(mainQ)
    /\ UNCHANGED <<asked, before>>

(* The block on the main queue sets all labels of one answer. *)
SetLabels ==
    /\ mainQ # <<>>
    /\ LET r == Head(mainQ) IN
         /\ shown' = r
         /\ stage' = [stage EXCEPT ![r] = "shown"]
    /\ mainQ' = Tail(mainQ)
    /\ UNCHANGED <<asked, before>>

WebStep == (\E r \in Requests : Answer(r) \/ Fail(r)) \/ SetLabels

-----------------------------------------------------------------------------
(* The labels respect real time: once the answer to a request is shown, that of
   a request which had ended before it was sent is never shown again, however
   the handlers and blocks interleave. *)
NeverGoesBack == \A r \in In("shown") : shown \notin before[r]

(* r was sent while another request was under way. *)
Overlapped(r) == before[r] # 1..(r - 1)

(* With nothing under way the labels show the newest request, unless it failed
   or overlapped another one (WeatherViewController.swift:66-72). *)
StaleOnlyAfterOverlap ==
    Quiet /\ asked # <<>> =>
        LET last == Len(asked) IN
        shown = last \/ stage[last] = "failed" \/ Overlapped(last)

(* Every request ends: its answer is shown, or its failure printed. *)
EveryRequestEnds ==
    \A r \in 1..MaxRequests :
        r \in In("sent") ~> shown = r \/ r \in In("failed")
=============================================================================
