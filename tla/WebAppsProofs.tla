----------------------------- MODULE WebAppsProofs -----------------------------
(***************************************************************************)
(* What the labels of ByteCoin and of Clima show, for any set of questions *)
(* and any number of requests answered in any order.  Clima is taken over  *)
(* the same requests as ByteCoin, its field and its places beside them.    *)
(***************************************************************************)
EXTENDS ByteCoin, TLAPS

CONSTANTS City, Unparsable, NoText, Here, MaxPresses
VARIABLES text, editing, hint, locating, reports, unserved, pressed

Weather == INSTANCE Clima

(* Every request on the main queue is there once, and has not ended. *)
QueueInv == /\ \A i \in DOMAIN mainQ : stage[mainQ[i]] = "queued"
            /\ \A i, j \in DOMAIN mainQ : mainQ[i] = mainQ[j] => i = j

(* The inductive invariant.  What had ended when a request was sent has ended
   for good, so the block about to run is not among it. *)
WebInv == /\ WebTypeOK
          /\ QueueInv
          /\ \A r \in Requests : before[r] \subseteq Ended
          /\ In("shown") # {} => shown # 0
          /\ NeverGoesBack

CoinInv == /\ WebInv
           /\ picked \in Question
           /\ asked # <<>> => asked[Len(asked)] = picked

ClimaInv == WebInv /\ Weather!TypeOK

-----------------------------------------------------------------------------
(* The type invariant, spelled out for the provers. *)
LEMMA WebTypes ==
    ASSUME WebTypeOK
    PROVE  /\ asked \in Seq(Question) /\ Len(asked) \in Nat /\ Len(asked) <= MaxRequests
           /\ Requests = 1..Len(asked)
           /\ stage \in [Requests -> {"sent", "queued", "shown", "failed"}]
           /\ mainQ \in Seq(Requests)
           /\ \A i \in DOMAIN mainQ : mainQ[i] \in Requests
           /\ shown \in {0} \cup Requests
           /\ before \in [Requests -> SUBSET Requests]
BY DEF WebTypeOK, Requests

LEMMA WebInitInv == WebInit => WebInv
<1> SUFFICES ASSUME WebInit PROVE WebInv
  OBVIOUS
<1>1. Requests = {}
  BY DEF WebInit, Requests
<1>2. /\ stage \in [Requests -> {"sent", "queued", "shown", "failed"}]
      /\ before \in [Requests -> SUBSET Requests]
  BY <1>1 DEF WebInit
<1>3. WebTypeOK
  BY <1>1, <1>2, RequestsAssumption DEF WebInit, WebTypeOK
<1>4. QueueInv
  BY DEF WebInit, QueueInv
<1>5. In("shown") = {}
  BY <1>1 DEF In
<1> QED BY <1>1, <1>3, <1>4, <1>5 DEF WebInv, NeverGoesBack

(* A new request is neither queued nor shown, and remembers what has ended. *)
LEMMA SendKeepsInv == ASSUME WebInv, NEW q \in Question, Send(q) PROVE WebInv'
<1> DEFINE new == Len(asked) + 1
<1>1. WebTypeOK /\ QueueInv
  BY DEF WebInv
<1>2. /\ asked' = Append(asked, q) /\ Len(asked) < MaxRequests
      /\ stage' = Append(stage, "sent")
      /\ before' = Append(before, Ended)
      /\ mainQ' = mainQ /\ shown' = shown
  BY DEF Send
<1>3. Requests' = 1..new /\ Requests = 1..Len(asked) /\ Len(asked) \in Nat
  BY <1>1, <1>2, WebTypes DEF Requests
<1>4. Ended \subseteq Requests
  BY DEF Ended, In
<1>5. /\ \A r \in Requests : stage'[r] = stage[r] /\ before'[r] = before[r]
      /\ stage'[new] = "sent" /\ before'[new] = Ended
      /\ stage' \in Seq({"sent", "queued", "shown", "failed"}) /\ Len(stage') = new
      /\ before' \in Seq(SUBSET Requests) /\ Len(before') = new
  <2>1. /\ stage \in [1..Len(asked) -> {"sent", "queued", "shown", "failed"}]
        /\ before \in [1..Len(asked) -> SUBSET Requests]
    BY <1>1, <1>3, WebTypes
  <2>2. stage \in Seq({"sent", "queued", "shown", "failed"}) /\ Len(stage) = Len(asked)
    BY <1>3, <2>1
  <2>3. before \in Seq(SUBSET Requests) /\ Len(before) = Len(asked)
    BY <1>3, <2>1
  <2> QED BY <1>2, <1>3, <1>4, <2>2, <2>3
<1>6. stage' \in [Requests' -> {"sent", "queued", "shown", "failed"}]
  BY <1>3, <1>5
<1>7. before' \in [Requests' -> SUBSET Requests']
  <2>1. before' \in [Requests' -> SUBSET Requests] /\ Requests \subseteq Requests'
    BY <1>3, <1>5
  <2> QED BY <2>1
<1>8. WebTypeOK'
  <2>1. asked' \in Seq(Question) /\ Len(asked') <= MaxRequests
    BY <1>1, <1>2, WebTypes, RequestsAssumption
  <2>2. mainQ' \in Seq(Requests') /\ shown' \in {0} \cup Requests'
    BY <1>1, <1>2, <1>3, WebTypes
  <2> QED BY <1>6, <1>7, <2>1, <2>2 DEF WebTypeOK
<1>9. QueueInv'
  BY <1>1, <1>2, <1>5, WebTypes DEF QueueInv
<1>10. In("shown")' = In("shown") /\ In("failed")' = In("failed")
  BY <1>3, <1>5 DEF In
<1>11. Ended' = Ended
  BY <1>10 DEF Ended
<1>12. \A r \in Requests' : before'[r] \subseteq Ended'
  BY <1>3, <1>5, <1>11 DEF WebInv
<1>13. \A r \in In("shown")' : shown' \notin before'[r]
  BY <1>2, <1>5, <1>10 DEF WebInv, NeverGoesBack, In
<1> QED BY <1>2, <1>8, <1>9, <1>10, <1>12, <1>13 DEF WebInv, NeverGoesBack

(* The requests change their stages only. *)
LEMMA MovesType ==
    ASSUME WebTypeOK, NEW r \in Requests, NEW s \in {"queued", "shown", "failed"},
           stage' = [stage EXCEPT ![r] = s], UNCHANGED <<asked, before>>,
           mainQ' \in Seq(Requests), shown' \in {0} \cup Requests
    PROVE  /\ WebTypeOK' /\ Requests' = Requests
           /\ stage'[r] = s
           /\ \A p \in Requests : p # r => stage'[p] = stage[p]
<1>1. Requests' = Requests
  BY DEF Requests
<1>2. stage \in [Requests -> {"sent", "queued", "shown", "failed"}]
  BY WebTypes
<1>3. stage' \in [Requests -> {"sent", "queued", "shown", "failed"}]
  BY <1>2
<1> QED BY <1>1, <1>2, <1>3 DEF WebTypeOK

LEMMA AnswerKeepsInv == ASSUME WebInv, NEW r \in Requests, Answer(r) PROVE WebInv'
<1>1. WebTypeOK /\ QueueInv
  BY DEF WebInv
<1>2. /\ stage[r] = "sent" /\ stage' = [stage EXCEPT ![r] = "queued"]
      /\ mainQ' = Append(mainQ, r) /\ UNCHANGED <<asked, shown, before>>
  BY DEF Answer
<1>3. mainQ' \in Seq(Requests) /\ shown' \in {0} \cup Requests
  BY <1>1, <1>2, WebTypes
<1>4. /\ WebTypeOK' /\ Requests' = Requests /\ stage'[r] = "queued"
      /\ \A p \in Requests : p # r => stage'[p] = stage[p]
  BY <1>1, <1>2, <1>3, MovesType
<1>5. QueueInv'
  <2>1. mainQ \in Seq(Requests)
    BY <1>1, WebTypes
  <2>2. /\ DOMAIN mainQ' = 1..(Len(mainQ) + 1) /\ DOMAIN mainQ = 1..Len(mainQ)
        /\ Len(mainQ) \in Nat /\ mainQ'[Len(mainQ) + 1] = r
        /\ \A i \in DOMAIN mainQ : mainQ'[i] = mainQ[i]
    BY <1>2, <2>1
  <2>3. \A i \in DOMAIN mainQ : mainQ[i] # r /\ stage'[mainQ[i]] = "queued"
    BY <1>1, <1>2, <1>4, WebTypes DEF QueueInv
  <2>4. \A i \in DOMAIN mainQ' : i \in DOMAIN mainQ \/ i = Len(mainQ) + 1
    BY <2>2
  <2>5. \A i \in DOMAIN mainQ' : stage'[mainQ'[i]] = "queued"
    BY <1>4, <2>2, <2>3, <2>4
  <2>6. \A i, j \in DOMAIN mainQ' : mainQ'[i] = mainQ'[j] => i = j
    BY <1>1, <2>2, <2>3, <2>4 DEF QueueInv
  <2> QED BY <2>5, <2>6 DEF QueueInv
<1>6. In("shown")' = In("shown") /\ In("failed")' = In("failed")
  BY <1>2, <1>4 DEF In
<1> QED BY <1>2, <1>4, <1>5, <1>6 DEF WebInv, Ended, NeverGoesBack

LEMMA FailKeepsInv == ASSUME WebInv, NEW r \in Requests, Fail(r) PROVE WebInv'
<1>1. WebTypeOK /\ QueueInv
  BY DEF WebInv
<1>2. /\ stage[r] = "sent" /\ stage' = [stage EXCEPT ![r] = "failed"]
      /\ UNCHANGED <<asked, mainQ, shown, before>>
  BY DEF Fail
<1>3. mainQ' \in Seq(Requests) /\ shown' \in {0} \cup Requests
  BY <1>1, <1>2, WebTypes
<1>4. /\ WebTypeOK' /\ Requests' = Requests /\ stage'[r] = "failed"
      /\ \A p \in Requests : p # r => stage'[p] = stage[p]
  BY <1>1, <1>2, <1>3, MovesType
<1>5. QueueInv'
  BY <1>1, <1>2, <1>4, WebTypes DEF QueueInv
<1>6. In("shown")' = In("shown") /\ In("failed") \subseteq In("failed")'
  BY <1>2, <1>4 DEF In
<1> QED BY <1>2, <1>4, <1>5, <1>6 DEF WebInv, Ended, NeverGoesBack

(* The block that runs is of a request nobody has seen the end of. *)
LEMMA LabelsKeepInv == ASSUME WebInv, SetLabels PROVE WebInv'
<1> DEFINE r == Head(mainQ)
<1>1. WebTypeOK /\ QueueInv
  BY DEF WebInv
<1>2. /\ mainQ # <<>> /\ mainQ \in Seq(Requests)
      /\ shown' = r /\ stage' = [stage EXCEPT ![r] = "shown"]
      /\ mainQ' = Tail(mainQ) /\ UNCHANGED <<asked, before>>
  BY <1>1, WebTypes DEF SetLabels
<1>3. /\ Len(mainQ) \in Nat /\ Len(mainQ) > 0 /\ DOMAIN mainQ = 1..Len(mainQ)
      /\ r = mainQ[1] /\ r \in Requests /\ mainQ' \in Seq(Requests)
      /\ DOMAIN mainQ' = 1..(Len(mainQ) - 1)
      /\ \A i \in DOMAIN mainQ' : mainQ'[i] = mainQ[i + 1]
  BY <1>2
<1>4. stage[r] = "queued"
  BY <1>1, <1>3 DEF QueueInv
<1>5. /\ WebTypeOK' /\ Requests' = Requests /\ stage'[r] = "shown"
      /\ \A p \in Requests : p # r => stage'[p] = stage[p]
  BY <1>1, <1>2, <1>3, MovesType
<1>6. QueueInv'
  <2>1. \A i \in DOMAIN mainQ' : i + 1 \in DOMAIN mainQ /\ i + 1 # 1 /\ 1 \in DOMAIN mainQ
    BY <1>3
  <2>2. \A i \in DOMAIN mainQ' : mainQ'[i] # r /\ mainQ'[i] \in Requests
    BY <1>1, <1>3, <2>1, WebTypes DEF QueueInv
  <2>3. \A i \in DOMAIN mainQ' : stage'[mainQ'[i]] = "queued"
    BY <1>1, <1>3, <1>5, <2>1, <2>2 DEF QueueInv
  <2>4. \A i, j \in DOMAIN mainQ' : mainQ'[i] = mainQ'[j] => i = j
    <3> SUFFICES ASSUME NEW i \in DOMAIN mainQ', NEW j \in DOMAIN mainQ',
                        mainQ'[i] = mainQ'[j]
                 PROVE  i = j
      OBVIOUS
    <3>1. i + 1 = j + 1
      BY <1>1, <1>3, <2>1 DEF QueueInv
    <3> QED BY <1>3, <3>1
  <2> QED BY <2>3, <2>4 DEF QueueInv
<1>7. In("shown")' = In("shown") \cup {r} /\ In("failed")' = In("failed")
  BY <1>3, <1>4, <1>5 DEF In
<1>8. r \notin Ended
  BY <1>4 DEF Ended, In
<1>9. \A p \in Requests : before[p] \subseteq Ended
  BY DEF WebInv
<1>10. \A p \in In("shown")' : shown' \notin before'[p]
  BY <1>2, <1>5, <1>8, <1>9 DEF In
<1>11. r # 0
  BY <1>1, <1>3, WebTypes
<1>12. \A p \in Requests' : before'[p] \subseteq Ended'
  BY <1>2, <1>5, <1>7, <1>9 DEF Ended
<1> QED BY <1>2, <1>5, <1>6, <1>10, <1>11, <1>12 DEF WebInv, NeverGoesBack

(* Where the requests do not move, nothing changes. *)
LEMMA WebStays == ASSUME WebInv, UNCHANGED webVars PROVE WebInv'
BY DEF webVars, WebInv, WebTypeOK, QueueInv, NeverGoesBack, Ended, In, Requests

-----------------------------------------------------------------------------
LEMMA CoinInit == Init => CoinInv
BY WebInitInv DEF Init, CoinInv, WebInit

LEMMA CoinStep == CoinInv /\ [Next]_vars => CoinInv'
<1> SUFFICES ASSUME CoinInv, [Next]_vars PROVE CoinInv'
  OBVIOUS
<1>1. ASSUME NEW currency \in Question, DidSelectRow(currency) PROVE CoinInv'
  <2>1. WebInv'
    BY <1>1, SendKeepsInv DEF CoinInv, DidSelectRow
  <2>2. asked' = Append(asked, currency) /\ picked' = currency /\ asked \in Seq(Question)
    BY <1>1, WebTypes DEF DidSelectRow, Send, CoinInv, WebInv
  <2>3. asked'[Len(asked')] = currency
    BY <2>2
  <2> QED BY <2>1, <2>2, <2>3 DEF CoinInv
<1>2. CASE WebStep /\ UNCHANGED picked
  <2>1. WebInv' /\ asked' = asked
    BY <1>2, AnswerKeepsInv, FailKeepsInv, LabelsKeepInv
    DEF WebStep, CoinInv, Answer, Fail, SetLabels
  <2> QED BY <1>2, <2>1 DEF CoinInv
<1>3. CASE UNCHANGED vars
  BY <1>3, WebStays DEF vars, webVars, CoinInv
<1> QED BY <1>1, <1>2, <1>3 DEF Next

LEMMA CoinAlways == Spec => []CoinInv
BY CoinInit, CoinStep, PTL DEF Spec

(* With nothing under way the labels show the last request, unless it failed or
   overlapped an earlier one: everything else had ended before it was sent. *)
LEMMA NewestIsShown == WebInv => StaleOnlyAfterOverlap
<1> SUFFICES ASSUME WebInv, Quiet, asked # <<>>,
                    stage[Len(asked)] # "failed", ~Overlapped(Len(asked))
             PROVE  shown = Len(asked)
  BY DEF StaleOnlyAfterOverlap
<1>1. /\ WebTypeOK /\ NeverGoesBack /\ (In("shown") # {} => shown # 0)
      /\ Requests = 1..Len(asked) /\ Len(asked) \in Nat
  BY WebTypes DEF WebInv
<1>2. Len(asked) \in Requests
  BY <1>1, WebTypes
<1>3. Len(asked) \in In("shown")
  BY <1>2 DEF Quiet, Ended, In
<1>4. shown \in 1..Len(asked) /\ shown \notin 1..(Len(asked) - 1)
  BY <1>1, <1>3, WebTypes DEF NeverGoesBack, Overlapped
<1> QED BY <1>1, <1>4

(* Once the price of a request is shown, that of a request which had ended
   before it was sent never comes back, whatever the order of the answers. *)
THEOREM PricesNeverGoBack == Spec => []NeverGoesBack
<1>1. CoinInv => NeverGoesBack
  BY DEF CoinInv, WebInv
<1> QED BY <1>1, CoinAlways, PTL

(* The price shown at rest is in the currency the picker rests on, unless the
   last request failed or overlapped an earlier one (ViewController.swift:43-62). *)
THEOREM PriceFollowsPicker == Spec => []LabelFollowsPicker
<1>1. CoinInv => LabelFollowsPicker
  <2> SUFFICES ASSUME CoinInv, Quiet, asked # <<>>,
                      stage[Len(asked)] # "failed", ~Overlapped(Len(asked))
               PROVE  shown # 0 /\ asked[shown] = picked
    BY DEF LabelFollowsPicker
  <2>1. shown = Len(asked)
    BY NewestIsShown DEF CoinInv, StaleOnlyAfterOverlap
  <2>2. Len(asked) # 0
    BY WebTypes DEF CoinInv, WebInv
  <2> QED BY <2>1, <2>2 DEF CoinInv
<1> QED BY <1>1, CoinAlways, PTL

-----------------------------------------------------------------------------
(* Both applications send, answer and show alike. *)
LEMMA WebIsShared ==
    /\ Weather!WebInit <=> WebInit
    /\ (WebInv => Weather!WebTypeOK) /\ (WebInv' => Weather!WebTypeOK')
    /\ UNCHANGED Weather!webVars => UNCHANGED webVars
    /\ \A q : Weather!Send(q) <=> Send(q)
    /\ Weather!WebStep <=> WebStep
BY DEF Weather!WebInit, WebInit, Weather!WebTypeOK, WebTypeOK, Weather!webVars, webVars,
       Weather!Send, Send, Weather!WebStep, WebStep, Weather!Answer, Answer,
       Weather!Fail, Fail, Weather!SetLabels, SetLabels, Weather!Ended, Ended,
       Weather!In, In, Weather!Requests, Requests, WebInv

LEMMA ClimaInit ==
    ASSUME MaxPresses \in Nat, Weather!Init PROVE ClimaInv
<1>1. WebInv
  BY WebInitInv, WebIsShared DEF Weather!Init
<1>2. reports = <<>> /\ reports \in Seq({"place", "error"})
  BY DEF Weather!Init
<1>3. Weather!WebTypeOK
  BY <1>1, WebIsShared
<1>4. text \in City \cup Unparsable \cup {NoText} /\ unserved
  BY DEF Weather!Init
<1>5. {editing, hint, locating, unserved} \subseteq BOOLEAN
  BY DEF Weather!Init
<1>6. pressed \in 0..MaxPresses
  BY DEF Weather!Init
<1> QED BY <1>1, <1>2, <1>3, <1>4, <1>5, <1>6 DEF Weather!TypeOK, ClimaInv

(* A text that makes a URL is a question; every other step of the field leaves
   the requests alone. *)
LEMMA FieldKeepsInv ==
    ASSUME Question = City \cup {NoText, Here}, MaxPresses \in Nat,
           ClimaInv, Weather!UserStep
    PROVE  ClimaInv'
<1>1. Weather!TypeOK /\ WebInv
  BY DEF ClimaInv
<1>2. ASSUME NEW t \in City \cup Unparsable \cup {NoText}, Weather!Type(t) PROVE ClimaInv'
  <2>1. WebInv'
    BY <1>1, <1>2, WebStays, WebIsShared DEF Weather!Type
  <2>2. Weather!WebTypeOK'
    BY <2>1, WebIsShared
  <2> QED BY <1>1, <1>2, <2>1, <2>2 DEF Weather!Type, Weather!TypeOK, Weather!placeVars, ClimaInv
<1>3. CASE Weather!SearchPressed
  <2>1. WebInv'
    <3>1. CASE Weather!DidEndEditing /\ text \notin Unparsable
      <4>1. text \in Question /\ Send(text)
        BY <1>1, <3>1, WebIsShared DEF Weather!DidEndEditing, Weather!TypeOK
      <4> QED BY <1>1, <4>1, SendKeepsInv
    <3>2. CASE UNCHANGED Weather!webVars
      BY <1>1, <3>2, WebStays, WebIsShared
    <3> QED BY <1>3, <3>1, <3>2 DEF Weather!SearchPressed, Weather!DidEndEditing
  <2>2. Weather!WebTypeOK'
    BY <2>1, WebIsShared
  <2>3. /\ hint' = (hint \/ text = NoText) /\ UNCHANGED <<locating, reports, unserved, pressed>>
        /\ text' \in {text, NoText} /\ editing' \in {editing, FALSE}
    BY <1>3 DEF Weather!SearchPressed, Weather!DidEndEditing, Weather!placeVars
  <2> QED BY <1>1, <2>1, <2>2, <2>3 DEF Weather!TypeOK, ClimaInv
<1>4. CASE Weather!LocationButtonPressed
  <2>1. WebInv'
    BY <1>1, <1>4, WebStays, WebIsShared DEF Weather!LocationButtonPressed
  <2>2. Weather!WebTypeOK'
    BY <2>1, WebIsShared
  <2>3. pressed' \in 0..MaxPresses
    BY <1>1, <1>4 DEF Weather!LocationButtonPressed, Weather!TypeOK
  <2> QED BY <1>1, <1>4, <2>1, <2>2, <2>3
      DEF Weather!LocationButtonPressed, Weather!TypeOK, Weather!fieldVars, ClimaInv
<1> QED BY <1>2, <1>3, <1>4 DEF Weather!UserStep

(* Core Location reports, and a place is a question. *)
LEMMA PlaceKeepsInv ==
    ASSUME Question = City \cup {NoText, Here}, MaxPresses \in Nat,
           ClimaInv, Weather!Locates \/ Weather!Delegate
    PROVE  ClimaInv'
<1>1. Weather!TypeOK /\ WebInv /\ reports \in Seq({"place", "error"})
  BY DEF ClimaInv, Weather!TypeOK
<1>2. ASSUME NEW report \in {"place", "error"}, Weather!Reports(report) PROVE ClimaInv'
  <2>1. WebInv'
    BY <1>1, <1>2, WebStays, WebIsShared DEF Weather!Reports
  <2>2. Weather!WebTypeOK'
    BY <2>1, WebIsShared
  <2>3. reports' \in Seq({"place", "error"})
    BY <1>1, <1>2 DEF Weather!Reports
  <2> QED BY <1>1, <1>2, <2>1, <2>2, <2>3
      DEF Weather!Reports, Weather!TypeOK, Weather!fieldVars, ClimaInv
<1>3. CASE Weather!DidUpdateLocations
  <2>1. WebInv'
    BY <1>1, <1>3, SendKeepsInv, WebIsShared DEF Weather!DidUpdateLocations
  <2>2. Weather!WebTypeOK'
    BY <2>1, WebIsShared
  <2>3. reports' \in Seq({"place", "error"})
    BY <1>1, <1>3 DEF Weather!DidUpdateLocations
  <2> QED BY <1>1, <1>3, <2>1, <2>2, <2>3
      DEF Weather!DidUpdateLocations, Weather!TypeOK, Weather!fieldVars, ClimaInv
<1>4. CASE Weather!DidFailWithError
  <2>1. WebInv'
    BY <1>1, <1>4, WebStays, WebIsShared DEF Weather!DidFailWithError
  <2>2. Weather!WebTypeOK'
    BY <2>1, WebIsShared
  <2>3. reports' \in Seq({"place", "error"})
    BY <1>1, <1>4 DEF Weather!DidFailWithError
  <2> QED BY <1>1, <1>4, <2>1, <2>2, <2>3
      DEF Weather!DidFailWithError, Weather!TypeOK, Weather!fieldVars, ClimaInv
<1> QED BY <1>2, <1>3, <1>4 DEF Weather!Locates, Weather!Delegate

LEMMA ClimaStep ==
    ASSUME Question = City \cup {NoText, Here}, MaxPresses \in Nat,
           ClimaInv, [Weather!Next]_Weather!vars
    PROVE  ClimaInv'
<1>1. CASE Weather!UserStep
  BY <1>1, FieldKeepsInv
<1>2. CASE Weather!Locates \/ Weather!Delegate
  BY <1>2, PlaceKeepsInv
<1>3. CASE (WebStep \/ UNCHANGED webVars) /\ UNCHANGED <<Weather!fieldVars, Weather!placeVars>>
  <2>1. WebInv'
    BY <1>3, AnswerKeepsInv, FailKeepsInv, LabelsKeepInv, WebStays DEF WebStep, ClimaInv
  <2>2. Weather!WebTypeOK'
    BY <2>1, WebIsShared
  <2> QED BY <1>3, <2>1, <2>2 DEF ClimaInv, Weather!TypeOK, Weather!fieldVars, Weather!placeVars
<1>4. [Weather!Next]_Weather!vars =>
        \/ Weather!UserStep \/ Weather!Locates \/ Weather!Delegate
        \/ (WebStep \/ UNCHANGED webVars) /\ UNCHANGED <<Weather!fieldVars, Weather!placeVars>>
  BY WebIsShared DEF Weather!Next, Weather!Web, Weather!vars
<1> QED BY <1>1, <1>2, <1>3, <1>4

(* Whatever is typed, searched for and located, the labels at rest show the
   newest request, unless it failed or overlapped another one
   (WeatherViewController.swift:66-72). *)
THEOREM WeatherIsNewest ==
    ASSUME Question = City \cup {NoText, Here}, MaxPresses \in Nat
    PROVE  Weather!Spec => []StaleOnlyAfterOverlap
<1>1. Weather!Init => ClimaInv
  BY ClimaInit
<1>2. ClimaInv /\ [Weather!Next]_Weather!vars => ClimaInv'
  BY ClimaStep
<1>3. ClimaInv => StaleOnlyAfterOverlap
  BY NewestIsShown DEF ClimaInv
<1> QED BY <1>1, <1>2, <1>3, PTL DEF Weather!Spec
=============================================================================
