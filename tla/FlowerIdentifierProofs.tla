------------------------ MODULE FlowerIdentifierProofs ------------------------
(***************************************************************************)
(* Which picture the screen comes to rest on, for any number of photos.    *)
(***************************************************************************)
EXTENDS FlowerIdentifier, TLAPS

Live(a) == [flower |-> a, cancelled |-> FALSE]

(* From place n on the queue no block shows the picture of another flower. *)
NoOtherPicture(Q, n) ==
    \A i \in DOMAIN Q : i >= n /\ Q[i].image => Q[i].flower = asked

(* The picture asked for last is still on its way, or known to have failed, or
   on its way in the queue behind every older picture, or shown for good. *)
LastAsked ==
    \/ asked \in unloaded \cup overtaken
    \/ Live(asked) \in loads
    \/ \E i \in DOMAIN mainQ :
         mainQ[i].flower = asked /\ (~mainQ[i].image \/ NoOtherPicture(mainQ, i))
    \/ picture = asked /\ NoOtherPicture(mainQ, 1)

(* The inductive invariant: a load that can still give a picture is the last. *)
FlowerInv ==
    /\ TypeOK
    /\ \A l \in loads : ~l.cancelled => l.flower = asked
    /\ asked # 0 => LastAsked
    /\ photo = 0 => pc = "idle"
    /\ photo # 0 /\ pc # "text" => titleText = photo \/ photo \in textLate
    /\ photo # 0 /\ pc = "idle" => asked = photo \/ photo \in pictureLate

-----------------------------------------------------------------------------
LEMMA FlowerInit == Init => FlowerInv
<1> SUFFICES ASSUME Init PROVE FlowerInv
  OBVIOUS
<1>1. mainQ = <<>> /\ mainQ \in Seq(Block)
  BY DEF Init
<1>2. TypeOK
  BY <1>1 DEF Init, TypeOK
<1> QED BY <1>2 DEF Init, FlowerInv

(* The picture asked for last stays on its way while nothing touches it. *)
LEMMA PictureWaits ==
    ASSUME asked # 0 => LastAsked,
           UNCHANGED <<asked, loads, mainQ, picture, unloaded, overtaken>>
    PROVE  asked' # 0 => LastAsked'
BY DEF LastAsked, NoOtherPicture

(* Taking a photo and the steps of its data task. *)
LEMMA TaskKeepsInv ==
    ASSUME FlowerInv, TakePhoto \/ BeginWrite \/ EndWrite \/ PrintError \/ Tears
    PROVE  FlowerInv'
<1>1. UNCHANGED <<asked, loads, mainQ, picture, unloaded, overtaken>>
  BY DEF TakePhoto, BeginWrite, EndWrite, PrintError, Tears, awaits, history
<1>2. asked' # 0 => LastAsked'
  BY <1>1, PictureWaits DEF FlowerInv
<1>3. CASE TakePhoto
  <2>1. photo' \in Flower /\ photo' # 0
    BY <1>3, FlowerAssumption DEF TakePhoto, FlowerInv, TypeOK, Flower
  <2>2. TypeOK'
    BY <1>3, <2>1 DEF TakePhoto, StartsWaiting, FlowerInv, TypeOK, history
  <2> QED
    BY <1>1, <1>2, <1>3, <2>1, <2>2 DEF TakePhoto, StartsWaiting, FlowerInv
<1>4. CASE BeginWrite \/ EndWrite \/ PrintError \/ Tears
  <2>1. UNCHANGED <<photo, pc, titleText, textLate, pictureLate>>
    BY <1>4 DEF BeginWrite, EndWrite, PrintError, Tears, awaits, history
  <2>2. TypeOK'
    BY <1>1, <1>4, <2>1 DEF BeginWrite, EndWrite, PrintError, Tears, FlowerInv, TypeOK, awaits, history
  <2> QED
    BY <1>1, <1>2, <2>1, <2>2 DEF FlowerInv
<1> QED BY <1>3, <1>4

(* The first wait: its flower has its text, or is too late. *)
LEMMA TextKeepsInv == ASSUME FlowerInv, TextWaitEnds PROVE FlowerInv'
<1>1. /\ UNCHANGED <<photo, picture, loads, mainQ, cached, crashed, pictureLate, asked,
                     unloaded, overtaken>>
      /\ pc' = "picture" /\ finalResult' = "nil" /\ task' \in {"running", "over"}
      /\ \/ titleText' = photo /\ textLate' = textLate
         \/ titleText' = titleText /\ textLate' = textLate \cup {photo}
  BY DEF TextWaitEnds, StartsWaiting
<1>2. photo \in Flower
  BY DEF TextWaitEnds, FlowerInv, TypeOK
<1>3. TypeOK'
  BY <1>1, <1>2 DEF FlowerInv, TypeOK
<1>4. asked' # 0 => LastAsked'
  BY <1>1, PictureWaits DEF FlowerInv
<1>5. photo # 0
  BY DEF TextWaitEnds, FlowerInv
<1>6. /\ \A l \in loads' : ~l.cancelled => l.flower = asked'
      /\ titleText' = photo' \/ photo' \in textLate'
  BY <1>1 DEF FlowerInv
<1> QED BY <1>1, <1>3, <1>4, <1>5, <1>6 DEF FlowerInv

(* Asking for a picture cancels every load before it. *)
LEMMA SetImageAsks ==
    ASSUME TypeOK, photo \in Flower, SetImage, mainQ' = mainQ
    PROVE  /\ asked' = photo /\ picture' \in {0} \cup Flower
           /\ loads' \subseteq [flower : Flower, cancelled : BOOLEAN]
           /\ unloaded' \subseteq Flower /\ overtaken' \subseteq Flower
           /\ \A l \in loads' : ~l.cancelled => l.flower = asked'
           /\ LastAsked'
<1> DEFINE others == {[l EXCEPT !.cancelled = TRUE] : l \in loads}
<1>1. asked' = photo /\ (Load(others) \/ SetAtOnce(others))
  BY DEF SetImage
<1>2. others \subseteq [flower : Flower, cancelled : BOOLEAN] /\ \A l \in others : l.cancelled
  BY DEF TypeOK
<1>3. unloaded \subseteq Flower /\ overtaken \subseteq Flower
  BY DEF TypeOK
<1> HIDE DEF others
<1>4. CASE Load(others)
  <2>1. loads' = others \cup {Live(photo)} /\ picture' = 0 /\ UNCHANGED <<unloaded, overtaken>>
    BY <1>4 DEF Load, Live
  <2>2. Live(photo) \in [flower : Flower, cancelled : BOOLEAN] /\ Live(photo).flower = photo
    BY DEF Live
  <2>3. LastAsked'
    BY <1>1, <2>1 DEF LastAsked, Live
  <2> QED BY <1>1, <1>2, <1>3, <2>1, <2>2, <2>3
<1>5. CASE SetAtOnce(others)
  <2>1. /\ loads' = others /\ picture' = photo
        /\ unloaded' = unloaded \/ unloaded' = unloaded \cup {photo}
        /\ overtaken' = IF mainQ = <<>> THEN overtaken ELSE overtaken \cup {photo}
    BY <1>5 DEF SetAtOnce
  <2>2. LastAsked'
    <3>1. CASE mainQ = <<>>
      BY <1>1, <2>1, <3>1 DEF LastAsked, NoOtherPicture
    <3>2. CASE mainQ # <<>>
      BY <1>1, <2>1, <3>2 DEF LastAsked
    <3> QED BY <3>1, <3>2
  <2> QED BY <1>1, <1>2, <1>3, <2>1, <2>2
<1> QED BY <1>1, <1>4, <1>5

LEMMA PictureKeepsInv == ASSUME FlowerInv, PictureWaitEnds PROVE FlowerInv'
<1>1. /\ pc = "picture" /\ pc' = "idle" /\ finalResult' = "nil" /\ task' = "over"
      /\ UNCHANGED <<photo, titleText, mainQ, cached, crashed, textLate>>
      /\ \/ SetImage /\ UNCHANGED pictureLate
         \/ /\ pictureLate' = pictureLate \cup {photo}
            /\ UNCHANGED <<loads, picture, asked, unloaded, overtaken>>
  BY DEF PictureWaitEnds
<1>2. TypeOK /\ photo \in Flower
  BY <1>1 DEF FlowerInv, TypeOK
<1>3. CASE SetImage /\ UNCHANGED pictureLate
  <2>1. TypeOK'
    BY <1>1, <1>2, <1>3, SetImageAsks DEF TypeOK
  <2> QED BY <1>1, <1>2, <1>3, <2>1, SetImageAsks DEF FlowerInv
<1>4. CASE /\ pictureLate' = pictureLate \cup {photo}
           /\ UNCHANGED <<loads, picture, asked, unloaded, overtaken>>
  <2>1. TypeOK'
    BY <1>1, <1>2, <1>4 DEF TypeOK
  <2>2. asked' # 0 => LastAsked'
    BY <1>1, <1>4, PictureWaits DEF FlowerInv
  <2> QED BY <1>1, <1>2, <1>4, <2>1, <2>2 DEF FlowerInv
<1> QED BY <1>1, <1>3, <1>4

(* A load that ends posts its block behind the others: with a picture only when
   it is the load asked for last. *)
LEMMA LoadKeepsInv == ASSUME FlowerInv, NEW l \in loads, LoadEnds(l) PROVE FlowerInv'
<1>1. PICK image \in BOOLEAN :
        /\ image => ~l.cancelled
        /\ mainQ' = Append(mainQ, [flower |-> l.flower, image |-> image])
        /\ cached' = (cached \/ image)
  BY DEF LoadEnds
<1> DEFINE b == [flower |-> l.flower, image |-> image]
           n == Len(mainQ) + 1
<1>2. /\ loads' = loads \ {l}
      /\ UNCHANGED <<photo, awaits, titleText, picture, crashed, history>>
  BY DEF LoadEnds
<1>3. /\ mainQ \in Seq(Block) /\ b \in Block /\ l.flower \in Flower
      /\ l = [flower |-> l.flower, cancelled |-> l.cancelled] /\ l.cancelled \in BOOLEAN
  BY DEF FlowerInv, TypeOK, Block
<1>4. /\ DOMAIN mainQ = 1..Len(mainQ) /\ Len(mainQ) \in Nat
      /\ mainQ' \in Seq(Block) /\ DOMAIN mainQ' = 1..n /\ mainQ'[n] = b
      /\ \A i \in DOMAIN mainQ : mainQ'[i] = mainQ[i]
  <2> HIDE DEF b
  <2> QED BY <1>1, <1>3 DEF b
<1>5. TypeOK'
  <2>1. cached' \in BOOLEAN /\ loads' \subseteq loads
    BY <1>1, <1>2 DEF FlowerInv, TypeOK
  <2> QED BY <1>2, <1>4, <2>1 DEF FlowerInv, TypeOK, awaits, history
<1>6. b.flower = l.flower /\ b.image = image /\ (b.image => l.flower = asked)
  BY <1>1 DEF FlowerInv
<1>7. asked' = asked /\ picture' = picture /\ UNCHANGED <<unloaded, overtaken>>
  BY <1>2 DEF history
<1> HIDE DEF b
<1>8. \A m \in Nat : NoOtherPicture(mainQ, m) => NoOtherPicture(mainQ, m)'
  <2>1. \A i \in DOMAIN mainQ' : i \in DOMAIN mainQ \/ i = n
    BY <1>4
  <2> QED BY <1>4, <1>6, <1>7, <2>1 DEF NoOtherPicture
<1>9. ASSUME asked # 0 PROVE LastAsked'
  <2>1. CASE asked \in unloaded \cup overtaken
    BY <1>7, <2>1 DEF LastAsked
  <2>2. CASE Live(asked) \in loads /\ l # Live(asked)
    BY <1>2, <1>7, <2>2 DEF LastAsked, Live
  <2>3. CASE l = Live(asked)
    <3>1. n \in DOMAIN mainQ' /\ mainQ'[n].flower = asked
      BY <1>4, <1>6, <2>3 DEF Live
    <3>2. \A i \in DOMAIN mainQ' : i >= n => i = n
      BY <1>4
    <3>3. \A i \in DOMAIN mainQ' : i >= n /\ mainQ'[i].image => mainQ'[i].flower = asked'
      BY <1>7, <3>1, <3>2
    <3> QED BY <1>7, <3>1, <3>3 DEF LastAsked, NoOtherPicture
  <2>4. ASSUME NEW i \in DOMAIN mainQ, mainQ[i].flower = asked,
               ~mainQ[i].image \/ NoOtherPicture(mainQ, i)
        PROVE  LastAsked'
    <3>1. i \in DOMAIN mainQ' /\ mainQ'[i] = mainQ[i] /\ i \in Nat
      BY <1>4
    <3> QED BY <1>7, <1>8, <2>4, <3>1 DEF LastAsked
  <2>5. CASE picture = asked /\ NoOtherPicture(mainQ, 1)
    BY <1>7, <1>8, <2>5 DEF LastAsked
  <2> QED BY <1>9, <2>1, <2>2, <2>3, <2>4, <2>5 DEF FlowerInv, LastAsked
<1> QED BY <1>2, <1>5, <1>7, <1>9 DEF FlowerInv, awaits, history

(* The block that runs leaves the last picture on its way or shown. *)
LEMMA CompletionKeepsInv == ASSUME FlowerInv, RunCompletion PROVE FlowerInv'
<1> DEFINE b == Head(mainQ)
<1>1. /\ mainQ # <<>> /\ mainQ' = Tail(mainQ) /\ pc = "idle"
      /\ picture' = IF b.image THEN b.flower ELSE IF picture = 0 THEN photo ELSE picture
      /\ unloaded' = IF b.image THEN unloaded ELSE unloaded \cup {b.flower}
      /\ UNCHANGED <<photo, awaits, titleText, loads, cached, crashed, textLate,
                     pictureLate, asked, overtaken>>
  BY DEF RunCompletion
<1>2. mainQ \in Seq(Block) /\ 1 \in DOMAIN mainQ /\ b = mainQ[1] /\ b \in Block
  BY <1>1 DEF FlowerInv, TypeOK
<1>3. /\ DOMAIN mainQ = 1..Len(mainQ) /\ Len(mainQ) \in Nat
      /\ mainQ' \in Seq(Block) /\ DOMAIN mainQ' = 1..(Len(mainQ) - 1)
      /\ \A i \in DOMAIN mainQ' : mainQ'[i] = mainQ[i + 1]
  BY <1>1, <1>2
<1>4. b.flower \in Flower /\ b.image \in BOOLEAN
  BY <1>2 DEF Block
<1> HIDE DEF b
<1>5. TypeOK'
  <2>1. unloaded' \subseteq Flower /\ picture' \in {0} \cup Flower
    BY <1>1, <1>4 DEF FlowerInv, TypeOK
  <2> QED BY <1>1, <1>3, <2>1 DEF FlowerInv, TypeOK, awaits
<1>6. ASSUME NEW m \in Nat, NoOtherPicture(mainQ, m + 1) PROVE NoOtherPicture(mainQ, m)'
  <2>1. \A i \in DOMAIN mainQ' : i + 1 \in DOMAIN mainQ /\ i \in Nat
    BY <1>3
  <2>2. \A i \in DOMAIN mainQ' : i >= m => i + 1 >= m + 1
    BY <2>1
  <2> QED BY <1>1, <1>3, <1>6, <2>1, <2>2 DEF NoOtherPicture
<1>7. NoOtherPicture(mainQ, 1) => NoOtherPicture(mainQ, 1 + 1)
  BY <1>3 DEF NoOtherPicture
<1>8. unloaded \subseteq unloaded'
  BY <1>1
<1>9. ASSUME asked # 0 PROVE LastAsked'
  <2>1. CASE asked \in unloaded \cup overtaken
    BY <1>1, <1>8, <2>1 DEF LastAsked
  <2>2. CASE Live(asked) \in loads
    BY <1>1, <2>2 DEF LastAsked, Live
  <2>3. ASSUME NEW i \in DOMAIN mainQ, mainQ[i].flower = asked,
               ~mainQ[i].image \/ NoOtherPicture(mainQ, i)
        PROVE  LastAsked'
    <3>1. CASE i = 1 /\ b.image
      <4>1. picture' = asked /\ NoOtherPicture(mainQ, 1)
        BY <1>1, <1>2, <2>3, <3>1
      <4>2. NoOtherPicture(mainQ, 1)'
        BY <1>6, <1>7, <4>1
      <4> QED BY <1>1, <4>1, <4>2 DEF LastAsked
    <3>2. CASE i = 1 /\ ~b.image
      BY <1>1, <1>2, <2>3, <3>2 DEF LastAsked
    <3>3. CASE i # 1
      <4>1. i - 1 \in DOMAIN mainQ' /\ i - 1 \in Nat /\ (i - 1) + 1 = i
        BY <1>3, <3>3
      <4>2. mainQ'[i - 1] = mainQ[i]
        BY <1>3, <4>1
      <4>3. NoOtherPicture(mainQ, i) => NoOtherPicture(mainQ, i - 1)'
        BY <1>6, <4>1
      <4> QED BY <1>1, <2>3, <4>1, <4>2, <4>3 DEF LastAsked
    <3> QED BY <3>1, <3>2, <3>3
  <2>4. CASE picture = asked /\ NoOtherPicture(mainQ, 1)
    <3>1. NoOtherPicture(mainQ, 1)'
      BY <1>6, <1>7, <2>4
    <3>2. picture' = asked
      BY <1>1, <1>2, <1>9, <2>4 DEF NoOtherPicture
    <3> QED BY <1>1, <3>1, <3>2 DEF LastAsked
  <2> QED BY <1>9, <2>1, <2>2, <2>3, <2>4 DEF FlowerInv, LastAsked
<1> QED BY <1>1, <1>5, <1>9 DEF FlowerInv, awaits

LEMMA FlowerStep == FlowerInv /\ [Next]_vars => FlowerInv'
<1> SUFFICES ASSUME FlowerInv, [Next]_vars PROVE FlowerInv'
  OBVIOUS
<1>1. CASE Next
  BY <1>1, TaskKeepsInv, TextKeepsInv, PictureKeepsInv, LoadKeepsInv, CompletionKeepsInv
  DEF Next, Wakes, Ends
<1>2. CASE UNCHANGED vars
  <2>1. UNCHANGED <<asked, loads, mainQ, picture, unloaded, overtaken>>
    BY <1>2 DEF vars, history
  <2>2. asked' # 0 => LastAsked'
    BY <2>1, PictureWaits DEF FlowerInv
  <2> QED BY <1>2, <2>2 DEF vars, awaits, history, FlowerInv, TypeOK
<1> QED BY <1>1, <1>2

LEMMA FlowerInvariant == Spec => []FlowerInv
BY FlowerInit, FlowerStep, PTL DEF Spec

(* Every variable keeps its type: however its task, its loads and the main
   queue interleave, a photo's answers are of a photo that was taken. *)
THEOREM FlowerTypeCorrect == Spec => []TypeOK
<1>1. FlowerInv => TypeOK
  BY DEF FlowerInv
<1> QED BY <1>1, FlowerInvariant, PTL

(* At rest text and picture are of the last flower unless one of its answers
   was late or missing, its picture could not be loaded, or it came from memory
   past a queued block (ViewController.swift:60-72). *)
THEOREM MismatchIsExplained == Spec => []MismatchHasCause
<1>1. FlowerInv => MismatchHasCause
  <2> SUFFICES ASSUME FlowerInv, Settled,
                      photo \notin textLate \cup pictureLate \cup unloaded \cup overtaken
               PROVE  titleText = photo /\ picture = photo
    BY DEF MismatchHasCause
  <2>1. /\ pc = "idle" /\ loads = {} /\ mainQ = <<>> /\ photo # 0
        /\ titleText = photo /\ asked = photo /\ LastAsked
    BY DEF Settled, FlowerInv
  <2> QED BY <2>1 DEF LastAsked
<1> QED BY <1>1, FlowerInvariant, PTL
=============================================================================
