--------------------------- MODULE FlowerIdentifier ---------------------------
(***************************************************************************)
(* Flower Identifier's ViewController.  For every photo taken the main     *)
(* thread asks Wikipedia for a text and sleeps five seconds, asks for the  *)
(* address of a picture and sleeps again, then lets SDWebImage load the    *)
(* picture.  An answer is written into a local variable by a URLSession    *)
(* thread while the main thread sleeps, reads it, or has read it already.  *)
(* Flowers are numbered in the order their photos are taken.               *)
(***************************************************************************)
EXTENDS Naturals, Sequences, FiniteSets

CONSTANT MaxFlowers     \* bound on the photos taken

ASSUME FlowerAssumption == MaxFlowers \in Nat

VARIABLES
    photo,      \* pickedImage, by flower; 0 before the first
    pc,         \* the main thread: "idle", or asleep for "text" or "picture"
    finalResult,    \* the local variable awaited: "nil", "writing" or "set"
    task,       \* the data task awaited: "running" or "over"
    titleText,  \* the flower whose title and text are shown
    picture,    \* the flower imageView shows; 0 is nil
    loads,      \* SDWebImage loads under way: flower and whether cancelled
    mainQ,      \* their completions on the main queue
    cached,     \* some picture was loaded and is kept in memory
    crashed,    \* the read of finalResult met a write and stopped the program
    textLate, pictureLate,  \* history: flowers whose wait ended with nil
    asked,      \* history: the flower of the last load
    unloaded,   \* history: flowers whose load gave no picture
    overtaken   \* history: flowers whose picture was set at once, before an
                \* older one that was already queued

awaits == <<pc, finalResult, task>>
history == <<textLate, pictureLate, asked, unloaded, overtaken>>
vars == <<photo, awaits, titleText, picture, loads, mainQ, cached, crashed, history>>

Flower == 1..MaxFlowers
Block == [flower : Flower, image : BOOLEAN]

TypeOK ==
    /\ {photo, titleText, picture, asked} \subseteq {0} \cup Flower
    /\ pc \in {"idle", "text", "picture"}
    /\ finalResult \in {"nil", "writing", "set"}
    /\ task \in {"running", "over"}
    /\ loads \subseteq [flower : Flower, cancelled : BOOLEAN]
    /\ mainQ \in Seq(Block)
    /\ {cached, crashed} \subseteq BOOLEAN
    /\ textLate \cup pictureLate \cup unloaded \cup overtaken \subseteq Flower

Init ==
    /\ photo = 0
    /\ pc = "idle" /\ finalResult = "nil" /\ task = "over"
    /\ titleText = 0 /\ picture = 0
    /\ loads = {} /\ mainQ = <<>> /\ cached = FALSE /\ crashed = FALSE
    /\ textLate = {} /\ pictureLate = {} /\ asked = 0
    /\ unloaded = {} /\ overtaken = {}

-----------------------------------------------------------------------------
(* fetchResult and fetchImage: a fresh local variable, a task, sleep(5).  A name
   that makes no URL gives nil at once: then the task is over before it began. *)
StartsWaiting(for) ==
    /\ pc' = for /\ finalResult' = "nil"
    /\ task' \in {"running", "over"}

(* imagePickerController(_:didFinishPickingMediaWithInfo:), detect. *)
TakePhoto ==
    /\ pc = "idle" /\ photo < MaxFlowers
    /\ photo' = photo + 1
    /\ StartsWaiting("text")
    /\ UNCHANGED <<titleText, picture, loads, mainQ, cached, crashed, history>>

(* The completion handler of the task, on its own thread: it decodes and writes,
   or prints an error.  What it does after the wait concerns nobody. *)
BeginWrite ==
    /\ task = "running" /\ finalResult = "nil"
    /\ finalResult' = "writing"
    /\ UNCHANGED <<photo, pc, task, titleText, picture, loads, mainQ, cached, crashed, history>>

EndWrite ==
    /\ finalResult = "writing"
    /\ finalResult' = "set" /\ task' = "over"
    /\ UNCHANGED <<photo, pc, titleText, picture, loads, mainQ, cached, crashed, history>>

PrintError ==
    /\ task = "running" /\ finalResult = "nil"
    /\ task' = "over"
    /\ UNCHANGED <<photo, pc, finalResult, titleText, picture, loads, mainQ,
                   cached, crashed, history>>

(* What the waiting thread may read.  The accesses are not synchronised: a read
   that meets the write sees nil, the value, or neither and crashes. *)
Read(value) == CASE finalResult = "nil"     -> value = "nil"
                 [] finalResult = "set"     -> value = "result"
                 [] finalResult = "writing" -> value \in {"nil", "result", "torn"}

Tears == /\ pc # "idle" /\ Read("torn")
         /\ crashed' = TRUE
         /\ UNCHANGED <<photo, awaits, titleText, picture, loads, mainQ, cached,
                         history>>

(* The first wait is over: show the text if there is one, wait for the picture. *)
TextWaitEnds ==
    /\ pc = "text"
    /\ \/ Read("result") /\ titleText' = photo /\ textLate' = textLate
       \/ Read("nil") /\ titleText' = titleText /\ textLate' = textLate \cup {photo}
    /\ StartsWaiting("picture")
    /\ UNCHANGED <<photo, picture, loads, mainQ, cached, crashed, pictureLate, asked,
                   unloaded, overtaken>>

(* sd_setImage: cancel the load under way, clear the view, start a load.  What
   the last load has already posted to the main queue stays there. *)
Load(others) ==
    /\ loads' = others \cup {[flower |-> photo, cancelled |-> FALSE]}
    /\ picture' = 0
    /\ UNCHANGED <<unloaded, overtaken>>

(* The same when there is nothing to wait for: the picture is in memory, or its
   address is none or failed before and the photo takes its place. *)
SetAtOnce(others) ==
    /\ loads' = others
    /\ picture' = photo
    /\ \/ cached /\ unloaded' = unloaded
       \/ unloaded' = unloaded \cup {photo}
    /\ overtaken' = IF mainQ = <<>> THEN overtaken ELSE overtaken \cup {photo}

(* A mistake: the load under way is not cancelled. *)
SetImageUncancelled ==
    /\ asked' = photo
    /\ Load(loads) \/ SetAtOnce(loads)

SetImage ==
    LET others == {[l EXCEPT !.cancelled = TRUE] : l \in loads} IN
    /\ asked' = photo
    /\ Load(others) \/ SetAtOnce(others)

(* The second wait is over: load the picture if it has an address. *)
PictureWaitEnds ==
    /\ pc = "picture"
    /\ pc' = "idle" /\ finalResult' = "nil" /\ task' = "over"
    /\ \/ /\ Read("result")
          /\ SetImage
          /\ UNCHANGED pictureLate
       \/ /\ Read("nil")
          /\ pictureLate' = pictureLate \cup {photo}
          /\ UNCHANGED <<loads, picture, asked, unloaded, overtaken>>
    /\ UNCHANGED <<photo, titleText, mainQ, cached, crashed, textLate>>

(* A load ends in the background; a cancelled one without an image. *)
LoadEnds(l) ==
    /\ loads' = loads \ {l}
    /\ \E image \in IF l.cancelled THEN {FALSE} ELSE BOOLEAN :
         /\ mainQ' = Append(mainQ, [flower |-> l.flower, image |-> image])
         /\ cached' = (cached \/ image)
    /\ UNCHANGED <<photo, awaits, titleText, picture, crashed, history>>

(* A mistake: the photo is not put in the place of a picture that failed. *)
RunCompletionOnly ==
    /\ pc = "idle" /\ mainQ # <<>>
    /\ LET b == Head(mainQ) IN
         /\ picture' = IF b.image THEN b.flower ELSE picture
         /\ unloaded' = IF b.image THEN unloaded ELSE unloaded \cup {b.flower}
    /\ mainQ' = Tail(mainQ)
    /\ UNCHANGED <<photo, awaits, titleText, loads, cached, crashed, textLate,
                   pictureLate, asked, overtaken>>

(* The block SDWebImage posted sets the image, then the completion of detect
   fills an empty view with the photo taken last. *)
RunCompletion ==
    /\ pc = "idle" /\ mainQ # <<>>
    /\ LET b == Head(mainQ) IN
         /\ picture' = IF b.image THEN b.flower
                       ELSE IF picture = 0 THEN photo ELSE picture
         /\ unloaded' = IF b.image THEN unloaded ELSE unloaded \cup {b.flower}
    /\ mainQ' = Tail(mainQ)
    /\ UNCHANGED <<photo, awaits, titleText, loads, cached, crashed, textLate,
                   pictureLate, asked, overtaken>>

Ends == \E l \in loads : LoadEnds(l)
Wakes == TextWaitEnds \/ PictureWaitEnds

Next == /\ ~crashed
        /\ \/ TakePhoto \/ BeginWrite \/ EndWrite \/ PrintError
           \/ Tears \/ Wakes \/ Ends \/ RunCompletion

Spec == Init /\ [][Next]_vars

(* Sleeps end, loads end by time-out if need be, the main queue is served.
   Nothing is asked of the data tasks or of the user. *)
Fairness == /\ WF_vars(~crashed /\ Wakes)
            /\ WF_vars(~crashed /\ Ends)
            /\ WF_vars(~crashed /\ RunCompletion)

FairSpec == Spec /\ Fairness

-----------------------------------------------------------------------------
Settled == pc = "idle" /\ loads = {} /\ mainQ = <<>> /\ photo # 0

(* At rest, text and picture are of the same flower, the last one, unless one
   of its two answers came too late or not at all, its picture could not be
   loaded, or it came from memory while an older picture was already queued
   (ViewController.swift:60-72).  An older load never wins otherwise. *)
MismatchHasCause ==
    Settled /\ ~(titleText = photo /\ picture = photo) =>
        photo \in textLate \cup pictureLate \cup unloaded \cup overtaken

(* Once a picture was asked for, the view does not stay empty: a load that
   failed or was cancelled leaves a photo (ViewController.swift:68-70). *)
NeverLeftBlank == asked # 0 /\ picture = 0 ~> picture # 0 \/ crashed
=============================================================================
