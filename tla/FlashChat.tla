------------------------------ MODULE FlashChat ------------------------------
(***************************************************************************)
(* Flash Chat's ChatViewController, from viewDidLoad on, over the          *)
(* Firestore client.  The main thread runs one block of mainQ at a time;   *)
(* the user's taps, the table's layout, the worker queue and the network   *)
(* come between the blocks.                                                *)
(*                                                                         *)
(* One screen is modelled.  Its listener is never removed, so the screen   *)
(* keeps receiving events after logOutPressed has popped it (onScreen =    *)
(* FALSE), also while somebody else is signed in.                          *)
(***************************************************************************)
EXTENDS FirestoreClient

CONSTANTS WellFormed,    \* documents whose sender and body are Strings
          Placeholder,   \* the two messages the screen starts with
          MaxSignIns,    \* bound on sign-ins after the screen was popped
          MaxRelaunches  \* bound on how often the app is killed and reopened

ASSUME ChatAssumption == /\ WellFormed \subseteq Doc
                         /\ IsFiniteSet(Placeholder)
                         /\ Placeholder # {}
                         /\ Placeholder \cap Doc = {}
                         /\ MaxSignIns \in Nat /\ MaxRelaunches \in Nat

VARIABLES
    user,        \* Auth.auth().currentUser
    onScreen,    \* the chat screen is on the navigation stack
    messages,    \* the array the table's data source reads
    shown,       \* messages at the last reload: the rows the table counts on
    laidOut,     \* the table has asked for its rows at least once
    field,       \* the text field: empty, text already sent, text not sent,
                 \* or unsent text typed while a send was under way
    crashed,     \* "no", or the call that raised an exception
    delivered,   \* history: documents of the last callback
    signIns, relaunches

screenVars == <<onScreen, messages, shown, laidOut, field, crashed, delivered>>
vars == <<clientVars, user, screenVars, signIns, relaunches>>

Reload   == [kind |-> "reload"]
Clear    == [kind |-> "clear"]
Auth(u)  == [kind |-> "auth", user |-> u]

Alive == crashed = "no"

(* Some send has not been cleared away yet: it waits for the worker queue, for
   the backend, or for its completion or the block that empties the field. *)
Outstanding ==
    \/ Queued # {}
    \/ callbacks # {}
    \/ \E b \in Elements(mainQ) : b.kind \in {"saved", "failed", "clear"}

TypeOK ==
    /\ ClientTypeOK
    /\ user \in Account
    /\ onScreen \in BOOLEAN
    /\ messages \in SUBSET (WellFormed \cup Placeholder)
    /\ shown \in SUBSET (WellFormed \cup Placeholder)
    /\ laidOut \in BOOLEAN
    /\ field \in {"empty", "sent", "unsent", "racing"}
    /\ crashed \in {"no", "scroll", "row"}
    /\ delivered \in SUBSET Doc
    /\ signIns \in 0..MaxSignIns
    /\ relaunches \in 0..MaxRelaunches

(* viewDidLoad has run: the data source is set, loadMessages has posted the
   listener; the table has not been laid out. *)
Init ==
    /\ ClientInit
    /\ user = curUser
    /\ onScreen = TRUE
    /\ messages = Placeholder
    /\ shown = {}
    /\ laidOut = FALSE
    /\ field = "empty"
    /\ crashed = "no"
    /\ delivered = {}
    /\ signIns = 0
    /\ relaunches = 0

-----------------------------------------------------------------------------
(* Blocks of the main queue. *)

Runs(kind) == mainQ # <<>> /\ Head(mainQ).kind = kind

Only(v) == UNCHANGED <<workerQ, curUser, mutations, callbacks, cache, current,
                       online, listener, gone, refused, lost, shrunk, signIns,
                       relaunches, v>>

Reloads(D) == [i \in 1..Cardinality(D) |-> Reload]

(* A mistake: documents are appended without checking their fields. *)
RunSnapshotUnparsed ==
    /\ Runs("snapshot")
    /\ messages' = Head(mainQ).docs
    /\ delivered' = Head(mainQ).docs
    /\ mainQ' = Tail(mainQ) \o Reloads(messages')
    /\ Only(<<user, onScreen, shown, laidOut, field, crashed>>)

(* A mistake: only the documents that changed are kept. *)
RunSnapshotChanges ==
    /\ Runs("snapshot")
    /\ messages' = (Head(mainQ).docs \ delivered) \cap WellFormed
    /\ delivered' = Head(mainQ).docs
    /\ mainQ' = Tail(mainQ) \o Reloads(messages')
    /\ Only(<<user, onScreen, shown, laidOut, field, crashed>>)

(* A mistake: the table is not told of the new messages. *)
RunSnapshotSilently ==
    /\ Runs("snapshot")
    /\ messages' = Head(mainQ).docs \cap WellFormed
    /\ delivered' = Head(mainQ).docs
    /\ mainQ' = Tail(mainQ)
    /\ Only(<<user, onScreen, shown, laidOut, field, crashed>>)

(* A mistake: the text field is emptied whenever messages arrive. *)
RunSnapshotClears ==
    /\ Runs("snapshot")
    /\ messages' = Head(mainQ).docs \cap WellFormed
    /\ delivered' = Head(mainQ).docs
    /\ mainQ' = Tail(mainQ) \o Reloads(messages') \o <<Clear>>
    /\ Only(<<user, onScreen, shown, laidOut, field, crashed>>)

(* A mistake: one reload is queued even when no message was appended. *)
RunSnapshotAlwaysReloads ==
    /\ Runs("snapshot")
    /\ messages' = Head(mainQ).docs \cap WellFormed
    /\ delivered' = Head(mainQ).docs
    /\ mainQ' = Append(Tail(mainQ), Reload)
    /\ Only(<<user, onScreen, shown, laidOut, field, crashed>>)

(* The listener's closure on success: messages is rebuilt from the documents
   that parse, and every message appended queues one reload-and-scroll. *)
RunSnapshot ==
    /\ Runs("snapshot")
    /\ messages' = Head(mainQ).docs \cap WellFormed
    /\ delivered' = Head(mainQ).docs
    /\ mainQ' = Tail(mainQ) \o Reloads(messages')
    /\ Only(<<user, onScreen, shown, laidOut, field, crashed>>)

(* The closure on error: messages is emptied and nothing is reloaded. *)
RunError ==
    /\ Runs("error")
    /\ messages' = {}
    /\ delivered' = {}
    /\ mainQ' = Tail(mainQ)
    /\ Only(<<user, onScreen, shown, laidOut, field, crashed>>)

(* reloadData, then scrollToRow(messages.count - 1): without messages that is
   row -1, which the table refuses with an exception. *)
RunReload ==
    /\ Runs("reload")
    /\ mainQ' = Tail(mainQ)
    /\ shown' = messages
    /\ laidOut' = TRUE
    /\ crashed' = IF messages = {} THEN "scroll" ELSE "no"
    /\ Only(<<user, onScreen, messages, field, delivered>>)

(* sendPressed's completion: success queues the block that empties the field,
   failure only prints. *)
RunSaved ==
    /\ Runs("saved")
    /\ mainQ' = Append(Tail(mainQ), Clear)
    /\ Only(<<user, screenVars>>)

RunFailed ==
    /\ Runs("failed")
    /\ mainQ' = Tail(mainQ)
    /\ Only(<<user, screenVars>>)

RunClear ==
    /\ Runs("clear")
    /\ mainQ' = Tail(mainQ)
    /\ field' = "empty"
    /\ Only(<<user, onScreen, messages, shown, laidOut, crashed, delivered>>)

(* Firebase Auth's notification reaches Firestore's credentials provider. *)
RunAuth ==
    /\ Runs("auth")
    /\ mainQ' = Tail(mainQ)
    /\ workerQ' = Append(workerQ, Become(Head(mainQ).user))
    /\ UNCHANGED <<curUser, mutations, callbacks, cache, current, online,
                   listener, gone, refused, lost, shrunk, user, screenVars,
                   signIns, relaunches>>

MainStep == \/ RunSnapshot \/ RunError \/ RunReload \/ RunSaved \/ RunFailed
            \/ RunClear \/ RunAuth

-----------------------------------------------------------------------------
(* The table and the user. *)

(* The table's first layout asks the data source for its rows. *)
FirstLayout ==
    /\ onScreen /\ ~laidOut
    /\ shown' = messages
    /\ laidOut' = TRUE
    /\ UNCHANGED <<clientVars, user, onScreen, messages, field, crashed,
                   delivered, signIns, relaunches>>

(* Scrolling asks cellForRowAt for a row the table counted earlier; beyond the
   end of messages the array access traps. *)
TouchMissingRow ==
    /\ onScreen /\ laidOut
    /\ Cardinality(shown) > Cardinality(messages)
    /\ crashed' = "row"
    /\ UNCHANGED <<clientVars, user, onScreen, messages, shown, laidOut, field,
                   delivered, signIns, relaunches>>

Type(text) ==
    /\ "type" \in Env /\ onScreen
    /\ field' = text
    /\ text = "racing" => Outstanding
    /\ text = "unsent" => ~Outstanding
    /\ UNCHANGED <<clientVars, user, onScreen, messages, shown, laidOut, crashed,
                   delivered, signIns, relaunches>>

(* sendPressed: with nobody signed in it does nothing. *)
SendPressed(d) ==
    /\ onScreen /\ user # NoUser
    /\ d \in Fresh \cap WellFormed
    /\ workerQ' = Append(workerQ, Write(d))
    /\ field' = IF field = "empty" THEN "empty" ELSE "sent"
    /\ UNCHANGED <<mainQ, curUser, mutations, callbacks, cache, current, online,
                   listener, gone, refused, lost, shrunk, user, onScreen, messages,
                   shown, laidOut, crashed, delivered, signIns, relaunches>>

SignOut ==
    /\ user' = NoUser
    /\ mainQ' = IF user = NoUser THEN mainQ ELSE Append(mainQ, Auth(NoUser))

(* logOutPressed, when signOut does not throw (when it does, nothing happens). *)
LogOutPressed ==
    /\ "sign out" \in Env /\ onScreen
    /\ SignOut
    /\ onScreen' = FALSE
    /\ Only(<<workerQ, messages, shown, laidOut, field, crashed, delivered>>)

(* Firebase signs the user out by itself when the account is disabled. *)
ForcedSignOut ==
    /\ "disable account" \in Env /\ user # NoUser
    /\ SignOut
    /\ Only(<<workerQ, screenVars>>)

(* Somebody signs in again from the welcome screen, on a new chat screen. *)
SignInAgain(u) ==
    /\ ~onScreen /\ user = NoUser /\ signIns < MaxSignIns
    /\ user' = u
    /\ mainQ' = Append(mainQ, Auth(u))
    /\ signIns' = signIns + 1
    /\ UNCHANGED <<workerQ, curUser, mutations, callbacks, cache, current,
                   online, listener, gone, refused, lost, shrunk, screenVars, relaunches>>

UserStep ==
    \/ FirstLayout
    \/ TouchMissingRow
    \/ \E text \in {"empty", "unsent", "racing"} : Type(text)
    \/ \E d \in Doc : SendPressed(d)
    \/ LogOutPressed
    \/ ForcedSignOut
    \/ \E u \in User : SignInAgain(u)

(* The process dies (a crash, or the user or the system kills it) and the app
   is opened again and signed in as u.  Stored writes and the cache are on
   disk; the queues, the completion blocks and the screen are not. *)
Relaunch(u) ==
    /\ relaunches < MaxRelaunches
    /\ relaunches' = relaunches + 1
    /\ workerQ' = <<Listen>> /\ mainQ' = <<>>
    /\ curUser' = u /\ user' = u
    /\ callbacks' = {}
    /\ lost' = lost \cup Queued
    /\ current' = FALSE /\ online' = "Unknown" /\ listener' = "none"
    /\ shrunk' = FALSE
    /\ onScreen' = TRUE /\ messages' = Placeholder /\ shown' = {}
    /\ laidOut' = FALSE /\ field' = "empty" /\ crashed' = "no"
    /\ delivered' = {}
    /\ UNCHANGED <<mutations, cache, gone, refused, signIns>>

ClientStep(A) == /\ Alive /\ Len(mainQ) < MaxBacklog
                 /\ A
                 /\ UNCHANGED <<user, screenVars, signIns, relaunches>>

Next ==
    \/ ClientStep(WorkerStep)
    \/ ClientStep(NetworkStep)
    \/ Alive /\ MainStep
    \/ Alive /\ UserStep
    \/ \E u \in User : Relaunch(u)

Spec == Init /\ [][Next]_vars

(* The run loop and the worker queue keep running, and a table on screen is
   laid out.  Nothing is asked of the network or of the user. *)
Fairness == /\ WF_vars(Alive /\ MainStep)
            /\ WF_vars(ClientStep(WorkerStep))
            /\ WF_vars(Alive /\ FirstLayout)

FairSpec == Spec /\ Fairness

-----------------------------------------------------------------------------
(* Safety *)

(* Between the snapshot closure (ChatViewController.swift:38-59) and the reload
   it queues, the table counts on rows the array may no longer have.  The two
   disagree only while such a reload is queued, or for as long as the array is
   empty: then no reload is coming. *)
TableLagsOnlyBriefly ==
    laidOut /\ shown # messages =>
        \/ messages = {}
        \/ \E b \in Elements(mainQ) : b.kind = "reload"

(* Documents of the last snapshot event before position n of the main queue. *)
LastEventBefore(n) ==
    LET S == {i \in 1..(n - 1) : mainQ[i].kind = "snapshot"} IN
    IF S = {} THEN delivered
    ELSE mainQ[CHOOSE i \in S : \A j \in S : j <= i].docs

(* A live listener is owed nothing: the last event raised holds exactly the
   documents of the view, so the screen converges when the queue drains. *)
ListenerUpToDate ==
    /\ listener = "live" => LastEventBefore(Len(mainQ) + 1) = View
    /\ listener = "waiting" => View = {}

(* The field is emptied only when the message it held is already in the array:
   a write's snapshot reaches the main queue before its completion. *)
SavedMessageIsDelivered ==
    \A i \in DOMAIN mainQ :
        mainQ[i].kind = "saved" /\ listener = "live"
            => mainQ[i].doc \in LastEventBefore(i)

(* A completion block runs at most once per write and tells the truth: saved
   means the backend has the document or had it, failed that it never will. *)
CompletionsAreTruthful ==
    /\ callbacks \subseteq Stored
    /\ \A i \in DOMAIN mainQ :
         /\ mainQ[i].kind = "saved" => mainQ[i].doc \in cache \cup gone
         /\ mainQ[i].kind = "failed" => mainQ[i].doc \in refused
         /\ \A j \in DOMAIN mainQ :
              {mainQ[i].kind, mainQ[j].kind} \subseteq {"saved", "failed"}
                /\ mainQ[i].doc = mainQ[j].doc => i = j

(* scrollToRow fails only after a view lost a document (a rejected write, a
   deletion, another account) or the listener failed: a chat that only grows
   never scrolls to row -1. *)
ScrollFailsOnlyAfterLoss == crashed = "scroll" => shrunk

(* cellForRowAt fails only after such a loss, or while the table still counts
   the two placeholder rows. *)
RowFailsOnlyAfterLoss ==
    crashed = "row" => shrunk \/ shown \cap Placeholder # {}

(* Text typed while no send is under way is never wiped by a completion. *)
UnsentTextIsSafe == field = "unsent" => ~Outstanding

(* Every message is in one phase, moves forward only, and is never shown
   before it was stored: the chat implements MessageLifecycle. *)
PhaseOf(d) ==
    CASE d \in Queued -> "queued"
      [] d \in Stored -> "stored"
      [] d \in cache  -> "committed"
      [] d \in gone   -> "gone"
      [] d \in refused -> "refused"
      [] d \in lost   -> "lost"
      [] OTHER        -> "unsent"

Life == INSTANCE MessageLifecycle
          WITH phase <- [d \in Doc |-> PhaseOf(d)], seen <- shown \ Placeholder

LifecycleHolds == Life!LifeSpec

-----------------------------------------------------------------------------
(* Liveness *)

(* A well-formed document that stays in the view of a live listener gets its
   row, however many snapshots and blocks are under way. *)
EveryStoredMessageIsShown ==
    \A d \in WellFormed :
        (listener = "live" /\ d \in View)
            ~> (d \in shown \/ d \notin View \/ listener # "live" \/ ~Alive)
=============================================================================
