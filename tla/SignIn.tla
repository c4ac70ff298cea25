-------------------------------- MODULE SignIn --------------------------------
(***************************************************************************)
(* Flash Chat's sign-in: WelcomeViewController, LoginViewController,       *)
(* RegisterViewController, the way to the chat screen and back, over the   *)
(* part of Firebase Auth that serves it.                                   *)
(*                                                                         *)
(* A press of the Log In or Register button sends a request.  Auth answers *)
(* on its own queue, in any order, sets the current user there, and only   *)
(* then posts the completion to the main queue, where the view controller  *)
(* shows a warning or performs the segue to the chat.  Nothing disables    *)
(* the button or the back button while an answer is awaited.               *)
(***************************************************************************)
EXTENDS Naturals, Sequences, SequencesExt, FiniteSets

CONSTANTS User, NoUser,
          MaxVisits,      \* bound on sign-in screens opened
          MaxPresses,     \* bound on presses of Log In or Register
          MaxRelaunches   \* bound on how often the app is killed and reopened

ASSUME SignInAssumption == /\ NoUser \notin User
                           /\ MaxVisits \in Nat /\ MaxPresses \in Nat
                           /\ MaxRelaunches \in Nat

VARIABLES
    stack,      \* the navigation controller's screens, welcome first
    warning,    \* the press whose error warningLabel shows on the sign-in
                \* screen of the stack, or 0
    presses,    \* every press so far and how far its answer has come
    mainQ,      \* completions on the main queue, by press
    user,       \* Auth.auth().currentUser
    accounts,   \* accounts the backend knows
    source,     \* history: the press that set user; 0 when it was restored
    stray,      \* history: presses that overlapped another or whose screen
                \* was left before the answer
    revoked,    \* history: user was last cleared by the SDK, not by logging out
    visits, relaunches

vars == <<stack, warning, presses, mainQ, user, accounts, source, stray,
          revoked, visits, relaunches>>

Welcome == [screen |-> "welcome", id |-> 0]
Chat(i) == [screen |-> "chat", id |-> i]
SignInScreen(kind, n) == [screen |-> kind, id |-> n]
Screen == [screen : {"welcome", "login", "register", "chat"}, id : Nat]

Waiting == {"sent", "token", "succeeded", "failed"}
Stage == Waiting \cup {"chat", "warned", "unseen", "lost"}
Press == [visit : 1..MaxVisits, kind : {"login", "register"}, email : User,
          stage : Stage]

Top == Last(stack)
Pending == {i \in DOMAIN presses : presses[i].stage \in Waiting}
At(i, stage) == i \in DOMAIN presses /\ presses[i].stage = stage
Moves(i, stage) == presses' = [presses EXCEPT ![i].stage = stage]
OnStack(i) ==
    SignInScreen(presses[i].kind, presses[i].visit) \in Range(stack)

(* Welcome at the root, at most one sign-in screen above it, chats above that. *)
StackShape ==
    /\ stack \in Seq(Screen) /\ stack # <<>>
    /\ stack[1] = Welcome
    /\ \A k \in 2..Len(stack) :
         /\ stack[k].screen \in IF k = 2 THEN {"login", "register"} ELSE {"chat"}
         /\ stack[k].id \in IF k = 2 THEN 1..visits ELSE DOMAIN presses

TypeOK ==
    /\ StackShape
    /\ presses \in Seq(Press) /\ Len(presses) <= MaxPresses
    /\ warning \in {0} \cup DOMAIN presses
    /\ mainQ \in Seq(DOMAIN presses)
    /\ user \in User \cup {NoUser}
    /\ accounts \in SUBSET User
    /\ source \in {0} \cup DOMAIN presses
    /\ stray \in SUBSET DOMAIN presses
    /\ revoked \in BOOLEAN
    /\ visits \in 0..MaxVisits /\ relaunches \in 0..MaxRelaunches

(* Launch: the welcome screen is the root, whoever the keychain remembers. *)
Init ==
    /\ stack = <<Welcome>>
    /\ warning = 0
    /\ presses = <<>> /\ mainQ = <<>>
    /\ accounts \in SUBSET User
    /\ user \in accounts \cup {NoUser}
    /\ source = 0 /\ stray = {} /\ revoked = FALSE
    /\ visits = 0 /\ relaunches = 0

-----------------------------------------------------------------------------
(* The user. *)

(* A button of the welcome screen opens a new sign-in screen. *)
OpenSignIn(kind) ==
    /\ Top = Welcome /\ visits < MaxVisits
    /\ visits' = visits + 1
    /\ stack' = Append(stack, SignInScreen(kind, visits'))
    /\ warning' = 0
    /\ UNCHANGED <<presses, mainQ, user, accounts, source, stray, revoked,
                   relaunches>>

(* loginPressed, registerPressed: every press sends a request. *)
PressButton(email) ==
    /\ Top.screen \in {"login", "register"}
    /\ Len(presses) < MaxPresses
    /\ presses' = Append(presses, [visit |-> Top.id, kind |-> Top.screen,
                                   email |-> email, stage |-> "sent"])
    /\ stray' = IF Pending = {} THEN stray
                ELSE stray \cup Pending \cup {Len(presses')}
    /\ UNCHANGED <<stack, warning, mainQ, user, accounts, source, revoked, visits,
                   relaunches>>

(* A mistake: the chat screen keeps its back button. *)
BackAnywhere ==
    /\ Top # Welcome
    /\ stack' = Front(stack)
    /\ stray' = stray \cup Pending
    /\ UNCHANGED <<warning, presses, mainQ, user, accounts, source, revoked,
                   visits, relaunches>>

(* The back button, which the chat screen hides. *)
Back ==
    /\ Top.screen \in {"login", "register"}
    /\ stack' = Front(stack)
    /\ stray' = stray \cup Pending
    /\ UNCHANGED <<warning, presses, mainQ, user, accounts, source, revoked,
                   visits, relaunches>>

(* A mistake: only the screen on top is popped. *)
LogOutPressedPopsOne ==
    /\ Top.screen = "chat"
    /\ user' = NoUser /\ revoked' = FALSE
    /\ stack' = Front(stack)
    /\ UNCHANGED <<warning, presses, mainQ, accounts, source, stray, visits,
                   relaunches>>

(* A mistake: the screens are left but nobody is signed out. *)
LogOutPressedKeepsUser ==
    /\ Top.screen = "chat"
    /\ revoked' = FALSE
    /\ stack' = <<Head(stack)>>
    /\ UNCHANGED <<warning, presses, mainQ, user, accounts, source, stray,
                   visits, relaunches>>

(* logOutPressed, when signOut does not throw: sign out, pop to the root. *)
LogOutPressed ==
    /\ Top.screen = "chat"
    /\ user' = NoUser /\ revoked' = FALSE
    /\ stack' = <<Head(stack)>>
    /\ UNCHANGED <<warning, presses, mainQ, accounts, source, stray, visits,
                   relaunches>>

(* The app is killed and opened again: requests and completions are gone,
   whatever the backend did for them; the keychain keeps the user. *)
Relaunch ==
    /\ relaunches < MaxRelaunches
    /\ relaunches' = relaunches + 1
    /\ stack' = <<Welcome>> /\ warning' = 0
    /\ presses' = [i \in DOMAIN presses |->
                     IF i \in Pending THEN [presses[i] EXCEPT !.stage = "lost"]
                     ELSE presses[i]]
    /\ mainQ' = <<>>
    /\ source' = 0 /\ revoked' = FALSE
    /\ UNCHANGED <<user, accounts, stray, visits>>

UserStep == \/ \E kind \in {"login", "register"} : OpenSignIn(kind)
            \/ \E email \in User : PressButton(email)
            \/ Back
            \/ LogOutPressed

-----------------------------------------------------------------------------
(* Firebase Auth, on its own queue. *)

(* The backend knows the account, or makes it, and returns a token. *)
Accepted(i) ==
    /\ At(i, "sent")
    /\ (presses[i].kind = "login") <=> (presses[i].email \in accounts)
    /\ accounts' = accounts \cup {presses[i].email}
    /\ Moves(i, "token")
    /\ UNCHANGED <<stack, warning, mainQ, user, source, stray, revoked, visits,
                   relaunches>>

(* The first request fails; a registration may have been carried out all the
   same, when only its answer was lost. *)
Refused(i) ==
    /\ At(i, "sent")
    /\ \/ accounts' = accounts
       \/ presses[i].kind = "register" /\ accounts' = accounts \cup {presses[i].email}
    /\ Moves(i, "failed")
    /\ mainQ' = Append(mainQ, i)
    /\ UNCHANGED <<stack, warning, user, source, stray, revoked, visits, relaunches>>

(* The account's data arrives, the keychain takes it: the user is signed in
   before the completion is posted. *)
SignsIn(i) ==
    /\ At(i, "token")
    /\ user' = presses[i].email
    /\ source' = i /\ revoked' = FALSE
    /\ Moves(i, "succeeded")
    /\ mainQ' = Append(mainQ, i)
    /\ UNCHANGED <<stack, warning, accounts, stray, visits, relaunches>>

(* A mistake: the error is not handed to the completion. *)
SignInFailsSilently(i) ==
    /\ At(i, "token")
    /\ Moves(i, "failed")
    /\ UNCHANGED <<stack, warning, mainQ, user, accounts, source, stray, revoked,
                   visits, relaunches>>

(* The account's data does not arrive, or the keychain refuses it: the current
   user stays as it was. *)
SignInFails(i) ==
    /\ At(i, "token")
    /\ Moves(i, "failed")
    /\ mainQ' = Append(mainQ, i)
    /\ UNCHANGED <<stack, warning, user, accounts, source, stray, revoked,
                   visits, relaunches>>

(* Auth signs out by itself when the backend no longer honours the token. *)
ForcedSignOut ==
    /\ user # NoUser
    /\ user' = NoUser /\ revoked' = TRUE
    /\ UNCHANGED <<stack, warning, presses, mainQ, accounts, source, stray, visits,
                   relaunches>>

Answers(i) == Accepted(i) \/ Refused(i) \/ SignsIn(i) \/ SignInFails(i)

-----------------------------------------------------------------------------
(* The completions, on the main queue.  A segue from a screen that is no longer
   in the navigation controller presents nothing. *)

Completes(i, stage) == /\ mainQ # <<>> /\ i = Head(mainQ)
                       /\ mainQ' = Tail(mainQ)
                       /\ At(i, stage)
                       /\ UNCHANGED <<user, accounts, source, stray, revoked,
                                      visits, relaunches>>

ShowWarning(i) ==
    /\ Completes(i, "failed")
    /\ Moves(i, IF OnStack(i) THEN "warned" ELSE "unseen")
    /\ warning' = IF OnStack(i) THEN i ELSE warning
    /\ UNCHANGED stack

(* A mistake: the button has a segue of its own as well. *)
PushChatTwice(i) ==
    /\ Completes(i, "succeeded")
    /\ Moves(i, IF OnStack(i) THEN "chat" ELSE "unseen")
    /\ warning' = IF OnStack(i) THEN 0 ELSE warning
    /\ stack' = IF OnStack(i) THEN stack \o <<Chat(i), Chat(i)>> ELSE stack

(* A mistake: the chat is pushed even when the sign-in screen is gone. *)
PushChatAnywhere(i) ==
    /\ Completes(i, "succeeded")
    /\ Moves(i, "chat")
    /\ warning' = 0
    /\ stack' = Append(stack, Chat(i))

PushChat(i) ==
    /\ Completes(i, "succeeded")
    /\ Moves(i, IF OnStack(i) THEN "chat" ELSE "unseen")
    /\ warning' = IF OnStack(i) THEN 0 ELSE warning
    /\ stack' = IF OnStack(i) THEN Append(stack, Chat(i)) ELSE stack

MainStep == \E i \in DOMAIN presses : ShowWarning(i) \/ PushChat(i)

Next == \/ UserStep
        \/ Relaunch
        \/ \E i \in DOMAIN presses : Answers(i)
        \/ ForcedSignOut
        \/ MainStep

Spec == Init /\ [][Next]_vars

(* Every request is answered or times out, and the main queue is served. *)
Fairness == /\ \A i \in 1..MaxPresses : WF_vars(Answers(i))
            /\ WF_vars(MainStep)

FairSpec == Spec /\ Fairness

-----------------------------------------------------------------------------
(* Properties *)

Chats == {k \in DOMAIN stack : stack[k].screen = "chat"}

(* A chat screen is open only while somebody is signed in, unless the SDK itself
   signed them out: a completion that comes after logOutPressed
   (ChatViewController.swift:87-88) finds its sign-in screen popped. *)
ChatMeansSignedIn == Chats # {} /\ user = NoUser => revoked

(* The warning a user sees (LoginViewController.swift:22) belongs to the screen
   it is on, and no press on that screen has opened the chat. *)
WarningIsHonest ==
    warning # 0 /\ Top.screen \in {"login", "register"} =>
        /\ presses[warning].visit = Top.id
        /\ \A i \in DOMAIN presses :
             presses[i].visit = Top.id => presses[i].stage # "chat"

(* Whoever logs out stays out until the next press, unless an answer was still
   on its way: on the welcome screen somebody is signed in only from an earlier
   launch or by a press that overlapped another or was walked away from. *)
LoggedOutStaysOut ==
    stack = <<Welcome>> /\ user # NoUser => source = 0 \/ source \in stray

(* More than one chat screen, and so more than one listener, is open only after
   presses that overlapped (LoginViewController.swift:25). *)
OneChatPerPress ==
    Cardinality(Chats) > 1 => \A k \in Chats : stack[k].id \in stray

(* Every press ends in the chat or in a warning, unless its screen was left or
   the app was killed. *)
PressIsAnswered ==
    \A i \in 1..MaxPresses :
        i \in Pending ~> i \in DOMAIN presses \ Pending
=============================================================================
