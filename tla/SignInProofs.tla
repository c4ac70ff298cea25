----------------------------- MODULE SignInProofs -----------------------------
(***************************************************************************)
(* Who is signed in behind which screen, for every set of accounts and     *)
(* every bound on visits, presses and relaunches.                          *)
(***************************************************************************)
EXTENDS SignIn, FiniteSetTheorems, SequenceTheorems, TLAPS

HasScreen == Len(stack) > 1
HasChat == Len(stack) > 2

(* Presses and screens: every press was made on a screen opened before. *)
PressesMatch ==
    \A i \in DOMAIN presses :
        /\ presses[i].visit <= visits
        /\ HasScreen /\ presses[i].visit = stack[2].id =>
             presses[i].kind = stack[2].screen

(* Presses that wait together are stray, and so is one whose screen is gone. *)
OverlapsAreStray == \A i, j \in Pending : i # j => i \in stray
WaitingIsOnScreen == \A i \in Pending \ stray : OnStack(i)

(* Nothing is pressed under a chat: what still waits there overlapped it. *)
ChatsAreAlone ==
    \A k \in 3..Len(stack) : Pending # {} => Pending \subseteq stray /\ stack[k].id \in stray
ChatsAreStray == \A k, l \in 3..Len(stack) : k # l => stack[k].id \in stray

ScreenInv == /\ PressesMatch
             /\ OverlapsAreStray
             /\ WaitingIsOnScreen
             /\ ChatsAreAlone
             /\ ChatsAreStray

(* Whoever signed in from a screen that is still there stays signed in until the
   chat is on it. *)
UserInv ==
    /\ \A i \in DOMAIN presses :
         At(i, "succeeded") /\ OnStack(i) => user # NoUser \/ revoked
    /\ HasChat => user # NoUser \/ revoked
    /\ user # NoUser /\ source # 0 /\ source \notin stray =>
         At(source, "succeeded") \/ HasChat

(* The warning is of the screen on the stack, and no chat came from under it. *)
WarningInv ==
    /\ \A i \in DOMAIN presses : At(i, "chat") /\ OnStack(i) => HasChat
    /\ warning # 0 /\ HasScreen => presses[warning].visit = stack[2].id

SignInv == TypeOK /\ ScreenInv /\ UserInv /\ WarningInv

-----------------------------------------------------------------------------
(* The type invariant, spelled out for the provers. *)
LEMMA PressTypes ==
    ASSUME TypeOK
    PROVE  /\ presses \in Seq(Press) /\ Len(presses) \in Nat
           /\ DOMAIN presses = 1..Len(presses)
           /\ \A i \in DOMAIN presses :
                /\ i \in Nat /\ i # 0
                /\ presses[i] \in Press
                /\ presses[i].visit \in 1..MaxVisits /\ presses[i].visit \in Nat
                /\ presses[i].kind \in {"login", "register"}
                /\ presses[i].email \in User /\ presses[i].stage \in Stage
           /\ visits \in Nat /\ visits <= MaxVisits
<1>1. presses \in Seq(Press)
  BY DEF TypeOK
<1>2. /\ Len(presses) \in Nat /\ DOMAIN presses = 1..Len(presses)
      /\ \A i \in DOMAIN presses : presses[i] \in Press
  BY <1>1
<1>3. \A p \in Press : /\ p.visit \in 1..MaxVisits /\ p.visit \in Nat
                       /\ p.kind \in {"login", "register"}
                       /\ p.email \in User /\ p.stage \in Stage
  BY DEF Press
<1>4. visits \in Nat /\ visits <= MaxVisits
  BY SignInAssumption DEF TypeOK
<1> QED BY <1>1, <1>2, <1>3, <1>4

(* The stack is the welcome screen, then a sign-in screen, then chats. *)
LEMMA StackTypes ==
    ASSUME TypeOK
    PROVE  /\ stack \in Seq(Screen) /\ Len(stack) \in Nat /\ Len(stack) >= 1
           /\ DOMAIN stack = 1..Len(stack)
           /\ stack[1] = Welcome
           /\ HasScreen => /\ stack[2].screen \in {"login", "register"}
                           /\ stack[2].id \in 1..visits
           /\ \A k \in 3..Len(stack) : /\ stack[k].screen = "chat"
                                       /\ stack[k].id \in DOMAIN presses
           /\ Top = stack[Len(stack)]
<1>1. stack \in Seq(Screen) /\ stack # <<>> /\ stack[1] = Welcome
  BY DEF TypeOK, StackShape
<1>2. \A k \in 2..Len(stack) :
         /\ stack[k].screen \in IF k = 2 THEN {"login", "register"} ELSE {"chat"}
         /\ stack[k].id \in IF k = 2 THEN 1..visits ELSE DOMAIN presses
  BY DEF TypeOK, StackShape
<1>3. Len(stack) \in Nat /\ Len(stack) >= 1 /\ DOMAIN stack = 1..Len(stack)
  BY <1>1
<1>4. HasScreen => 2 \in 2..Len(stack)
  BY <1>3 DEF HasScreen
<1>5. \A k \in 3..Len(stack) : k \in 2..Len(stack) /\ k # 2
  BY <1>3
<1> QED BY <1>1, <1>2, <1>3, <1>4, <1>5 DEF Top, Last

(* A press is on the stack just when the screen there is the one it was made on. *)
LEMMA OnStackMeans ==
    ASSUME TypeOK, NEW i \in DOMAIN presses
    PROVE  OnStack(i) <=> /\ HasScreen
                          /\ presses[i].kind = stack[2].screen
                          /\ presses[i].visit = stack[2].id
<1> DEFINE s == SignInScreen(presses[i].kind, presses[i].visit)
<1>1. s.screen = presses[i].kind /\ s.id = presses[i].visit
      /\ s.screen \in {"login", "register"}
  BY PressTypes DEF SignInScreen
<1>2. s \in Range(stack) <=> \E k \in DOMAIN stack : stack[k] = s
  BY DEF Range
<1>3. ASSUME NEW k \in DOMAIN stack, stack[k] = s PROVE HasScreen /\ k = 2
  <2>1. k = 1 \/ k = 2 \/ k \in 3..Len(stack)
    BY StackTypes
  <2>2. k # 1 /\ k \notin 3..Len(stack)
    BY <1>1, <1>3, StackTypes DEF Welcome
  <2> QED BY <2>1, <2>2, StackTypes DEF HasScreen
<1>4. HasScreen => 2 \in DOMAIN stack /\ stack[2] \in Screen
  BY StackTypes DEF HasScreen
<1>5. HasScreen /\ s.screen = stack[2].screen /\ s.id = stack[2].id => stack[2] = s
  BY <1>4 DEF Screen, SignInScreen
<1> HIDE DEF s
<1>6. OnStack(i) <=> s \in Range(stack)
  BY DEF OnStack, s
<1> QED BY <1>1, <1>2, <1>3, <1>4, <1>5, <1>6

LEMMA ChatsAre == TypeOK => Chats = 3..Len(stack)
<1> SUFFICES ASSUME TypeOK PROVE Chats = 3..Len(stack)
  OBVIOUS
<1>1. \A k \in DOMAIN stack : k = 1 \/ k = 2 \/ k \in 3..Len(stack)
  BY StackTypes
<1>2. stack[1].screen # "chat"
  BY StackTypes DEF Welcome
<1>3. 2 \in DOMAIN stack => stack[2].screen # "chat"
  BY StackTypes DEF HasScreen
<1>4. 3..Len(stack) \subseteq DOMAIN stack
  BY StackTypes
<1> QED BY <1>1, <1>2, <1>3, <1>4, StackTypes DEF Chats

(* Which screen is on top tells how long the stack is. *)
LEMMA TopMeans ==
    ASSUME TypeOK
    PROVE  /\ Top = Welcome => Len(stack) = 1
           /\ Top.screen \in {"login", "register"} => Len(stack) = 2 /\ Top = stack[2]
           /\ Top.screen = "chat" => HasChat
<1>1. Len(stack) = 1 \/ Len(stack) = 2 \/ Len(stack) \in 3..Len(stack)
  BY StackTypes
<1>2. Welcome.screen = "welcome"
  BY DEF Welcome
<1> QED BY <1>1, <1>2, StackTypes DEF HasScreen, HasChat

(* A press that moves on keeps everything but its stage. *)
LEMMA MovesMeans ==
    ASSUME TypeOK, NEW i \in DOMAIN presses, NEW s \in Stage, Moves(i, s)
    PROVE  /\ presses' \in Seq(Press) /\ Len(presses') = Len(presses)
           /\ DOMAIN presses' = DOMAIN presses
           /\ presses'[i].stage = s
           /\ \A j \in DOMAIN presses :
                /\ presses'[j].visit = presses[j].visit
                /\ presses'[j].kind = presses[j].kind
                /\ j # i => presses'[j] = presses[j]
<1>1. presses' = [presses EXCEPT ![i].stage = s]
  BY DEF Moves
<1>2. [presses[i] EXCEPT !.stage = s] \in Press
  BY PressTypes DEF Press
<1>3. presses' = [presses EXCEPT ![i] = [presses[i] EXCEPT !.stage = s]]
  BY <1>1
<1>4. presses' \in Seq(Press) /\ Len(presses') = Len(presses)
  BY <1>2, <1>3, PressTypes
<1>5. presses[i] \in [visit : 1..MaxVisits, kind : {"login", "register"}, email : User,
                     stage : Stage]
  BY PressTypes DEF Press
<1>6. /\ presses'[i].stage = s /\ presses'[i].visit = presses[i].visit
      /\ presses'[i].kind = presses[i].kind
  BY <1>3, <1>5
<1>7. DOMAIN presses' = DOMAIN presses /\ \A j \in DOMAIN presses : j # i => presses'[j] = presses[j]
  BY <1>3
<1> QED BY <1>4, <1>6, <1>7

-----------------------------------------------------------------------------
(* Each action keeps the types. *)

LEMMA AppendToOne ==
    ASSUME NEW S, NEW st \in Seq(S), Len(st) = 1, NEW x \in S
    PROVE  /\ Append(st, x) \in Seq(S) /\ Len(Append(st, x)) = 2
           /\ Append(st, x)[1] = st[1] /\ Append(st, x)[2] = x
<1>1. Len(st) + 1 = 2 /\ 1..Len(st) = {1}
  OBVIOUS
<1>2. Append(st, x)[Len(st) + 1] = x /\ Len(Append(st, x)) = Len(st) + 1
  BY AppendProperties
<1>3. Append(st, x) \in Seq(S) /\ \A i \in 1..Len(st) : Append(st, x)[i] = st[i]
  BY AppendProperties
<1> QED BY <1>1, <1>2, <1>3

LEMMA OpenType == ASSUME TypeOK, NEW kind \in {"login", "register"}, OpenSignIn(kind)
                  PROVE  TypeOK'
<1> DEFINE s == SignInScreen(kind, visits + 1)
<1>1. /\ Len(stack) = 1 /\ visits < MaxVisits /\ visits' = visits + 1
      /\ stack' = Append(stack, s) /\ warning' = 0
      /\ UNCHANGED <<presses, mainQ, user, accounts, source, stray, revoked, relaunches>>
  BY TopMeans DEF OpenSignIn
<1>2. visits' \in 0..MaxVisits /\ visits' \in Nat
  BY <1>1, PressTypes, SignInAssumption
<1>3. s \in Screen /\ s.screen = kind /\ s.id = visits'
  <2>1. s = [screen |-> kind, id |-> visits'] /\ visits' \in Nat
    BY <1>1, <1>2 DEF SignInScreen
  <2> HIDE DEF s
  <2> QED BY <2>1 DEF Screen
<1> HIDE DEF s
<1>4. stack' \in Seq(Screen) /\ Len(stack') = 2 /\ stack'[1] = Welcome /\ stack'[2] = s
  <2>1. stack \in Seq(Screen) /\ stack[1] = Welcome /\ Len(stack) = 1 /\ stack' = Append(stack, s)
    BY <1>1, StackTypes
  <2>2. s \in Screen
    BY <1>3
  <2> QED BY <2>1, <2>2, AppendToOne
<1>5. visits' \in 1..visits'
  BY <1>1, PressTypes
<1>6. \A k \in 2..Len(stack') : k = 2
  BY <1>4
<1>7. StackShape'
  <2>1. stack'[2].screen \in {"login", "register"} /\ stack'[2].id \in 1..visits'
    <3> HIDE DEF s
    <3> QED BY <1>3, <1>4, <1>5
  <2> QED BY <1>4, <1>6, <2>1 DEF StackShape
<1> QED BY <1>1, <1>2, <1>7 DEF TypeOK

LEMMA PressButtonType == ASSUME TypeOK, NEW email \in User, PressButton(email)
                         PROVE  TypeOK'
<1> DEFINE p == [visit |-> Top.id, kind |-> Top.screen, email |-> email, stage |-> "sent"]
<1>1. /\ Len(stack) = 2 /\ Top = stack[2] /\ Top.screen \in {"login", "register"}
      /\ Len(presses) < MaxPresses /\ presses' = Append(presses, p)
      /\ UNCHANGED <<stack, warning, mainQ, user, accounts, source, revoked, visits, relaunches>>
  BY TopMeans DEF PressButton
<1>2. p \in Press
  BY <1>1, StackTypes, PressTypes, SignInAssumption DEF HasScreen, Press, Stage, Waiting
<1>3. presses' \in Seq(Press) /\ Len(presses') = Len(presses) + 1 /\ Len(presses') <= MaxPresses
  BY <1>1, <1>2, PressTypes, SignInAssumption
<1>4. DOMAIN presses \subseteq DOMAIN presses' /\ Len(presses') \in DOMAIN presses'
  BY <1>3, PressTypes
<1>5. stray' \in SUBSET DOMAIN presses'
  <2>1. Pending \subseteq DOMAIN presses
    BY DEF Pending
  <2>2. stray' = stray \/ stray' = stray \cup Pending \cup {Len(presses')}
    BY DEF PressButton
  <2> QED BY <1>4, <2>1, <2>2 DEF TypeOK
<1>6. StackShape'
  BY <1>1, <1>4 DEF TypeOK, StackShape
<1> QED BY <1>1, <1>3, <1>4, <1>5, <1>6 DEF TypeOK

LEMMA BackType == ASSUME TypeOK, Back PROVE TypeOK'
<1>1. /\ Len(stack) = 2 /\ stack' = Front(stack) /\ stray' = stray \cup Pending
      /\ UNCHANGED <<warning, presses, mainQ, user, accounts, source, revoked, visits, relaunches>>
  BY TopMeans DEF Back
<1>2. stack' = SubSeq(stack, 1, 1)
  BY <1>1 DEF Front
<1>3. stack' \in Seq(Screen) /\ Len(stack') = 1 /\ stack'[1] = Welcome
  BY <1>1, <1>2, StackTypes
<1>4. StackShape'
  BY <1>3 DEF StackShape
<1> QED BY <1>1, <1>4 DEF TypeOK, Pending

(* Logging out and a relaunch leave the welcome screen alone. *)
LEMMA RootShape == ASSUME TypeOK, stack' = <<Welcome>> PROVE StackShape'
<1>1. stack' \in Seq(Screen) /\ Len(stack') = 1 /\ stack'[1] = Welcome
  BY DEF Screen, Welcome
<1> QED BY <1>1 DEF StackShape

LEMMA LogOutType == ASSUME TypeOK, LogOutPressed PROVE TypeOK' /\ stack' = <<Welcome>>
<1>1. stack' = <<Welcome>>
  BY StackTypes DEF LogOutPressed
<1> QED BY <1>1, RootShape DEF LogOutPressed, TypeOK

LEMMA RelaunchType == ASSUME TypeOK, Relaunch
                      PROVE  /\ TypeOK'
                             /\ stack' = <<Welcome>>
                             /\ DOMAIN presses' = DOMAIN presses
                             /\ \A i \in DOMAIN presses :
                                  /\ presses'[i].visit = presses[i].visit
                                  /\ presses'[i].stage \notin Waiting
<1> DEFINE Lost(i) == IF i \in Pending THEN [presses[i] EXCEPT !.stage = "lost"]
                      ELSE presses[i]
<1>1. presses' = [i \in DOMAIN presses |-> Lost(i)]
  BY DEF Relaunch
<1>2. \A i \in DOMAIN presses : /\ Lost(i) \in Press /\ Lost(i).visit = presses[i].visit
                                /\ Lost(i).stage \notin Waiting
  BY PressTypes DEF Press, Pending, Waiting, Stage
<1>3. presses' \in Seq(Press) /\ Len(presses') = Len(presses)
  BY <1>1, <1>2, PressTypes
<1>4. DOMAIN presses' = DOMAIN presses
  BY <1>1
<1>5. stack' = <<Welcome>> /\ StackShape'
  BY RootShape DEF Relaunch
<1>6. relaunches' \in 0..MaxRelaunches
  BY SignInAssumption DEF Relaunch, TypeOK
<1>7. mainQ' \in Seq(DOMAIN presses')
  BY DEF Relaunch
<1> QED BY <1>1, <1>2, <1>3, <1>4, <1>5, <1>6, <1>7 DEF Relaunch, TypeOK

LEMMA AnswersType == ASSUME TypeOK, NEW i \in DOMAIN presses, Answers(i) PROVE TypeOK'
<1>1. PICK s \in {"token", "failed", "succeeded"} : Moves(i, s)
  BY DEF Answers, Accepted, Refused, SignsIn, SignInFails
<1>2. /\ presses' \in Seq(Press) /\ Len(presses') = Len(presses)
      /\ DOMAIN presses' = DOMAIN presses
  BY <1>1, MovesMeans DEF Stage, Waiting
<1>3. stack' = stack /\ stray' = stray /\ visits' = visits /\ relaunches' = relaunches
      /\ warning' = warning
  BY DEF Answers, Accepted, Refused, SignsIn, SignInFails
<1>4. mainQ' = mainQ \/ mainQ' = Append(mainQ, i)
  BY DEF Answers, Accepted, Refused, SignsIn, SignInFails
<1>5. mainQ' \in Seq(DOMAIN presses')
  <2> DEFINE D == DOMAIN presses
  <2>1. mainQ \in Seq(D) /\ i \in D /\ DOMAIN presses' = D
    BY <1>2 DEF TypeOK
  <2> HIDE DEF D
  <2> QED BY <1>4, <2>1
<1>6. user' \in User \cup {NoUser} /\ source' \in {0} \cup DOMAIN presses /\ revoked' \in BOOLEAN
  BY PressTypes DEF Answers, Accepted, Refused, SignsIn, SignInFails, TypeOK
<1>7. accounts' \in SUBSET User
  BY PressTypes DEF Answers, Accepted, Refused, SignsIn, SignInFails, TypeOK
<1>8. StackShape'
  BY <1>2, <1>3 DEF TypeOK, StackShape
<1> QED BY <1>2, <1>3, <1>5, <1>6, <1>7, <1>8 DEF TypeOK

LEMMA MainType == ASSUME TypeOK, NEW i \in DOMAIN presses, ShowWarning(i) \/ PushChat(i)
                  PROVE  TypeOK'
<1>1. PICK s \in {"warned", "unseen", "chat"} : Moves(i, s)
  BY DEF ShowWarning, PushChat
<1>2. /\ presses' \in Seq(Press) /\ Len(presses') = Len(presses)
      /\ DOMAIN presses' = DOMAIN presses
  BY <1>1, MovesMeans DEF Stage, Waiting
<1>3. /\ UNCHANGED <<user, accounts, source, stray, revoked, visits, relaunches>>
      /\ mainQ' = Tail(mainQ) /\ mainQ # <<>>
  BY DEF ShowWarning, PushChat, Completes
<1>4. mainQ' \in Seq(DOMAIN presses')
  BY <1>2, <1>3 DEF TypeOK
<1>5. warning' \in {0} \cup DOMAIN presses'
  BY <1>2 DEF ShowWarning, PushChat, TypeOK
<1>6. stack' = stack \/ (OnStack(i) /\ stack' = Append(stack, Chat(i)))
  BY DEF ShowWarning, PushChat
<1>7. CASE stack' = stack
  <2>1. StackShape'
    BY <1>2, <1>3, <1>7 DEF TypeOK, StackShape
  <2> QED BY <1>2, <1>3, <1>4, <1>5, <2>1 DEF TypeOK
<1>8. CASE OnStack(i) /\ stack' = Append(stack, Chat(i))
  <2>1. HasScreen /\ i \in Nat
    BY <1>8, OnStackMeans, PressTypes
  <2>2. Chat(i) \in Screen /\ Chat(i).screen = "chat" /\ Chat(i).id = i
    BY <2>1 DEF Chat, Screen
  <2>3. /\ stack' \in Seq(Screen) /\ Len(stack') = Len(stack) + 1
        /\ \A k \in 1..Len(stack) : stack'[k] = stack[k]
        /\ stack'[Len(stack) + 1] = Chat(i)
    BY <1>8, <2>2, StackTypes
  <2>4. Len(stack) \in Nat /\ Len(stack) >= 2
    BY <2>1, StackTypes DEF HasScreen
  <2>5. \A k \in 2..Len(stack') : k \in 2..Len(stack) \/ (k = Len(stack) + 1 /\ k # 2)
    BY <2>3, <2>4
  <2>6. \A k \in 2..Len(stack) :
          /\ stack[k].screen \in IF k = 2 THEN {"login", "register"} ELSE {"chat"}
          /\ stack[k].id \in IF k = 2 THEN 1..visits ELSE DOMAIN presses
    BY DEF TypeOK, StackShape
  <2>7. \A k \in 2..Len(stack) : k \in 1..Len(stack)
    BY <2>4
  <2>8. \A k \in 2..Len(stack') :
          /\ stack'[k].screen \in IF k = 2 THEN {"login", "register"} ELSE {"chat"}
          /\ stack'[k].id \in IF k = 2 THEN 1..visits' ELSE DOMAIN presses'
    BY <1>2, <1>3, <2>2, <2>3, <2>5, <2>6, <2>7
  <2>9. StackShape'
    BY <2>3, <2>4, <2>8, StackTypes DEF StackShape
  <2> QED BY <1>2, <1>3, <1>4, <1>5, <2>9 DEF TypeOK
<1> QED BY <1>6, <1>7, <1>8

LEMMA TypeStep == TypeOK /\ [Next]_vars => TypeOK'
<1> SUFFICES ASSUME TypeOK, [Next]_vars PROVE TypeOK'
  OBVIOUS
<1>1. CASE UserStep
  BY <1>1, OpenType, PressButtonType, BackType, LogOutType DEF UserStep
<1>2. CASE Relaunch
  BY <1>2, RelaunchType
<1>3. CASE \E i \in DOMAIN presses : Answers(i)
  BY <1>3, AnswersType
<1>4. CASE ForcedSignOut
  BY <1>4 DEF ForcedSignOut, TypeOK, StackShape
<1>5. CASE MainStep
  BY <1>5, MainType DEF MainStep
<1>6. CASE UNCHANGED vars
  BY <1>6 DEF vars, TypeOK, StackShape
<1> QED BY <1>1, <1>2, <1>3, <1>4, <1>5, <1>6 DEF Next

LEMMA TypeInit == Init => TypeOK
<1> SUFFICES ASSUME Init PROVE TypeOK
  OBVIOUS
<1>1. stack \in Seq(Screen) /\ Len(stack) = 1 /\ stack[1] = Welcome
  BY DEF Init, Screen, Welcome
<1>2. StackShape
  BY <1>1 DEF StackShape
<1>3. presses \in Seq(Press) /\ Len(presses) <= MaxPresses /\ mainQ \in Seq(DOMAIN presses)
  BY SignInAssumption DEF Init
<1>4. visits \in 0..MaxVisits /\ relaunches \in 0..MaxRelaunches
  BY SignInAssumption DEF Init
<1>5. user \in User \cup {NoUser} /\ accounts \in SUBSET User
  BY DEF Init
<1> QED BY <1>2, <1>3, <1>4, <1>5 DEF Init, TypeOK

(* Every variable of the sign-in screens keeps its type: the stack is always the
   welcome screen, at most one sign-in screen, and chats above it. *)
THEOREM SignInTypeCorrect == Spec => []TypeOK
BY TypeInit, TypeStep, PTL DEF Spec

-----------------------------------------------------------------------------
(* The same view of the stack after a step. *)
LEMMA OnStackAll ==
    TypeOK => \A i \in DOMAIN presses :
                OnStack(i) <=> /\ HasScreen
                               /\ presses[i].kind = stack[2].screen
                               /\ presses[i].visit = stack[2].id
BY OnStackMeans

LEMMA OnStackNext ==
    TypeOK' => \A i \in DOMAIN presses' :
                 OnStack(i)' <=> /\ HasScreen'
                                 /\ presses'[i].kind = stack'[2].screen
                                 /\ presses'[i].visit = stack'[2].id
<1>1. (TypeOK => \A i \in DOMAIN presses :
                   OnStack(i) <=> /\ HasScreen
                                  /\ presses[i].kind = stack[2].screen
                                  /\ presses[i].visit = stack[2].id)'
  BY OnStackAll, PTL
<1> QED BY <1>1

(* On the welcome screen nothing is on the stack. *)
LEMMA RootInv ==
    ASSUME TypeOK', Len(stack') = 1,
           \A i \in DOMAIN presses' : presses'[i].visit <= visits',
           OverlapsAreStray', Pending' \subseteq stray',
           user' # NoUser /\ source' # 0 => source' \in stray'
    PROVE  SignInv'
<1>1. ~HasScreen' /\ ~HasChat' /\ 3..Len(stack') = {}
  BY DEF HasScreen, HasChat
<1>2. \A i \in DOMAIN presses' : ~OnStack(i)'
  BY <1>1, OnStackNext
<1>3. PressesMatch' /\ WaitingIsOnScreen' /\ ChatsAreAlone' /\ ChatsAreStray'
  BY <1>1 DEF PressesMatch, WaitingIsOnScreen, ChatsAreAlone, ChatsAreStray
<1>4. UserInv' /\ WarningInv'
  BY <1>1, <1>2 DEF UserInv, WarningInv
<1> QED BY <1>3, <1>4 DEF SignInv, ScreenInv

LEMMA OpenKeepsInv ==
    ASSUME SignInv, NEW kind \in {"login", "register"}, OpenSignIn(kind) PROVE SignInv'
<1>1. TypeOK /\ TypeOK' /\ ScreenInv /\ UserInv
  BY OpenType DEF SignInv
<1>2. /\ Len(stack) = 1 /\ visits' = visits + 1 /\ warning' = 0
      /\ stack' = Append(stack, SignInScreen(kind, visits + 1))
      /\ UNCHANGED <<presses, mainQ, user, accounts, source, stray, revoked>>
  BY <1>1, TopMeans DEF OpenSignIn
<1>3. Len(stack') = 2 /\ stack'[2].id = visits + 1
  <2>1. SignInScreen(kind, visits + 1) \in Screen
    BY <1>1, PressTypes DEF SignInScreen, Screen
  <2>2. Len(stack') = 2 /\ stack'[2] = SignInScreen(kind, visits + 1)
    BY <1>1, <1>2, <2>1, AppendToOne, StackTypes
  <2> QED BY <2>2 DEF SignInScreen
<1>4. ~HasScreen /\ ~HasChat /\ ~HasChat' /\ 3..Len(stack') = {}
  BY <1>2, <1>3 DEF HasScreen, HasChat
<1>5. \A i \in DOMAIN presses : presses[i].visit < visits + 1
  BY <1>1, PressTypes DEF ScreenInv, PressesMatch
<1>6. \A i \in DOMAIN presses' : ~OnStack(i)'
  BY <1>1, <1>2, <1>3, <1>5, OnStackNext, PressTypes
<1>7. PressesMatch'
  BY <1>1, <1>2, <1>3, <1>5, PressTypes DEF PressesMatch
<1>8. Pending' = Pending /\ Pending \subseteq DOMAIN presses
  BY <1>2 DEF Pending
<1>9. OverlapsAreStray'
  BY <1>1, <1>2, <1>8 DEF ScreenInv, OverlapsAreStray
<1>10. WaitingIsOnScreen'
  <2>1. \A i \in Pending \ stray : HasScreen
    BY <1>1, <1>8, OnStackAll DEF ScreenInv, WaitingIsOnScreen
  <2> QED BY <1>2, <1>4, <1>8, <2>1 DEF WaitingIsOnScreen
<1>11. ChatsAreAlone' /\ ChatsAreStray'
  BY <1>4 DEF ChatsAreAlone, ChatsAreStray
<1>12. UserInv'
  BY <1>1, <1>2, <1>4, <1>6 DEF UserInv, At
<1>13. WarningInv'
  BY <1>2, <1>6 DEF WarningInv
<1> QED BY <1>1, <1>7, <1>9, <1>10, <1>11, <1>12, <1>13 DEF SignInv, ScreenInv

LEMMA PressKeepsInv ==
    ASSUME SignInv, NEW email \in User, PressButton(email) PROVE SignInv'
<1> DEFINE n == Len(presses) + 1
           p == [visit |-> Top.id, kind |-> Top.screen, email |-> email, stage |-> "sent"]
<1>1. TypeOK /\ TypeOK' /\ ScreenInv /\ UserInv /\ WarningInv
  BY PressButtonType DEF SignInv
<1>2. /\ Len(stack) = 2 /\ Top = stack[2] /\ Top.screen \in {"login", "register"}
      /\ presses' = Append(presses, p)
      /\ UNCHANGED <<stack, warning, mainQ, user, accounts, source, revoked, visits>>
  BY <1>1, TopMeans DEF PressButton
<1>3. HasScreen /\ HasScreen' /\ ~HasChat /\ 3..Len(stack') = {} /\ ~HasChat'
  <2>1. Len(stack) = 2 /\ Len(stack') = 2
    BY <1>2
  <2> QED BY <2>1 DEF HasScreen, HasChat
<1>4. stack[2].id \in 1..visits
  BY <1>1, <1>3, StackTypes
<1>5. p \in Press
  BY <1>1, <1>2, <1>4, PressTypes, SignInAssumption DEF Press, Stage, Waiting
<1>6. /\ DOMAIN presses' = DOMAIN presses \cup {n} /\ n \notin DOMAIN presses
      /\ Len(presses') = n /\ presses'[n] = p
      /\ \A i \in DOMAIN presses : presses'[i] = presses[i]
  <2>1. presses \in Seq(Press)
    BY <1>1, PressTypes
  <2> HIDE DEF p
  <2> QED BY <1>2, <1>5, <2>1, AppendProperties
<1>7. presses'[n].stage = "sent" /\ presses'[n].kind = stack[2].screen
      /\ presses'[n].visit = stack[2].id
  BY <1>2, <1>6
<1>8. Pending' = Pending \cup {n} /\ Pending \subseteq DOMAIN presses
  BY <1>6, <1>7 DEF Pending, Waiting
<1>9. /\ stray \subseteq stray'
      /\ Pending # {} => Pending' \subseteq stray'
  BY <1>6, <1>8 DEF PressButton
<1>10. PressesMatch'
  <2>1. \A i \in DOMAIN presses : presses'[i].visit <= visits'
    BY <1>1, <1>2, <1>6 DEF ScreenInv, PressesMatch
  <2>2. presses'[n].visit <= visits'
    BY <1>1, <1>2, <1>4, <1>7, PressTypes
  <2>3. \A i \in DOMAIN presses : presses'[i].visit = stack'[2].id =>
                                    presses'[i].kind = stack'[2].screen
    BY <1>1, <1>2, <1>3, <1>6 DEF ScreenInv, PressesMatch
  <2> HIDE DEF n
  <2> QED BY <1>2, <1>6, <1>7, <2>1, <2>2, <2>3 DEF PressesMatch
<1>11. OverlapsAreStray'
  BY <1>8, <1>9 DEF OverlapsAreStray
<1>12. WaitingIsOnScreen'
  <2> HIDE DEF n
  <2>1. n \in DOMAIN presses' /\ presses'[n].kind = stack'[2].screen
        /\ presses'[n].visit = stack'[2].id
    BY <1>2, <1>6, <1>7
  <2>2. \A i \in DOMAIN presses' : i = n => OnStack(i)'
    BY <1>1, <1>3, <2>1, OnStackNext
  <2>3. \A i \in Pending' \ stray' : i = n /\ i \in DOMAIN presses'
    BY <1>8, <1>9, <2>1
  <2> QED BY <2>2, <2>3 DEF WaitingIsOnScreen
<1>13. ChatsAreAlone' /\ ChatsAreStray'
  BY <1>3 DEF ChatsAreAlone, ChatsAreStray
<1>14. \A i \in DOMAIN presses : OnStack(i)' <=> OnStack(i)
  BY <1>2, <1>6 DEF OnStack
<1>15. UserInv'
  <2> HIDE DEF n, p
  <2>1. \A i \in DOMAIN presses' : At(i, "succeeded")' => i \in DOMAIN presses /\ At(i, "succeeded")
    BY <1>6, <1>7 DEF At
  <2>2. \A i \in DOMAIN presses' :
          At(i, "succeeded")' /\ OnStack(i)' => user' # NoUser \/ revoked'
    BY <1>1, <1>2, <1>14, <2>1 DEF UserInv
  <2>3. At(source, "succeeded") => At(source, "succeeded")'
    BY <1>2, <1>6 DEF At
  <2>4. user' # NoUser /\ source' # 0 /\ source' \notin stray' =>
          At(source, "succeeded")' \/ HasChat'
    BY <1>1, <1>2, <1>3, <1>9, <2>3 DEF UserInv
  <2> QED BY <1>3, <2>2, <2>4 DEF UserInv
<1>16. WarningInv'
  <2> HIDE DEF n, p
  <2>1. \A i \in DOMAIN presses' : At(i, "chat")' => i \in DOMAIN presses /\ At(i, "chat")
    BY <1>6, <1>7 DEF At
  <2>2. \A i \in DOMAIN presses' : ~(At(i, "chat")' /\ OnStack(i)')
    BY <1>1, <1>3, <1>14, <2>1 DEF WarningInv
  <2>3. warning' # 0 => presses'[warning'].visit = stack'[2].id
    BY <1>1, <1>2, <1>3, <1>6 DEF WarningInv, TypeOK
  <2> QED BY <2>2, <2>3 DEF WarningInv
<1> QED BY <1>1, <1>10, <1>11, <1>12, <1>13, <1>15, <1>16 DEF SignInv, ScreenInv

(* Leaving the sign-in screen makes what waits there stray. *)
LEMMA BackKeepsInv == ASSUME SignInv, Back PROVE SignInv'
<1>1. TypeOK /\ TypeOK' /\ ScreenInv /\ UserInv
  BY BackType DEF SignInv
<1>2. /\ Len(stack) = 2 /\ stack' = Front(stack) /\ stray' = stray \cup Pending
      /\ UNCHANGED <<warning, presses, mainQ, user, accounts, source, revoked, visits>>
  BY <1>1, TopMeans DEF Back
<1>3. Len(stack') = 1
  <2>1. stack' = SubSeq(stack, 1, 1)
    BY <1>2 DEF Front
  <2> QED BY <1>1, <1>2, <2>1, StackTypes
<1>4. Pending' = Pending /\ ~HasChat
  BY <1>2 DEF Pending, HasChat
<1>5. OverlapsAreStray'
  BY <1>2, <1>4 DEF OverlapsAreStray
<1>6. user' # NoUser /\ source' # 0 => source' \in stray'
  BY <1>1, <1>2, <1>4 DEF UserInv, At, Pending, Waiting
<1>7. \A i \in DOMAIN presses' : presses'[i].visit <= visits'
  BY <1>1, <1>2 DEF ScreenInv, PressesMatch
<1> QED BY <1>1, <1>2, <1>3, <1>4, <1>5, <1>6, <1>7, RootInv

(* What still waits when somebody logs out is stray already. *)
LEMMA LogOutKeepsInv == ASSUME SignInv, LogOutPressed PROVE SignInv'
<1>1. TypeOK /\ TypeOK' /\ ScreenInv /\ stack' = <<Welcome>>
  BY LogOutType DEF SignInv
<1>2. /\ HasChat /\ user' = NoUser
      /\ UNCHANGED <<warning, presses, mainQ, accounts, source, stray, visits>>
  BY <1>1, TopMeans DEF LogOutPressed
<1>3. 3 \in 3..Len(stack)
  BY <1>1, <1>2, StackTypes DEF HasChat
<1>4. Pending' = Pending /\ Pending \subseteq stray
  BY <1>1, <1>2, <1>3 DEF ScreenInv, ChatsAreAlone, Pending
<1>5. OverlapsAreStray'
  BY <1>2, <1>4 DEF OverlapsAreStray
<1>6. \A i \in DOMAIN presses' : presses'[i].visit <= visits'
  BY <1>1, <1>2 DEF ScreenInv, PressesMatch
<1>7. Len(stack') = 1
  BY <1>1
<1> QED BY <1>1, <1>2, <1>4, <1>5, <1>6, <1>7, RootInv

LEMMA RelaunchKeepsInv == ASSUME SignInv, Relaunch PROVE SignInv'
<1>1. TypeOK /\ TypeOK' /\ ScreenInv /\ Len(stack') = 1
  BY RelaunchType DEF SignInv
<1>2. Pending' = {} /\ visits' = visits /\ source' = 0
  BY <1>1, RelaunchType DEF Pending, Relaunch
<1>3. \A i \in DOMAIN presses' : presses'[i].visit <= visits'
  BY <1>1, <1>2, RelaunchType DEF ScreenInv, PressesMatch
<1>4. OverlapsAreStray'
  BY <1>2 DEF OverlapsAreStray
<1> QED BY <1>1, <1>2, <1>3, <1>4, RootInv

(* A press that stops waiting, or goes on waiting, on the screens as they are. *)
LEMMA QuietStep ==
    ASSUME SignInv, TypeOK', NEW i \in DOMAIN presses, NEW s \in Stage,
           presses[i].stage \in Waiting, Moves(i, s),
           stack' = stack, visits' = visits, stray' = stray
    PROVE  /\ ScreenInv'
           /\ HasScreen' = HasScreen /\ HasChat' = HasChat
           /\ \A j \in DOMAIN presses : OnStack(j)' <=> OnStack(j)
<1>1. TypeOK /\ ScreenInv
  BY DEF SignInv
<1>2. /\ DOMAIN presses' = DOMAIN presses
      /\ \A j \in DOMAIN presses : /\ presses'[j].visit = presses[j].visit
                                   /\ presses'[j].kind = presses[j].kind
                                   /\ j # i => presses'[j] = presses[j]
  BY <1>1, MovesMeans
<1>3. HasScreen' = HasScreen /\ HasChat' = HasChat
  BY DEF HasScreen, HasChat
<1>4. \A j \in DOMAIN presses : OnStack(j)' <=> OnStack(j)
  BY <1>2 DEF OnStack
<1>5. Pending' \subseteq Pending
  BY <1>2 DEF Pending
<1>6. PressesMatch'
  BY <1>1, <1>2, <1>3 DEF ScreenInv, PressesMatch
<1>7. OverlapsAreStray'
  BY <1>1, <1>5 DEF ScreenInv, OverlapsAreStray
<1>8. WaitingIsOnScreen'
  <2>1. Pending \subseteq DOMAIN presses
    BY DEF Pending
  <2> QED BY <1>1, <1>4, <1>5, <2>1 DEF ScreenInv, WaitingIsOnScreen
<1>9. ChatsAreAlone' /\ ChatsAreStray'
  BY <1>1, <1>5 DEF ScreenInv, ChatsAreAlone, ChatsAreStray
<1> QED BY <1>3, <1>4, <1>6, <1>7, <1>8, <1>9 DEF ScreenInv

LEMMA AnswersKeepInv ==
    ASSUME SignInv, NEW i \in DOMAIN presses, Answers(i) PROVE SignInv'
<1>1. TypeOK /\ TypeOK' /\ UserInv /\ WarningInv
  BY AnswersType DEF SignInv
<1>2. PICK s \in {"token", "failed", "succeeded"} : Moves(i, s)
  BY DEF Answers, Accepted, Refused, SignsIn, SignInFails
<1>3. /\ presses[i].stage \in {"sent", "token"}
      /\ UNCHANGED <<stack, warning, visits, stray>>
  BY DEF Answers, Accepted, Refused, SignsIn, SignInFails, At
<1>4. /\ DOMAIN presses' = DOMAIN presses /\ presses'[i].stage = s
      /\ \A j \in DOMAIN presses : /\ presses'[j].visit = presses[j].visit
                                   /\ j # i => presses'[j] = presses[j]
  BY <1>1, <1>2, MovesMeans DEF Stage, Waiting
<1>5. /\ ScreenInv' /\ HasScreen' = HasScreen /\ HasChat' = HasChat
      /\ \A j \in DOMAIN presses : OnStack(j)' <=> OnStack(j)
  BY <1>1, <1>2, <1>3, QuietStep DEF Stage, Waiting
<1>6. WarningInv'
  <2>1. \A j \in DOMAIN presses : At(j, "chat")' => At(j, "chat")
    BY <1>4 DEF At
  <2>2. \A j \in DOMAIN presses' : At(j, "chat")' /\ OnStack(j)' => HasChat'
    BY <1>1, <1>4, <1>5, <2>1 DEF WarningInv
  <2>3. warning' # 0 /\ HasScreen' => presses'[warning'].visit = stack'[2].id
    BY <1>1, <1>3, <1>4, <1>5 DEF WarningInv, TypeOK
  <2> QED BY <2>2, <2>3 DEF WarningInv
<1>7. CASE SignsIn(i)
  <2>1. user' # NoUser /\ source' = i
    BY <1>1, <1>7, PressTypes, SignInAssumption DEF SignsIn
  <2>2. At(i, "succeeded")'
    BY <1>4, <1>7, MovesMeans, <1>1 DEF SignsIn, At, Stage, Waiting
  <2>3. \A j : j = i => At(j, "succeeded")'
    BY <2>2
  <2> QED BY <1>1, <1>5, <1>6, <2>1, <2>2 DEF UserInv, SignInv, At
<1>8. CASE Accepted(i) \/ Refused(i) \/ SignInFails(i)
  <2>1. UNCHANGED <<user, source, revoked>> /\ presses'[i].stage \in {"token", "failed"}
    BY <1>1, <1>8, MovesMeans DEF Accepted, Refused, SignInFails, Stage, Waiting
  <2>2. \A j \in DOMAIN presses : At(j, "succeeded")' <=> At(j, "succeeded")
    BY <1>3, <1>4, <2>1 DEF At
  <2>3. At(source, "succeeded") => At(source, "succeeded")'
    BY <2>2, <1>1, <1>3, <1>4, <2>1 DEF At
  <2>4. \A j \in DOMAIN presses' :
          At(j, "succeeded")' /\ OnStack(j)' => user' # NoUser \/ revoked'
    BY <1>1, <1>4, <1>5, <2>1, <2>2 DEF UserInv
  <2>5. user' # NoUser /\ source' # 0 /\ source' \notin stray' =>
          At(source, "succeeded")' \/ HasChat'
    BY <1>1, <1>3, <1>5, <2>1, <2>3 DEF UserInv
  <2>6. HasChat' => user' # NoUser \/ revoked'
    BY <1>1, <1>5, <2>1 DEF UserInv
  <2> QED BY <1>1, <1>5, <1>6, <2>4, <2>5, <2>6 DEF UserInv, SignInv
<1> QED BY <1>7, <1>8 DEF Answers

LEMMA SignOutKeepsInv == ASSUME SignInv, ForcedSignOut PROVE SignInv'
<1>1. TypeOK /\ TypeOK' /\ ScreenInv /\ WarningInv
  BY TypeStep DEF SignInv, Next
<1>2. /\ user' = NoUser /\ revoked'
      /\ UNCHANGED <<stack, warning, presses, mainQ, source, stray, visits>>
  BY DEF ForcedSignOut
<1>3. /\ HasScreen' = HasScreen /\ HasChat' = HasChat /\ Pending' = Pending
      /\ \A i \in DOMAIN presses : OnStack(i)' <=> OnStack(i)
  BY <1>2 DEF HasScreen, HasChat, Pending, OnStack
<1>4. PressesMatch' /\ OverlapsAreStray'
  BY <1>1, <1>2, <1>3 DEF ScreenInv, PressesMatch, OverlapsAreStray
<1>5. WaitingIsOnScreen'
  <2>1. Pending \subseteq DOMAIN presses
    BY DEF Pending
  <2> QED BY <1>1, <1>2, <1>3, <2>1 DEF ScreenInv, WaitingIsOnScreen
<1>6. ChatsAreAlone' /\ ChatsAreStray'
  BY <1>1, <1>2, <1>3 DEF ScreenInv, ChatsAreAlone, ChatsAreStray
<1>7. UserInv'
  BY <1>2 DEF UserInv
<1>8. WarningInv'
  BY <1>1, <1>2, <1>3 DEF WarningInv, At
<1> QED BY <1>1, <1>4, <1>5, <1>6, <1>7, <1>8 DEF SignInv, ScreenInv

LEMMA WarningKeepsInv ==
    ASSUME SignInv, NEW i \in DOMAIN presses, ShowWarning(i) PROVE SignInv'
<1>1. TypeOK /\ TypeOK' /\ UserInv /\ WarningInv
  BY MainType DEF SignInv
<1>2. PICK s \in {"warned", "unseen"} : Moves(i, s)
  BY DEF ShowWarning
<1>3. /\ presses[i].stage = "failed"
      /\ UNCHANGED <<stack, visits, stray, user, source, revoked>>
      /\ warning' = IF OnStack(i) THEN i ELSE warning
  BY DEF ShowWarning, Completes, At
<1>4. /\ DOMAIN presses' = DOMAIN presses /\ presses'[i].stage = s
      /\ \A j \in DOMAIN presses : /\ presses'[j].visit = presses[j].visit
                                   /\ j # i => presses'[j] = presses[j]
  BY <1>1, <1>2, MovesMeans DEF Stage, Waiting
<1>5. /\ ScreenInv' /\ HasScreen' = HasScreen /\ HasChat' = HasChat
      /\ \A j \in DOMAIN presses : OnStack(j)' <=> OnStack(j)
  BY <1>1, <1>2, <1>3, QuietStep DEF Stage, Waiting
<1>6. \A j \in DOMAIN presses : /\ At(j, "chat")' => At(j, "chat")
                                /\ At(j, "succeeded")' <=> At(j, "succeeded")
  BY <1>3, <1>4 DEF At
<1>7. WarningInv'
  <2>1. \A j \in DOMAIN presses' : At(j, "chat")' /\ OnStack(j)' => HasChat'
    BY <1>1, <1>4, <1>5, <1>6 DEF WarningInv
  <2>2. warning' # 0 /\ HasScreen' => presses'[warning'].visit = stack'[2].id
    <3>1. OnStack(i) => presses'[i].visit = stack'[2].id
      BY <1>1, <1>3, <1>4, OnStackAll
    <3>2. warning # 0 /\ HasScreen => presses'[warning].visit = stack'[2].id
      BY <1>1, <1>3, <1>4 DEF WarningInv, TypeOK
    <3> QED BY <1>3, <1>5, <3>1, <3>2
  <2> QED BY <2>1, <2>2 DEF WarningInv
<1>8. UserInv'
  <2>1. At(source, "succeeded") => At(source, "succeeded")'
    BY <1>3, <1>4 DEF At
  <2>2. \A j \in DOMAIN presses' :
          At(j, "succeeded")' /\ OnStack(j)' => user' # NoUser \/ revoked'
    BY <1>1, <1>3, <1>4, <1>5, <1>6 DEF UserInv
  <2>3. user' # NoUser /\ source' # 0 /\ source' \notin stray' =>
          At(source, "succeeded")' \/ HasChat'
    BY <1>1, <1>3, <1>5, <2>1 DEF UserInv
  <2>4. HasChat' => user' # NoUser \/ revoked'
    BY <1>1, <1>3, <1>5 DEF UserInv
  <2> QED BY <2>2, <2>3, <2>4 DEF UserInv
<1> QED BY <1>1, <1>5, <1>7, <1>8 DEF SignInv

(* The segue of a screen that is gone: its press was stray already. *)
LEMMA LateChatKeepsInv ==
    ASSUME SignInv, NEW i \in DOMAIN presses, PushChat(i), ~OnStack(i) PROVE SignInv'
<1>1. TypeOK /\ TypeOK' /\ ScreenInv /\ UserInv /\ WarningInv
  BY MainType DEF SignInv
<1>2. /\ Moves(i, "unseen") /\ At(i, "succeeded")
      /\ UNCHANGED <<stack, warning, visits, stray, user, source, revoked>>
  BY DEF PushChat, Completes
<1>3. i \in stray
  BY <1>1, <1>2 DEF ScreenInv, WaitingIsOnScreen, Pending, At, Waiting
<1>4. /\ DOMAIN presses' = DOMAIN presses /\ presses'[i].stage = "unseen"
      /\ \A j \in DOMAIN presses : /\ presses'[j].visit = presses[j].visit
                                   /\ j # i => presses'[j] = presses[j]
  BY <1>1, <1>2, MovesMeans DEF Stage, Waiting
<1>5. /\ ScreenInv' /\ HasScreen' = HasScreen /\ HasChat' = HasChat
      /\ \A j \in DOMAIN presses : OnStack(j)' <=> OnStack(j)
  BY <1>1, <1>2, QuietStep DEF Stage, Waiting, At
<1>6. \A j \in DOMAIN presses : /\ At(j, "chat")' => At(j, "chat")
                                /\ At(j, "succeeded")' => At(j, "succeeded")
  BY <1>4 DEF At
<1>7. WarningInv'
  <2>1. \A j \in DOMAIN presses' : At(j, "chat")' /\ OnStack(j)' => HasChat'
    BY <1>1, <1>4, <1>5, <1>6 DEF WarningInv
  <2>2. warning' # 0 /\ HasScreen' => presses'[warning'].visit = stack'[2].id
    BY <1>1, <1>2, <1>4, <1>5 DEF WarningInv, TypeOK
  <2> QED BY <2>1, <2>2 DEF WarningInv
<1>8. UserInv'
  <2>1. source \notin stray => (At(source, "succeeded") => At(source, "succeeded")')
    BY <1>2, <1>3, <1>4 DEF At
  <2>2. \A j \in DOMAIN presses' :
          At(j, "succeeded")' /\ OnStack(j)' => user' # NoUser \/ revoked'
    BY <1>1, <1>2, <1>4, <1>5, <1>6 DEF UserInv
  <2>3. user' # NoUser /\ source' # 0 /\ source' \notin stray' =>
          At(source, "succeeded")' \/ HasChat'
    BY <1>1, <1>2, <1>5, <2>1 DEF UserInv
  <2>4. HasChat' => user' # NoUser \/ revoked'
    BY <1>1, <1>2, <1>5 DEF UserInv
  <2> QED BY <2>2, <2>3, <2>4 DEF UserInv
<1> QED BY <1>1, <1>5, <1>7, <1>8 DEF SignInv

(* The segue: a second chat only over presses that overlapped. *)
LEMMA ChatKeepsInv ==
    ASSUME SignInv, NEW i \in DOMAIN presses, PushChat(i), OnStack(i) PROVE SignInv'
<1>1. TypeOK /\ TypeOK' /\ ScreenInv /\ UserInv /\ WarningInv
  BY MainType DEF SignInv
<1>2. /\ Moves(i, "chat") /\ At(i, "succeeded") /\ warning' = 0
      /\ stack' = Append(stack, Chat(i))
      /\ UNCHANGED <<visits, stray, user, source, revoked>>
  BY DEF PushChat, Completes
<1>3. /\ DOMAIN presses' = DOMAIN presses /\ presses'[i].stage = "chat"
      /\ \A j \in DOMAIN presses : /\ presses'[j].visit = presses[j].visit
                                   /\ presses'[j].kind = presses[j].kind
                                   /\ j # i => presses'[j] = presses[j]
  BY <1>1, <1>2, MovesMeans DEF Stage, Waiting
<1>4. HasScreen /\ i \in Pending
  BY <1>1, <1>2, OnStackAll DEF Pending, At, Waiting
<1>5. /\ Len(stack) \in Nat /\ Len(stack) >= 2 /\ Len(stack') = Len(stack) + 1
      /\ \A k \in 1..Len(stack) : stack'[k] = stack[k]
      /\ stack'[Len(stack) + 1].id = i
  <2>1. stack \in Seq(Screen) /\ Len(stack) \in Nat /\ Len(stack) >= 2
    BY <1>1, <1>4, StackTypes DEF HasScreen
  <2>2. Chat(i) \in Screen /\ Chat(i).id = i
    BY <1>1, PressTypes DEF Chat, Screen
  <2> QED BY <1>2, <2>1, <2>2, AppendProperties
<1>6. HasScreen' /\ HasChat' /\ stack'[2] = stack[2]
  BY <1>5 DEF HasScreen, HasChat
<1>7. \A j \in DOMAIN presses : OnStack(j)' <=> OnStack(j)
  BY <1>1, <1>3, <1>4, <1>6, OnStackAll, OnStackNext
<1>8. Pending' \subseteq Pending \ {i} /\ Pending \subseteq DOMAIN presses
  BY <1>3 DEF Pending, Waiting
<1>9. \A j \in Pending' : j \in stray /\ i \in stray
  BY <1>1, <1>4, <1>8 DEF ScreenInv, OverlapsAreStray
<1>10. \A k \in 3..Len(stack') : \/ k \in 3..Len(stack) /\ stack'[k] = stack[k]
                                 \/ k = Len(stack) + 1 /\ stack'[k].id = i
  BY <1>5
<1>11. \A k \in 3..Len(stack) : stack[k].id \in stray /\ i \in stray
  BY <1>1, <1>4 DEF ScreenInv, ChatsAreAlone
<1>12. PressesMatch'
  BY <1>1, <1>2, <1>3, <1>4, <1>6 DEF ScreenInv, PressesMatch
<1>13. OverlapsAreStray'
  BY <1>2, <1>9 DEF OverlapsAreStray
<1>14. WaitingIsOnScreen'
  BY <1>1, <1>2, <1>7, <1>8 DEF ScreenInv, WaitingIsOnScreen
<1>15. ChatsAreAlone'
  BY <1>2, <1>9, <1>10, <1>11 DEF ChatsAreAlone
<1>16. ChatsAreStray'
  BY <1>2, <1>10, <1>11 DEF ChatsAreStray
<1>17. user # NoUser \/ revoked
  BY <1>1, <1>2 DEF UserInv
<1>18. UserInv' /\ WarningInv'
  BY <1>2, <1>6, <1>17 DEF UserInv, WarningInv
<1> QED BY <1>1, <1>12, <1>13, <1>14, <1>15, <1>16, <1>18 DEF SignInv, ScreenInv

LEMMA SignInInit == Init => SignInv
<1> SUFFICES ASSUME Init PROVE SignInv
  OBVIOUS
<1>1. TypeOK /\ DOMAIN presses = {} /\ source = 0 /\ warning = 0
  BY TypeInit, PressTypes DEF Init
<1>2. Len(stack) = 1
  BY DEF Init
<1>3. Pending = {} /\ ~HasScreen /\ ~HasChat /\ 3..Len(stack) = {}
  BY <1>1, <1>2 DEF Pending, HasScreen, HasChat
<1>4. ScreenInv
  BY <1>1, <1>3 DEF ScreenInv, PressesMatch, OverlapsAreStray, WaitingIsOnScreen,
                    ChatsAreAlone, ChatsAreStray
<1>5. UserInv /\ WarningInv
  BY <1>1, <1>3 DEF UserInv, WarningInv
<1> QED BY <1>1, <1>4, <1>5 DEF SignInv

LEMMA SignInStep == SignInv /\ [Next]_vars => SignInv'
<1> SUFFICES ASSUME SignInv, [Next]_vars PROVE SignInv'
  OBVIOUS
<1>1. CASE UserStep
  BY <1>1, OpenKeepsInv, PressKeepsInv, BackKeepsInv, LogOutKeepsInv DEF UserStep
<1>2. CASE Relaunch
  BY <1>2, RelaunchKeepsInv
<1>3. CASE \E i \in DOMAIN presses : Answers(i)
  BY <1>3, AnswersKeepInv
<1>4. CASE ForcedSignOut
  BY <1>4, SignOutKeepsInv
<1>5. CASE MainStep
  BY <1>5, WarningKeepsInv, LateChatKeepsInv, ChatKeepsInv DEF MainStep
<1>6. CASE UNCHANGED vars
  <2>1. TypeOK'
    BY <1>6, TypeStep DEF SignInv
  <2> QED BY <1>6, <2>1 DEF vars, SignInv, ScreenInv, UserInv, WarningInv, PressesMatch,
        OverlapsAreStray, WaitingIsOnScreen, ChatsAreAlone, ChatsAreStray, HasScreen,
        HasChat, Pending, OnStack, At
<1> QED BY <1>1, <1>2, <1>3, <1>4, <1>5, <1>6 DEF Next

LEMMA SignInInvariant == Spec => []SignInv
BY SignInInit, SignInStep, PTL DEF Spec

-----------------------------------------------------------------------------
(* A chat screen is open only while somebody is signed in, unless the SDK itself
   signed them out: no completion that comes late opens one. *)
THEOREM ChatNeedsUser == Spec => []ChatMeansSignedIn
<1>1. SignInv => ChatMeansSignedIn
  <2> SUFFICES ASSUME SignInv, Chats # {}, user = NoUser PROVE revoked
    BY DEF ChatMeansSignedIn
  <2>1. HasChat
    BY ChatsAre, StackTypes DEF SignInv, HasChat
  <2> QED BY <2>1 DEF SignInv, UserInv
<1> QED BY <1>1, SignInInvariant, PTL

(* On the welcome screen after a log-out somebody is signed in only by a press
   that overlapped another or was walked away from. *)
THEOREM LogOutHolds == Spec => []LoggedOutStaysOut
<1>1. SignInv => LoggedOutStaysOut
  <2> SUFFICES ASSUME SignInv, stack = <<Welcome>>, user # NoUser, source # 0,
                      source \notin stray
               PROVE  FALSE
    BY DEF LoggedOutStaysOut
  <2>1. ~HasScreen /\ ~HasChat
    BY DEF HasScreen, HasChat
  <2>2. source \in Pending \ stray /\ source \in DOMAIN presses
    BY <2>1 DEF SignInv, UserInv, At, Pending, Waiting
  <2> QED BY <2>1, <2>2, OnStackAll DEF SignInv, ScreenInv, WaitingIsOnScreen
<1> QED BY <1>1, SignInInvariant, PTL

(* Two chat screens, and so two listeners, only after presses that overlapped. *)
THEOREM ChatsOverlapped == Spec => []OneChatPerPress
<1>1. SignInv => OneChatPerPress
  <2> SUFFICES ASSUME SignInv, Cardinality(Chats) > 1, NEW k \in Chats
               PROVE  stack[k].id \in stray
    BY DEF OneChatPerPress
  <2>1. Chats = 3..Len(stack)
    BY ChatsAre DEF SignInv
  <2>2. Chats # {k}
    BY FS_Singleton
  <2>3. PICK l \in Chats : l # k
    BY <2>2
  <2> QED BY <2>1, <2>3 DEF SignInv, ScreenInv, ChatsAreStray
<1> QED BY <1>1, SignInInvariant, PTL

(* A warning on the screen is of a press made there, and no press made there has
   opened the chat. *)
THEOREM WarningsAreHonest == Spec => []WarningIsHonest
<1>1. SignInv => WarningIsHonest
  <2> SUFFICES ASSUME SignInv, warning # 0, Top.screen \in {"login", "register"}
               PROVE  /\ presses[warning].visit = Top.id
                      /\ \A i \in DOMAIN presses :
                           presses[i].visit = Top.id => presses[i].stage # "chat"
    BY DEF WarningIsHonest
  <2>1. Len(stack) = 2 /\ Top = stack[2] /\ TypeOK
    BY TopMeans DEF SignInv
  <2>2. HasScreen /\ ~HasChat
    BY <2>1 DEF HasScreen, HasChat
  <2>3. \A i \in DOMAIN presses : presses[i].visit = Top.id => OnStack(i)
    BY <2>1, <2>2, OnStackAll DEF SignInv, ScreenInv, PressesMatch
  <2> QED BY <2>1, <2>2, <2>3 DEF SignInv, WarningInv, At
<1> QED BY <1>1, SignInInvariant, PTL
=============================================================================
