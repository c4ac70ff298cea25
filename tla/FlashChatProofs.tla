--------------------------- MODULE FlashChatProofs ---------------------------
(***************************************************************************)
(* Proofs about FlashChat, for every set of documents, accounts and        *)
(* surroundings and every value of the bounds.  In order: the types; the   *)
(* table against the array; a chat that only grows, which never scrolls    *)
(* or reads past the end; the truth of completions; the text field; the    *)
(* events the listener is owed; and the refinement of MessageLifecycle.    *)
(***************************************************************************)
EXTENDS FlashChat, FiniteSetTheorems, SequenceTheorems, TLAPS

-----------------------------------------------------------------------------
(* Lemmas about the two queues. *)

(* Handing blocks to the main thread keeps the client's state well typed. *)
LEMMA PublishType ==
  ASSUME ClientTypeOK, NEW first \in Seq(Block), NEW v \in SUBSET Doc,
         NEW cur, NEW onl, Publish(first, v, cur, onl)
  PROVE  /\ mainQ' \in Seq(Block)
         /\ listener' \in {"none", "waiting", "live", "dead"}
         /\ shrunk' \in BOOLEAN
<1>1. Snapshot(v) \in Block
  BY DEF Snapshot, Block
<1>2. (IF Raises(v, cur, onl) THEN <<Snapshot(v)>> ELSE <<>>) \in Seq(Block)
  BY <1>1
<1>3. mainQ \o first \in Seq(Block)
  BY DEF ClientTypeOK
<1> QED
  BY <1>2, <1>3 DEF Publish, ClientTypeOK

(* The local view of any user is a set of documents. *)
LEMMA ViewType ==
  ASSUME ClientTypeOK
  PROVE  /\ \A u \in Account : ViewOf(cache, mutations, u) \in SUBSET Doc
         /\ View \in SUBSET Doc
<1>1. \A u \in Account : Elements(mutations[u]) \subseteq Doc
  BY DEF ClientTypeOK, Elements
<1> QED
  BY <1>1 DEF View, ViewOf, ClientTypeOK

(* Taking the next task off the worker queue leaves a queue of tasks. *)
LEMMA TaskTaken ==
  ASSUME ClientTypeOK, workerQ # <<>>
  PROVE  Head(workerQ) \in Task /\ Tail(workerQ) \in Seq(Task)
<1>1. workerQ \in Seq(Task)
  BY DEF ClientTypeOK
<1> QED
  BY <1>1, HeadTailProperties

(* Running the next block of the main queue leaves a queue of blocks. *)
LEMMA BlockTaken ==
  ASSUME ClientTypeOK, mainQ # <<>>
  PROVE  Head(mainQ) \in Block /\ Tail(mainQ) \in Seq(Block)
<1>1. mainQ \in Seq(Block)
  BY DEF ClientTypeOK
<1> QED
  BY <1>1, HeadTailProperties

(* The reloads a snapshot queues are blocks. *)
LEMMA ReloadsType ==
  ASSUME NEW D \in SUBSET Doc
  PROVE  /\ Cardinality(D) \in Nat
         /\ Reloads(D) \in Seq(Block)
<1>1. Cardinality(D) \in Nat
  BY ClientAssumption, FS_Subset, FS_CardinalityType
<1>2. Reload \in Block
  BY DEF Reload, Block
<1> QED
  BY <1>1, <1>2 DEF Reloads

-----------------------------------------------------------------------------
(* Type correctness *)

LEMMA WorkerType ==
  ASSUME TypeOK, ClientStep(WorkerStep)
  PROVE  TypeOK'
<1>a. ClientTypeOK /\ View \in SUBSET Doc
  BY ViewType DEF TypeOK
<1>b. /\ user' = user /\ onScreen' = onScreen /\ messages' = messages
      /\ shown' = shown /\ laidOut' = laidOut /\ field' = field
      /\ crashed' = crashed /\ delivered' = delivered
      /\ signIns' = signIns /\ relaunches' = relaunches
  BY DEF ClientStep, screenVars
<1>c. SUFFICES ClientTypeOK'
  BY <1>b DEF TypeOK
<1>1. CASE RunListen
  <2>1. Snapshot(View) \in Block
    BY <1>a DEF Snapshot, Block
  <2>2. mainQ' \in Seq(Block)
    <3>1. mainQ' = Append(mainQ, Snapshot(View)) \/ mainQ' = mainQ
      BY <1>1 DEF RunListen
    <3>2. mainQ \in Seq(Block)
      BY <1>a DEF ClientTypeOK
    <3>3. Append(mainQ, Snapshot(View)) \in Seq(Block)
      BY <3>2, <2>1, AppendProperties
    <3> QED
      BY <3>1, <3>2, <3>3
  <2>3. workerQ' \in Seq(Task) /\ listener' \in {"none", "waiting", "live", "dead"}
    BY <1>1, <1>a, TaskTaken DEF RunListen
  <2> QED
    BY <1>1, <1>a, <2>2, <2>3 DEF RunListen, ClientTypeOK
<1>2. CASE RunWrite
  <2> DEFINE d == Head(workerQ).doc
  <2>1. /\ Head(workerQ) \in Task /\ Head(workerQ).op = "write"
        /\ workerQ' \in Seq(Task)
    BY <1>2, <1>a, TaskTaken DEF RunWrite
  <2>2. d \in Doc
    BY <2>1 DEF Task
  <2>3. /\ mainQ' \in Seq(Block)
        /\ listener' \in {"none", "waiting", "live", "dead"}
        /\ shrunk' \in BOOLEAN
    <3>1. Publish(<<>>, View \cup {d}, current, online)
      BY <1>2 DEF RunWrite
    <3>2. View \cup {d} \in SUBSET Doc /\ <<>> \in Seq(Block)
      BY <1>a, <2>2, EmptySeq
    <3> QED
      BY <3>1, <3>2, <1>a, PublishType
  <2>4. mutations' \in [Account -> Seq(Doc)] /\ callbacks' \in SUBSET Doc
    BY <1>2, <1>a, <2>2 DEF RunWrite, ClientTypeOK
  <2> QED
    BY <1>2, <1>a, <2>1, <2>3, <2>4 DEF RunWrite, ClientTypeOK
<1>3. CASE RunUser
  <2>1. /\ Head(workerQ) \in Task /\ Head(workerQ).op = "user"
        /\ workerQ' \in Seq(Task)
    BY <1>3, <1>a, TaskTaken DEF RunUser
  <2>2. curUser' \in Account
    BY <1>3, <2>1 DEF RunUser, Task
  <2>3. ViewOf(cache, mutations, curUser') \in SUBSET Doc
    BY <2>2, <1>a, ViewType
  <2>4. /\ mainQ' \in Seq(Block)
        /\ listener' \in {"none", "waiting", "live", "dead"}
        /\ shrunk' \in BOOLEAN
    <3>1. Publish(<<>>, ViewOf(cache, mutations, curUser'), current, online)
      BY <1>3 DEF RunUser
    <3>2. <<>> \in Seq(Block)
      BY EmptySeq
    <3> QED
      BY <3>1, <3>2, <1>a, <2>3, PublishType
  <2> QED
    BY <1>3, <1>a, <2>1, <2>2, <2>4 DEF RunUser, ClientTypeOK
<1> QED
  BY <1>1, <1>2, <1>3 DEF ClientStep, WorkerStep

(* A completion is a sequence of at most one block. *)
LEMMA CompletionType ==
  ASSUME NEW d \in Doc, NEW b \in Block
  PROVE  Completion(d, b) \in Seq(Block)
  BY EmptySeq DEF Completion

(* The oldest write of the current user is a document. *)
LEMMA OldestWriteType ==
  ASSUME ClientTypeOK, mutations[curUser] # <<>>
  PROVE  /\ Head(mutations[curUser]) \in Doc
         /\ [mutations EXCEPT ![curUser] = Tail(@)] \in [Account -> Seq(Doc)]
<1>1. mutations[curUser] \in Seq(Doc)
  BY DEF ClientTypeOK
<1>2. Head(mutations[curUser]) \in Doc /\ Tail(mutations[curUser]) \in Seq(Doc)
  BY <1>1, HeadTailProperties
<1> QED
  BY <1>2 DEF ClientTypeOK

LEMMA NetworkType ==
  ASSUME TypeOK, ClientStep(NetworkStep)
  PROVE  TypeOK'
<1>a. ClientTypeOK /\ View \in SUBSET Doc
  BY ViewType DEF TypeOK
<1>b. /\ user' = user /\ onScreen' = onScreen /\ messages' = messages
      /\ shown' = shown /\ laidOut' = laidOut /\ field' = field
      /\ crashed' = crashed /\ delivered' = delivered
      /\ signIns' = signIns /\ relaunches' = relaunches
  BY DEF ClientStep, screenVars
<1>c. SUFFICES ClientTypeOK'
  BY <1>b DEF TypeOK
<1>d. <<>> \in Seq(Block)
  BY EmptySeq
<1> DEFINE Posts == /\ mainQ' \in Seq(Block)
                    /\ listener' \in {"none", "waiting", "live", "dead"}
                    /\ shrunk' \in BOOLEAN
           d == Head(mutations[curUser])
<1>1. CASE WriteAccepted
  <2>1. d \in Doc /\ mutations' \in [Account -> Seq(Doc)]
    BY <1>1, <1>a, OldestWriteType DEF WriteAccepted
  <2>2. Completion(d, Saved(d)) \in Seq(Block)
    <3>1. Saved(d) \in Block
      BY <2>1 DEF Saved, Block
    <3> QED
      BY <2>1, <3>1, CompletionType
  <2>3. Posts
    <3>1. Publish(Completion(d, Saved(d)), View, current, online)
      BY <1>1 DEF WriteAccepted
    <3> QED
      BY <3>1, <2>2, <1>a, PublishType
  <2> QED
    BY <1>1, <1>a, <2>1, <2>3 DEF WriteAccepted, ClientTypeOK
<1>2. CASE WriteRejected
  <2>1. d \in Doc /\ mutations' \in [Account -> Seq(Doc)]
    BY <1>2, <1>a, OldestWriteType DEF WriteRejected
  <2>2. Completion(d, Failed(d)) \in Seq(Block)
    <3>1. Failed(d) \in Block
      BY <2>1 DEF Failed, Block
    <3> QED
      BY <2>1, <3>1, CompletionType
  <2>3. ViewOf(cache, mutations', curUser) \in SUBSET Doc
    <3>1. mutations'[curUser] \in Seq(Doc) /\ cache \in SUBSET Doc
      BY <2>1, <1>a DEF ClientTypeOK
    <3> QED
      BY <3>1 DEF ViewOf, Elements
  <2>4. Posts
    <3>1. Publish(Completion(d, Failed(d)), ViewOf(cache, mutations', curUser),
                  current, online)
      BY <1>2 DEF WriteRejected
    <3> QED
      BY <3>1, <2>2, <2>3, <1>a, PublishType
  <2> QED
    BY <1>2, <1>a, <2>1, <2>4 DEF WriteRejected, ClientTypeOK
<1>3. ASSUME NEW e \in Doc, WatchAdds(e) PROVE ClientTypeOK'
  <2>1. Posts
    <3>1. Publish(<<>>, View \cup {e}, current, online)
      BY <1>3 DEF WatchAdds
    <3>2. View \cup {e} \in SUBSET Doc
      BY <1>a
    <3> QED
      BY <3>1, <3>2, <1>a, <1>d, PublishType
  <2> QED
    BY <1>3, <1>a, <2>1 DEF WatchAdds, ClientTypeOK
<1>4. ASSUME NEW e \in Doc, WatchRemoves(e) PROVE ClientTypeOK'
  <2>1. ViewOf(cache', mutations, curUser) \in SUBSET Doc
    <3>1. mutations[curUser] \in Seq(Doc) /\ cache' \in SUBSET Doc
      BY <1>4, <1>a DEF ClientTypeOK, WatchRemoves
    <3> QED
      BY <3>1 DEF ViewOf, Elements
  <2>2. Posts
    <3>1. Publish(<<>>, ViewOf(cache', mutations, curUser), current, online)
      BY <1>4 DEF WatchRemoves
    <3> QED
      BY <3>1, <2>1, <1>a, <1>d, PublishType
  <2> QED
    BY <1>4, <1>a, <2>2 DEF WatchRemoves, ClientTypeOK
<1>5. CASE WatchCurrent
  <2>1. Posts
    <3>1. Publish(<<>>, View, current', online)
      BY <1>5 DEF WatchCurrent
    <3> QED
      BY <3>1, <1>a, <1>d, PublishType
  <2> QED
    BY <1>5, <1>a, <2>1 DEF WatchCurrent, ClientTypeOK
<1>6. ASSUME NEW new \in {"Unknown", "Online", "Offline"}, OnlineStateChanges(new)
      PROVE  ClientTypeOK'
  <2>1. Posts
    <3>1. Publish(<<>>, View, current', new)
      BY <1>6 DEF OnlineStateChanges
    <3> QED
      BY <3>1, <1>a, <1>d, PublishType
  <2> QED
    BY <1>6, <1>a, <2>1 DEF OnlineStateChanges, ClientTypeOK
<1>7. CASE ListenFails
  <2>1. mainQ \in Seq(Block) /\ ListenError \in Block
    BY <1>a DEF ClientTypeOK, ListenError, Block
  <2>2. mainQ' \in Seq(Block)
    BY <1>7, <2>1, AppendProperties DEF ListenFails
  <2> QED
    BY <1>7, <1>a, <2>2 DEF ListenFails, ClientTypeOK
<1> QED
  BY <1>1, <1>2, <1>3, <1>4, <1>5, <1>6, <1>7 DEF ClientStep, NetworkStep

(* What a block of the main queue leaves alone. *)
LEMMA OnlyFrame ==
  ASSUME NEW v, Only(v)
  PROVE  /\ workerQ' = workerQ /\ curUser' = curUser /\ mutations' = mutations
         /\ callbacks' = callbacks /\ cache' = cache /\ current' = current
         /\ online' = online /\ listener' = listener /\ gone' = gone
         /\ refused' = refused /\ lost' = lost /\ shrunk' = shrunk
         /\ signIns' = signIns /\ relaunches' = relaunches /\ v' = v
  BY DEF Only

(* Type correctness of the steps that change only the main queue and the screen. *)
LEMMA MainQueueOnly ==
  ASSUME ClientTypeOK, mainQ' \in Seq(Block), NEW v, Only(v)
  PROVE  ClientTypeOK'
  BY OnlyFrame DEF ClientTypeOK

LEMMA MainType ==
  ASSUME TypeOK, MainStep
  PROVE  TypeOK'
<1>a. ClientTypeOK
  BY DEF TypeOK
<1>1. CASE RunSnapshot
  <2> DEFINE D == Head(mainQ).docs
  <2>1. Head(mainQ) \in Block /\ Tail(mainQ) \in Seq(Block)
    BY <1>1, <1>a, BlockTaken DEF RunSnapshot, Runs
  <2>2. D \in SUBSET Doc
    BY <1>1, <2>1 DEF RunSnapshot, Runs, Block
  <2>3. messages' \in SUBSET Doc /\ messages' \subseteq WellFormed
    BY <1>1, <2>2 DEF RunSnapshot
  <2>4. mainQ' \in Seq(Block)
    <3>1. Reloads(messages') \in Seq(Block)
      BY <2>3, ReloadsType
    <3>2. mainQ' = Tail(mainQ) \o Reloads(messages')
      BY <1>1 DEF RunSnapshot
    <3> QED
      BY <2>1, <3>1, <3>2, ConcatProperties
  <2>5. ClientTypeOK'
    BY <1>1, <1>a, <2>4, MainQueueOnly DEF RunSnapshot
  <2> QED
    BY <1>1, <2>2, <2>3, <2>5 DEF RunSnapshot, Only, TypeOK
<1>2. CASE RunError
  <2>1. mainQ' \in Seq(Block)
    BY <1>2, <1>a, BlockTaken DEF RunError, Runs
  <2>2. ClientTypeOK'
    BY <1>2, <1>a, <2>1, MainQueueOnly DEF RunError
  <2> QED
    BY <1>2, <2>2 DEF RunError, Only, TypeOK
<1>3. CASE RunReload
  <2>1. mainQ' \in Seq(Block)
    BY <1>3, <1>a, BlockTaken DEF RunReload, Runs
  <2>2. ClientTypeOK'
    BY <1>3, <1>a, <2>1, MainQueueOnly DEF RunReload
  <2> QED
    BY <1>3, <2>2 DEF RunReload, Only, TypeOK
<1>4. CASE RunSaved
  <2>1. Tail(mainQ) \in Seq(Block)
    BY <1>4, <1>a, BlockTaken DEF RunSaved, Runs
  <2>2. Clear \in Block
    BY DEF Clear, Block
  <2>3. mainQ' \in Seq(Block)
    BY <1>4, <2>1, <2>2, AppendProperties DEF RunSaved
  <2>4. ClientTypeOK'
    BY <1>4, <1>a, <2>3, MainQueueOnly DEF RunSaved
  <2> QED
    BY <1>4, <2>4 DEF RunSaved, Only, screenVars, TypeOK
<1>5. CASE RunFailed
  <2>1. mainQ' \in Seq(Block)
    BY <1>5, <1>a, BlockTaken DEF RunFailed, Runs
  <2>2. ClientTypeOK'
    BY <1>5, <1>a, <2>1, MainQueueOnly DEF RunFailed
  <2> QED
    BY <1>5, <2>2 DEF RunFailed, Only, screenVars, TypeOK
<1>6. CASE RunClear
  <2>1. mainQ' \in Seq(Block)
    BY <1>6, <1>a, BlockTaken DEF RunClear, Runs
  <2>2. ClientTypeOK'
    BY <1>6, <1>a, <2>1, MainQueueOnly DEF RunClear
  <2> QED
    BY <1>6, <2>2 DEF RunClear, Only, TypeOK
<1>7. CASE RunAuth
  <2>1. Head(mainQ) \in Block /\ Tail(mainQ) \in Seq(Block)
    BY <1>7, <1>a, BlockTaken DEF RunAuth, Runs
  <2>2. Become(Head(mainQ).user) \in Task
    BY <1>7, <2>1 DEF RunAuth, Runs, Block, Task, Become
  <2>3. workerQ \in Seq(Task)
    BY <1>a DEF ClientTypeOK
  <2>4. workerQ' \in Seq(Task)
    BY <1>7, <2>2, <2>3, AppendProperties DEF RunAuth
  <2>5. ClientTypeOK'
    BY <1>7, <1>a, <2>1, <2>4 DEF RunAuth, ClientTypeOK
  <2> QED
    BY <1>7, <2>5 DEF RunAuth, screenVars, TypeOK
<1> QED
  BY <1>1, <1>2, <1>3, <1>4, <1>5, <1>6, <1>7 DEF MainStep

LEMMA UserType ==
  ASSUME TypeOK, UserStep
  PROVE  TypeOK'
<1>a. /\ ClientTypeOK /\ mainQ \in Seq(Block) /\ workerQ \in Seq(Task)
      /\ user \in Account
  BY DEF TypeOK, ClientTypeOK
<1>s. ASSUME SignOut PROVE mainQ' \in Seq(Block) /\ user' \in Account
  <2>1. Auth(NoUser) \in Block
    BY DEF Auth, Block, Account
  <2> QED
    BY <1>a, <1>s, <2>1, AppendProperties DEF SignOut, Account
<1>1. CASE FirstLayout
  BY <1>1 DEF FirstLayout, TypeOK, ClientTypeOK, clientVars
<1>2. CASE TouchMissingRow
  BY <1>2 DEF TouchMissingRow, TypeOK, ClientTypeOK, clientVars
<1>3. ASSUME NEW text \in {"empty", "unsent", "racing"}, Type(text) PROVE TypeOK'
  BY <1>3 DEF Type, TypeOK, ClientTypeOK, clientVars
<1>4. ASSUME NEW d \in Doc, SendPressed(d) PROVE TypeOK'
  <2>1. Write(d) \in Task
    BY DEF Write, Task
  <2>2. workerQ' \in Seq(Task)
    BY <1>4, <1>a, <2>1, AppendProperties DEF SendPressed
  <2>3. ClientTypeOK'
    BY <1>4, <1>a, <2>2 DEF SendPressed, ClientTypeOK
  <2> QED
    BY <1>4, <2>3 DEF SendPressed, TypeOK
<1>5. CASE LogOutPressed
  <2>1. mainQ' \in Seq(Block) /\ user' \in Account
    BY <1>5, <1>s DEF LogOutPressed
  <2>2. ClientTypeOK'
    BY <1>5, <1>a, <2>1, MainQueueOnly DEF LogOutPressed
  <2> QED
    BY <1>5, <2>1, <2>2 DEF LogOutPressed, Only, TypeOK
<1>6. CASE ForcedSignOut
  <2>1. mainQ' \in Seq(Block) /\ user' \in Account
    BY <1>6, <1>s DEF ForcedSignOut
  <2>2. ClientTypeOK'
    BY <1>6, <1>a, <2>1, MainQueueOnly DEF ForcedSignOut
  <2> QED
    BY <1>6, <2>1, <2>2 DEF ForcedSignOut, Only, screenVars, TypeOK
<1>7. ASSUME NEW u \in User, SignInAgain(u) PROVE TypeOK'
  <2>1. Auth(u) \in Block
    BY DEF Auth, Block, Account
  <2>2. mainQ' \in Seq(Block)
    BY <1>7, <1>a, <2>1, AppendProperties DEF SignInAgain
  <2>3. ClientTypeOK'
    BY <1>7, <1>a, <2>2 DEF SignInAgain, ClientTypeOK
  <2>4. user' \in Account /\ signIns' \in 0..MaxSignIns
    BY <1>7, ChatAssumption DEF SignInAgain, Account, TypeOK
  <2> QED
    BY <1>7, <2>3, <2>4 DEF SignInAgain, screenVars, TypeOK
<1> QED
  BY <1>1, <1>2, <1>3, <1>4, <1>5, <1>6, <1>7 DEF UserStep

LEMMA RelaunchType ==
  ASSUME TypeOK, NEW u \in User, Relaunch(u)
  PROVE  TypeOK'
<1>1. workerQ' \in Seq(Task) /\ mainQ' \in Seq(Block)
  BY EmptySeq DEF Relaunch, Listen, Task
<1>2. lost' \in SUBSET Doc
  BY DEF Relaunch, Queued, TypeOK, ClientTypeOK
<1>3. ClientTypeOK'
  <2>1. /\ mutations' \in [Account -> Seq(Doc)] /\ cache' \in SUBSET Doc
        /\ gone' \in SUBSET Doc /\ refused' \in SUBSET Doc
    BY DEF Relaunch, TypeOK, ClientTypeOK
  <2>2. curUser' \in Account /\ callbacks' \in SUBSET Doc
        /\ current' \in BOOLEAN /\ shrunk' \in BOOLEAN
        /\ online' = "Unknown" /\ listener' = "none"
    BY DEF Relaunch, Account
  <2> QED
    BY <1>1, <1>2, <2>1, <2>2 DEF ClientTypeOK
<1>4. relaunches' \in 0..MaxRelaunches /\ user' \in Account
  BY ChatAssumption DEF Relaunch, TypeOK, Account
<1> QED
  BY <1>3, <1>4, ChatAssumption DEF Relaunch, TypeOK

LEMMA InitType == Init => TypeOK
<1> SUFFICES ASSUME Init PROVE TypeOK
  OBVIOUS
<1>1. workerQ \in Seq(Task) /\ mainQ \in Seq(Block)
  BY EmptySeq DEF Init, ClientInit, Listen, Task
<1>2. mutations \in [Account -> Seq(Doc)]
  BY EmptySeq DEF Init, ClientInit
<1>3. /\ curUser \in Account /\ callbacks \in SUBSET Doc
      /\ cache \in SUBSET Doc /\ current \in BOOLEAN /\ online = "Unknown"
      /\ listener = "none" /\ gone \in SUBSET Doc /\ refused \in SUBSET Doc
      /\ lost \in SUBSET Doc /\ shrunk \in BOOLEAN
  BY DEF Init, ClientInit, Account
<1>4. ClientTypeOK
  BY <1>1, <1>2, <1>3 DEF ClientTypeOK
<1>5. /\ user \in Account /\ onScreen \in BOOLEAN /\ laidOut \in BOOLEAN
      /\ field = "empty" /\ crashed = "no"
  BY <1>3 DEF Init
<1>6. /\ messages \in SUBSET (WellFormed \cup Placeholder)
      /\ shown \in SUBSET (WellFormed \cup Placeholder)
      /\ delivered \in SUBSET Doc
  BY DEF Init
<1>7. signIns \in 0..MaxSignIns /\ relaunches \in 0..MaxRelaunches
  BY ChatAssumption DEF Init
<1> QED
  BY <1>4, <1>5, <1>6, <1>7 DEF TypeOK

(* Every variable keeps its type in every behaviour of the screen and the
   client: no block or task of a kind nobody handles is ever queued. *)
THEOREM TypeCorrect == Spec => []TypeOK
<1>1. ASSUME TypeOK, [Next]_vars PROVE TypeOK'
  <2>1. CASE ClientStep(WorkerStep)
    BY <1>1, <2>1, WorkerType
  <2>2. CASE ClientStep(NetworkStep)
    BY <1>1, <2>2, NetworkType
  <2>3. CASE Alive /\ MainStep
    BY <1>1, <2>3, MainType
  <2>4. CASE Alive /\ UserStep
    BY <1>1, <2>4, UserType
  <2>5. ASSUME NEW u \in User, Relaunch(u) PROVE TypeOK'
    BY <1>1, <2>5, RelaunchType
  <2>6. CASE UNCHANGED vars
    BY <1>1, <2>6 DEF vars, clientVars, screenVars, TypeOK, ClientTypeOK
  <2> QED
    BY <1>1, <2>1, <2>2, <2>3, <2>4, <2>5, <2>6 DEF Next
<1> QED
  BY InitType, <1>1, PTL DEF Spec

-----------------------------------------------------------------------------
(* Lemmas about what is queued. *)

LEMMA ElementsOfConcat ==
  ASSUME NEW S, NEW s \in Seq(S), NEW t \in Seq(S)
  PROVE  Elements(s \o t) = Elements(s) \cup Elements(t)
<1>1. /\ DOMAIN s = 1..Len(s) /\ DOMAIN t = 1..Len(t)
      /\ Len(s) \in Nat /\ Len(t) \in Nat
  OBVIOUS
<1>2. s \o t \in Seq(S) /\ Len(s \o t) = Len(s) + Len(t)
  OBVIOUS
<1>3. DOMAIN (s \o t) = 1..(Len(s) + Len(t))
  BY <1>2
<1>4. \A i \in 1..(Len(s) + Len(t)) :
        (s \o t)[i] = IF i <= Len(s) THEN s[i] ELSE t[i - Len(s)]
  OBVIOUS
<1>5. ASSUME NEW x \in Elements(s \o t) PROVE x \in Elements(s) \cup Elements(t)
  <2>1. PICK i \in 1..(Len(s) + Len(t)) : x = (s \o t)[i]
    BY <1>3, <1>5 DEF Elements
  <2>2. CASE i <= Len(s)
    BY <2>1, <2>2, <1>1, <1>4 DEF Elements
  <2>3. CASE ~(i <= Len(s))
    <3>1. i - Len(s) \in 1..Len(t)
      BY <2>1, <2>3, <1>1
    <3>2. x = t[i - Len(s)]
      BY <2>1, <2>3, <1>4
    <3> QED
      BY <3>1, <3>2, <1>1 DEF Elements
  <2> QED
    BY <2>2, <2>3
<1>6. ASSUME NEW x \in Elements(s) PROVE x \in Elements(s \o t)
  <2>1. PICK i \in 1..Len(s) : x = s[i]
    BY <1>1, <1>6 DEF Elements
  <2>2. i \in 1..(Len(s) + Len(t)) /\ (s \o t)[i] = x
    BY <2>1, <1>1, <1>4
  <2> QED
    BY <2>2, <1>3 DEF Elements
<1>7. ASSUME NEW x \in Elements(t) PROVE x \in Elements(s \o t)
  <2>1. PICK i \in 1..Len(t) : x = t[i]
    BY <1>1, <1>7 DEF Elements
  <2>2. i + Len(s) \in 1..(Len(s) + Len(t)) /\ ~(i + Len(s) <= Len(s))
        /\ (i + Len(s)) - Len(s) = i
    BY <2>1, <1>1
  <2>3. (s \o t)[i + Len(s)] = x
    BY <2>1, <2>2, <1>4
  <2> QED
    BY <2>2, <2>3, <1>3 DEF Elements
<1> QED
  BY <1>5, <1>6, <1>7

LEMMA ElementsOfAppend ==
  ASSUME NEW S, NEW s \in Seq(S), NEW e \in S
  PROVE  Elements(Append(s, e)) = Elements(s) \cup {e}
<1>1. /\ Append(s, e) \in Seq(S)
      /\ DOMAIN Append(s, e) = 1..(Len(s) + 1) /\ DOMAIN s = 1..Len(s)
      /\ Len(s) \in Nat
      /\ \A i \in 1..Len(s) : Append(s, e)[i] = s[i]
      /\ Append(s, e)[Len(s) + 1] = e
  OBVIOUS
<1>2. 1..(Len(s) + 1) = (1..Len(s)) \cup {Len(s) + 1}
  BY <1>1
<1> QED
  BY <1>1, <1>2 DEF Elements

LEMMA ElementsOfTail ==
  ASSUME NEW S, NEW s \in Seq(S), s # <<>>
  PROVE  /\ Elements(s) = {Head(s)} \cup Elements(Tail(s))
<1>1. /\ Tail(s) \in Seq(S) /\ Len(s) \in Nat /\ Len(s) >= 1
      /\ DOMAIN s = 1..Len(s) /\ DOMAIN Tail(s) = 1..(Len(s) - 1)
      /\ Head(s) = s[1]
      /\ \A i \in 1..(Len(s) - 1) : Tail(s)[i] = s[i + 1]
  OBVIOUS
<1>2. ASSUME NEW x \in Elements(s) PROVE x \in {Head(s)} \cup Elements(Tail(s))
  <2>1. PICK i \in 1..Len(s) : x = s[i]
    BY <1>1, <1>2 DEF Elements
  <2>2. CASE i = 1
    BY <2>1, <2>2, <1>1
  <2>3. CASE i # 1
    <3>1. i - 1 \in 1..(Len(s) - 1) /\ (i - 1) + 1 = i
      BY <2>1, <2>3, <1>1
    <3>2. x = Tail(s)[i - 1]
      BY <2>1, <3>1, <1>1
    <3> QED
      BY <3>1, <3>2, <1>1 DEF Elements
  <2> QED
    BY <2>2, <2>3
<1>3. Head(s) \in Elements(s)
  BY <1>1 DEF Elements
<1>4. ASSUME NEW x \in Elements(Tail(s)) PROVE x \in Elements(s)
  <2>1. PICK i \in 1..(Len(s) - 1) : x = Tail(s)[i]
    BY <1>1, <1>4 DEF Elements
  <2>2. i + 1 \in 1..Len(s) /\ x = s[i + 1]
    BY <2>1, <1>1
  <2> QED
    BY <2>2, <1>1 DEF Elements
<1> QED
  BY <1>2, <1>3, <1>4

-----------------------------------------------------------------------------
(* What a step of the client does to the main queue: it appends blocks that
   are not reloads, its events carry the new view, and unless a view lost a
   document or the listener failed, the view grows and no error is appended. *)

Appended(s) ==
  /\ mainQ' = mainQ \o s
  /\ \A b \in Elements(s) : /\ b.kind # "reload"
                            /\ b.kind = "snapshot" => b.docs = View'
  /\ ~shrunk' => /\ ~shrunk /\ View \subseteq View'
                 /\ \A b \in Elements(s) : b.kind # "error"

ClientAppends == \E s \in Seq(Block) : Appended(s)

LEMMA PublishAppends ==
  ASSUME ClientTypeOK, NEW first \in Seq(Block), NEW v \in SUBSET Doc,
         \A b \in Elements(first) : b.kind \in {"saved", "failed"},
         NEW cur, NEW onl, Publish(first, v, cur, onl), View' = v
  PROVE  ClientAppends
<1> DEFINE t == IF Raises(v, cur, onl) THEN <<Snapshot(v)>> ELSE <<>>
<1>1. Snapshot(v) \in Block /\ Snapshot(v).kind = "snapshot" /\ Snapshot(v).docs = v
  BY DEF Snapshot, Block
<1>2. t \in Seq(Block)
  BY <1>1
<1>3. \A b \in Elements(t) : b = Snapshot(v)
  BY DEF Elements
<1> HIDE DEF t
<1>4. mainQ \in Seq(Block)
  BY DEF ClientTypeOK
<1>5. mainQ' = mainQ \o first \o t
  BY DEF Publish, t
<1>6. mainQ' = mainQ \o (first \o t) /\ first \o t \in Seq(Block)
  <2>1. \A s1, s2, s3 \in Seq(Block) : (s1 \o s2) \o s3 = s1 \o (s2 \o s3)
    BY ConcatAssociative
  <2>2. first \o t \in Seq(Block)
    BY <1>2
  <2> QED BY <1>2, <1>4, <1>5, <2>1, <2>2
<1>7. Elements(first \o t) = Elements(first) \cup Elements(t)
  BY <1>2, ElementsOfConcat
<1>8. ~shrunk' => ~shrunk /\ View \subseteq View'
  BY DEF Publish
<1>9. Appended(first \o t)
  BY <1>1, <1>3, <1>6, <1>7, <1>8 DEF Appended
<1> QED
  BY <1>6, <1>9 DEF ClientAppends

(* Steps that post one event of their own, and steps that post nothing. *)
LEMMA AppendAppends ==
  ASSUME ClientTypeOK, NEW b \in Block, mainQ' = Append(mainQ, b),
         b.kind # "reload", b.kind = "snapshot" => b.docs = View',
         ~shrunk' => ~shrunk /\ View \subseteq View' /\ b.kind # "error"
  PROVE  ClientAppends
<1>1. mainQ \in Seq(Block)
  BY DEF ClientTypeOK
<1>2. <<b>> \in Seq(Block) /\ mainQ' = mainQ \o <<b>>
  BY <1>1, AppendIsConcat
<1>3. Elements(<<b>>) = {b}
  BY DEF Elements
<1>4. Appended(<<b>>)
  BY <1>2, <1>3 DEF Appended
<1> QED
  BY <1>2, <1>4 DEF ClientAppends

LEMMA StutterAppends ==
  ASSUME ClientTypeOK, mainQ' = mainQ, shrunk' = shrunk, View \subseteq View'
  PROVE  ClientAppends
<1>1. mainQ \in Seq(Block)
  BY DEF ClientTypeOK
<1>2. mainQ' = mainQ \o <<>> /\ <<>> \in Seq(Block)
  BY <1>1, ConcatEmptySeq, EmptySeq
<1>3. Elements(<<>>) = {}
  BY DEF Elements
<1>4. Appended(<<>>)
  BY <1>2, <1>3 DEF Appended
<1> QED
  BY <1>2, <1>4 DEF ClientAppends

LEMMA WorkerAppends ==
  ASSUME TypeOK, WorkerStep
  PROVE  ClientAppends
<1>a. ClientTypeOK /\ View \in SUBSET Doc
  BY ViewType DEF TypeOK
<1>b. <<>> \in Seq(Block) /\ \A b \in Elements(<<>>) : b.kind \in {"saved", "failed"}
  BY EmptySeq DEF Elements
<1>1. CASE RunListen
  <2>1. Snapshot(View) \in Block /\ Snapshot(View).kind = "snapshot"
        /\ Snapshot(View).docs = View
    BY <1>a DEF Snapshot, Block
  <2>2. View' = View /\ shrunk' = shrunk
    BY <1>1 DEF RunListen, View, ViewOf
  <2>3. CASE mainQ' = mainQ
    BY <1>a, <2>2, <2>3, StutterAppends
  <2>4. CASE mainQ' = Append(mainQ, Snapshot(View))
    BY <1>a, <2>1, <2>2, <2>4, AppendAppends
  <2> QED
    BY <1>1, <2>3, <2>4 DEF RunListen
<1>2. CASE RunWrite
  <2> DEFINE d == Head(workerQ).doc
  <2>1. d \in Doc
    <3>1. Head(workerQ) \in Task /\ Head(workerQ).op = "write"
      BY <1>2, <1>a, TaskTaken DEF RunWrite
    <3> QED
      BY <3>1 DEF Task
  <2>2. mutations[curUser] \in Seq(Doc) /\ curUser \in Account
    BY <1>a DEF ClientTypeOK
  <2>3. mutations'[curUser] = Append(mutations[curUser], d)
    BY <1>2, <1>a, <2>2 DEF RunWrite, ClientTypeOK
  <2>4. Elements(mutations'[curUser]) = Elements(mutations[curUser]) \cup {d}
    BY <2>1, <2>2, <2>3, ElementsOfAppend
  <2>5. View' = View \cup {d}
    BY <1>2, <2>4 DEF RunWrite, View, ViewOf
  <2>6. Publish(<<>>, View \cup {d}, current, online)
    BY <1>2 DEF RunWrite
  <2>7. View \cup {d} \in SUBSET Doc
    BY <1>a, <2>1
  <2> QED
    BY <1>a, <1>b, <2>5, <2>6, <2>7, PublishAppends
<1>3. CASE RunUser
  <2>1. curUser' \in Account
    <3>1. Head(workerQ) \in Task /\ Head(workerQ).op = "user"
      BY <1>3, <1>a, TaskTaken DEF RunUser
    <3> QED
      BY <1>3, <3>1 DEF RunUser, Task
  <2>2. ViewOf(cache, mutations, curUser') \in SUBSET Doc
    BY <1>a, <2>1, ViewType
  <2>3. View' = ViewOf(cache, mutations, curUser')
    BY <1>3 DEF RunUser, View, ViewOf
  <2>4. Publish(<<>>, ViewOf(cache, mutations, curUser'), current, online)
    BY <1>3 DEF RunUser
  <2> QED
    BY <1>a, <1>b, <2>2, <2>3, <2>4, PublishAppends
<1> QED
  BY <1>1, <1>2, <1>3 DEF WorkerStep

LEMMA NetworkAppends ==
  ASSUME TypeOK, NetworkStep
  PROVE  ClientAppends
<1>a. ClientTypeOK /\ View \in SUBSET Doc
  BY ViewType DEF TypeOK
<1>b. <<>> \in Seq(Block) /\ \A b \in Elements(<<>>) : b.kind \in {"saved", "failed"}
  BY EmptySeq DEF Elements
<1>c. mutations[curUser] \in Seq(Doc) /\ curUser \in Account /\ cache \in SUBSET Doc
  BY <1>a DEF ClientTypeOK
<1> DEFINE d == Head(mutations[curUser])
<1>1. CASE WriteAccepted
  <2>1. d \in Doc /\ mutations[curUser] # <<>>
    BY <1>1, <1>a, OldestWriteType DEF WriteAccepted
  <2>2. mutations'[curUser] = Tail(mutations[curUser])
    BY <1>1, <1>a, <1>c DEF WriteAccepted, ClientTypeOK
  <2>3. Elements(mutations[curUser]) = {d} \cup Elements(mutations'[curUser])
    BY <1>c, <2>1, <2>2, ElementsOfTail
  <2>4. View' = View
    BY <1>1, <2>3 DEF WriteAccepted, View, ViewOf
  <2>5. Saved(d) \in Block /\ Saved(d).kind = "saved"
    BY <2>1 DEF Saved, Block
  <2>6. Completion(d, Saved(d)) \in Seq(Block)
    BY <2>1, <2>5, CompletionType
  <2>7. \A b \in Elements(Completion(d, Saved(d))) : b.kind \in {"saved", "failed"}
    BY <2>5 DEF Completion, Elements
  <2>8. Publish(Completion(d, Saved(d)), View, current, online)
    BY <1>1 DEF WriteAccepted
  <2> QED
    BY <1>a, <2>4, <2>6, <2>7, <2>8, PublishAppends
<1>2. CASE WriteRejected
  <2>1. d \in Doc /\ mutations[curUser] # <<>>
        /\ mutations' \in [Account -> Seq(Doc)]
    BY <1>2, <1>a, OldestWriteType DEF WriteRejected
  <2>2. ViewOf(cache, mutations', curUser) \in SUBSET Doc
    <3>1. mutations'[curUser] \in Seq(Doc)
      BY <1>c, <2>1
    <3> QED
      BY <1>c, <3>1 DEF ViewOf, Elements
  <2>3. View' = ViewOf(cache, mutations', curUser)
    BY <1>2 DEF WriteRejected, View, ViewOf
  <2>5. Failed(d) \in Block /\ Failed(d).kind = "failed"
    BY <2>1 DEF Failed, Block
  <2>6. Completion(d, Failed(d)) \in Seq(Block)
    BY <2>1, <2>5, CompletionType
  <2>7. \A b \in Elements(Completion(d, Failed(d))) : b.kind \in {"saved", "failed"}
    BY <2>5 DEF Completion, Elements
  <2>8. Publish(Completion(d, Failed(d)), ViewOf(cache, mutations', curUser),
                current, online)
    BY <1>2 DEF WriteRejected
  <2> QED
    BY <1>a, <2>2, <2>3, <2>6, <2>7, <2>8, PublishAppends
<1>3. ASSUME NEW e \in Doc, WatchAdds(e) PROVE ClientAppends
  <2>1. View' = View \cup {e} /\ View \cup {e} \in SUBSET Doc
    BY <1>a, <1>3 DEF WatchAdds, View, ViewOf
  <2>2. Publish(<<>>, View \cup {e}, current, online)
    BY <1>3 DEF WatchAdds
  <2> QED
    BY <1>a, <1>b, <2>1, <2>2, PublishAppends
<1>4. ASSUME NEW e \in Doc, WatchRemoves(e) PROVE ClientAppends
  <2>1. ViewOf(cache', mutations, curUser) \in SUBSET Doc
    <3>1. cache' \in SUBSET Doc
      BY <1>c, <1>4 DEF WatchRemoves
    <3> QED
      BY <1>c, <3>1 DEF ViewOf, Elements
  <2>2. View' = ViewOf(cache', mutations, curUser)
    BY <1>4 DEF WatchRemoves, View, ViewOf
  <2>3. Publish(<<>>, ViewOf(cache', mutations, curUser), current, online)
    BY <1>4 DEF WatchRemoves
  <2> QED
    BY <1>a, <1>b, <2>1, <2>2, <2>3, PublishAppends
<1>5. CASE WatchCurrent
  <2>1. View' = View /\ Publish(<<>>, View, current', online)
    BY <1>5 DEF WatchCurrent, View, ViewOf
  <2> QED
    BY <1>a, <1>b, <2>1, PublishAppends
<1>6. ASSUME NEW new \in {"Unknown", "Online", "Offline"}, OnlineStateChanges(new)
      PROVE  ClientAppends
  <2>1. View' = View /\ Publish(<<>>, View, current', new)
    BY <1>6 DEF OnlineStateChanges, View, ViewOf
  <2> QED
    BY <1>a, <1>b, <2>1, PublishAppends
<1>7. CASE ListenFails
  <2>1. ListenError \in Block /\ ListenError.kind = "error" /\ shrunk'
        /\ mainQ' = Append(mainQ, ListenError)
    BY <1>7 DEF ListenFails, ListenError, Block
  <2> QED
    BY <1>a, <2>1, AppendAppends
<1> QED
  BY <1>1, <1>2, <1>3, <1>4, <1>5, <1>6, <1>7 DEF NetworkStep

-----------------------------------------------------------------------------
(* The table and the array *)

ReloadQueued == \E b \in Elements(mainQ) : b.kind = "reload"

(* A block that is not the next one stays queued. *)
LEMMA ReloadStays ==
  ASSUME TypeOK, mainQ # <<>>, Head(mainQ).kind # "reload", ReloadQueued
  PROVE  \E b \in Elements(Tail(mainQ)) : b.kind = "reload"
<1>1. mainQ \in Seq(Block)
  BY DEF TypeOK, ClientTypeOK
<1>2. Elements(mainQ) = {Head(mainQ)} \cup Elements(Tail(mainQ))
  BY <1>1, ElementsOfTail
<1> QED
  BY <1>2 DEF ReloadQueued

(* Every message appended queues a reload. *)
LEMMA ReloadsQueued ==
  ASSUME NEW D \in SUBSET Doc, D # {}
  PROVE  \E b \in Elements(Reloads(D)) : b.kind = "reload"
<1>1. IsFiniteSet(D)
  BY ClientAssumption, FS_Subset
<1>2. Cardinality(D) \in Nat /\ Cardinality(D) # 0
  BY <1>1, FS_CardinalityType, FS_EmptySet
<1>3. 1 \in DOMAIN Reloads(D) /\ Reloads(D)[1] = Reload
  BY <1>2 DEF Reloads
<1> QED
  BY <1>3 DEF Elements, Reload

(* What RunSnapshot leaves in the array and in the queue. *)
LEMMA SnapshotRuns ==
  ASSUME TypeOK, RunSnapshot
  PROVE  /\ mainQ # <<>> /\ Head(mainQ).kind = "snapshot"
         /\ Head(mainQ).docs \in SUBSET Doc
         /\ messages' = Head(mainQ).docs \cap WellFormed
         /\ messages' \in SUBSET Doc
         /\ Tail(mainQ) \in Seq(Block) /\ Reloads(messages') \in Seq(Block)
         /\ mainQ' = Tail(mainQ) \o Reloads(messages')
         /\ Elements(mainQ') = Elements(Tail(mainQ)) \cup Elements(Reloads(messages'))
<1>1. mainQ # <<>> /\ Head(mainQ).kind = "snapshot"
      /\ messages' = Head(mainQ).docs \cap WellFormed
      /\ mainQ' = Tail(mainQ) \o Reloads(messages')
  BY DEF RunSnapshot, Runs
<1>2. Head(mainQ) \in Block /\ Tail(mainQ) \in Seq(Block)
  BY <1>1, BlockTaken DEF TypeOK
<1>3. Head(mainQ).docs \in SUBSET Doc
  BY <1>1, <1>2 DEF Block
<1>4. messages' \in SUBSET Doc /\ Reloads(messages') \in Seq(Block)
  BY <1>1, <1>3, ReloadsType
<1>5. Elements(mainQ') = Elements(Tail(mainQ)) \cup Elements(Reloads(messages'))
  <2>1. Elements(Tail(mainQ) \o Reloads(messages'))
          = Elements(Tail(mainQ)) \cup Elements(Reloads(messages'))
    BY <1>2, <1>4, ElementsOfConcat
  <2> QED
    BY <1>1, <2>1
<1> QED
  BY <1>1, <1>2, <1>3, <1>4, <1>5

(* A step of the client leaves the screen alone and keeps what is queued. *)
LEMMA ClientKeepsReload ==
  ASSUME TypeOK, ClientStep(WorkerStep) \/ ClientStep(NetworkStep)
  PROVE  /\ UNCHANGED screenVars
         /\ ClientAppends
         /\ ReloadQueued <=> ReloadQueued'
<1>1. UNCHANGED screenVars /\ ClientAppends
  BY WorkerAppends, NetworkAppends DEF ClientStep
<1>2. PICK s \in Seq(Block) : Appended(s)
  BY <1>1 DEF ClientAppends
<1>3. mainQ \in Seq(Block)
  BY DEF TypeOK, ClientTypeOK
<1>4. Elements(mainQ') = Elements(mainQ) \cup Elements(s)
  BY <1>2, <1>3, ElementsOfConcat DEF Appended
<1>5. \A b \in Elements(s) : b.kind # "reload"
  BY <1>2 DEF Appended
<1> QED
  BY <1>1, <1>4, <1>5 DEF ReloadQueued

(* Signing out and in appends a block that is no reload. *)
LEMMA AuthAppended ==
  ASSUME TypeOK, NEW u \in Account, mainQ' = Append(mainQ, Auth(u))
  PROVE  /\ Auth(u) \in Block /\ Auth(u).kind = "auth"
         /\ Elements(mainQ') = Elements(mainQ) \cup {Auth(u)}
<1>1. mainQ \in Seq(Block)
  BY DEF TypeOK, ClientTypeOK
<1>2. Auth(u) \in Block /\ Auth(u).kind = "auth"
  BY DEF Auth, Block
<1> QED
  BY <1>1, <1>2, ElementsOfAppend

LEMMA LagInit == Init => TableLagsOnlyBriefly
  BY DEF Init, TableLagsOnlyBriefly

LEMMA LagMain ==
  ASSUME TypeOK, TableLagsOnlyBriefly, MainStep
  PROVE  TableLagsOnlyBriefly'
<1>a. mainQ # <<>>
  BY DEF MainStep, RunSnapshot, RunError, RunReload, RunSaved, RunFailed,
         RunClear, RunAuth, Runs
<1>b. Tail(mainQ) \in Seq(Block)
  BY <1>a, BlockTaken DEF TypeOK
<1>1. CASE RunSnapshot
  <2>1. CASE messages' = {}
    BY <2>1 DEF TableLagsOnlyBriefly
  <2>2. CASE messages' # {}
    <3>1. \E b \in Elements(Reloads(messages')) : b.kind = "reload"
      BY <1>1, <2>2, SnapshotRuns, ReloadsQueued
    <3>2. Elements(Reloads(messages')) \subseteq Elements(mainQ')
      BY <1>1, SnapshotRuns
    <3> QED
      BY <3>1, <3>2 DEF TableLagsOnlyBriefly
  <2> QED
    BY <2>1, <2>2
<1>2. CASE RunError
  BY <1>2 DEF RunError, TableLagsOnlyBriefly
<1>3. CASE RunReload
  BY <1>3 DEF RunReload, Only, TableLagsOnlyBriefly
<1>4. ASSUME Head(mainQ).kind # "reload", Elements(Tail(mainQ)) \subseteq Elements(mainQ'),
             messages' = messages, shown' = shown, laidOut' = laidOut
      PROVE  TableLagsOnlyBriefly'
  <2>1. ReloadQueued => \E b \in Elements(mainQ') : b.kind = "reload"
    BY <1>a, <1>4, ReloadStays
  <2> QED
    BY <1>4, <2>1 DEF TableLagsOnlyBriefly, ReloadQueued
<1>5. CASE RunSaved
  <2>1. Clear \in Block
    BY DEF Clear, Block
  <2>2. Elements(mainQ') = Elements(Tail(mainQ)) \cup {Clear}
    <3>1. mainQ' = Append(Tail(mainQ), Clear)
      BY <1>5 DEF RunSaved
    <3>2. \A q \in Seq(Block) : Elements(Append(q, Clear)) = Elements(q) \cup {Clear}
      BY <2>1, ElementsOfAppend
    <3> QED
      BY <1>b, <3>1, <3>2
  <2>3. Head(mainQ).kind # "reload"
    BY <1>5 DEF RunSaved, Runs
  <2>4. messages' = messages /\ shown' = shown /\ laidOut' = laidOut
    BY <1>5 DEF RunSaved, Only, screenVars
  <2> QED
    BY <1>4, <2>2, <2>3, <2>4
<1>6. CASE RunFailed
  <2>1. mainQ' = Tail(mainQ) /\ Head(mainQ).kind # "reload"
    BY <1>6 DEF RunFailed, Runs
  <2>2. messages' = messages /\ shown' = shown /\ laidOut' = laidOut
    BY <1>6 DEF RunFailed, Only, screenVars
  <2> QED
    BY <1>4, <2>1, <2>2
<1>7. CASE RunClear
  <2>1. mainQ' = Tail(mainQ) /\ Head(mainQ).kind # "reload"
    BY <1>7 DEF RunClear, Runs
  <2>2. messages' = messages /\ shown' = shown /\ laidOut' = laidOut
    BY <1>7 DEF RunClear, Only
  <2> QED
    BY <1>4, <2>1, <2>2
<1>8. CASE RunAuth
  <2>1. mainQ' = Tail(mainQ) /\ Head(mainQ).kind # "reload"
    BY <1>8 DEF RunAuth, Runs
  <2>2. messages' = messages /\ shown' = shown /\ laidOut' = laidOut
    BY <1>8 DEF RunAuth, screenVars
  <2> QED
    BY <1>4, <2>1, <2>2
<1> QED
  BY <1>1, <1>2, <1>3, <1>5, <1>6, <1>7, <1>8 DEF MainStep

(* A tap leaves the main queue as it is or appends the notice of Auth. *)
LEMMA UserQueue ==
  ASSUME TypeOK, UserStep
  PROVE  \/ mainQ' = mainQ
         \/ \E u \in Account : mainQ' = Append(mainQ, Auth(u))
<1>1. CASE FirstLayout \/ TouchMissingRow
  BY <1>1 DEF FirstLayout, TouchMissingRow, clientVars
<1>2. ASSUME NEW text, Type(text) PROVE mainQ' = mainQ
  BY <1>2 DEF Type, clientVars
<1>3. ASSUME NEW d \in Doc, SendPressed(d) PROVE mainQ' = mainQ
  BY <1>3 DEF SendPressed
<1>4. CASE LogOutPressed \/ ForcedSignOut
  BY <1>4 DEF LogOutPressed, ForcedSignOut, SignOut, Account
<1>5. ASSUME NEW u \in User, SignInAgain(u)
      PROVE  u \in Account /\ mainQ' = Append(mainQ, Auth(u))
  BY <1>5 DEF SignInAgain, Account
<1> QED
  BY <1>1, <1>2, <1>3, <1>4, <1>5 DEF UserStep

LEMMA UserKeepsReload ==
  ASSUME TypeOK, UserStep
  PROVE  ReloadQueued <=> ReloadQueued'
<1>1. CASE mainQ' = mainQ
  BY <1>1 DEF ReloadQueued
<1>2. ASSUME NEW u \in Account, mainQ' = Append(mainQ, Auth(u))
      PROVE  ReloadQueued <=> ReloadQueued'
  BY <1>2, AuthAppended DEF ReloadQueued
<1> QED
  BY <1>1, <1>2, UserQueue

(* A tap changes no row of the array, and the table's rows only by a layout. *)
LEMMA UserScreen ==
  ASSUME TypeOK, UserStep
  PROVE  /\ messages' = messages /\ delivered' = delivered
         /\ crashed' = "scroll" => crashed = "scroll"
         /\ \/ shown' = messages
            \/ shown' = shown /\ laidOut' = laidOut
<1>1. CASE FirstLayout
  BY <1>1 DEF FirstLayout
<1>2. CASE TouchMissingRow
  BY <1>2 DEF TouchMissingRow
<1>3. ASSUME NEW text, Type(text)
      PROVE  UNCHANGED <<messages, delivered, crashed, shown, laidOut>>
  BY <1>3 DEF Type
<1>4. ASSUME NEW d \in Doc, SendPressed(d)
      PROVE  UNCHANGED <<messages, delivered, crashed, shown, laidOut>>
  BY <1>4 DEF SendPressed
<1>5. CASE LogOutPressed
  BY <1>5 DEF LogOutPressed, Only
<1>6. CASE ForcedSignOut
  BY <1>6 DEF ForcedSignOut, Only, screenVars
<1>7. ASSUME NEW u \in User, SignInAgain(u)
      PROVE  UNCHANGED <<messages, delivered, crashed, shown, laidOut>>
  BY <1>7 DEF SignInAgain, screenVars
<1> QED
  BY <1>1, <1>2, <1>3, <1>4, <1>5, <1>6, <1>7 DEF UserStep

LEMMA LagStep ==
  ASSUME TypeOK, TableLagsOnlyBriefly, [Next]_vars
  PROVE  TableLagsOnlyBriefly'
<1>1. CASE ClientStep(WorkerStep) \/ ClientStep(NetworkStep)
  <2>1. UNCHANGED screenVars /\ (ReloadQueued <=> ReloadQueued')
    BY <1>1, ClientKeepsReload
  <2> QED
    BY <2>1 DEF TableLagsOnlyBriefly, ReloadQueued, screenVars
<1>2. CASE Alive /\ MainStep
  BY <1>2, LagMain
<1>3. CASE Alive /\ UserStep
  <2>1. ReloadQueued <=> ReloadQueued'
    BY <1>3, UserKeepsReload
  <2>2. messages' = messages /\ (shown' = messages \/ (shown' = shown /\ laidOut' = laidOut))
    BY <1>3, UserScreen
  <2> QED
    BY <2>1, <2>2 DEF TableLagsOnlyBriefly, ReloadQueued
<1>4. ASSUME NEW u \in User, Relaunch(u) PROVE TableLagsOnlyBriefly'
  BY <1>4 DEF Relaunch, TableLagsOnlyBriefly
<1>5. CASE UNCHANGED vars
  BY <1>5 DEF vars, clientVars, screenVars, TableLagsOnlyBriefly
<1> QED
  BY <1>1, <1>2, <1>3, <1>4, <1>5 DEF Next

(* The rows the table counts on and the array differ only while a reload is
   queued or the array is empty, whatever snapshots, errors, sign-outs and
   restarts come between (ChatViewController.swift:38-59). *)
THEOREM TableFollowsArray == Spec => []TableLagsOnlyBriefly
<1>1. Init => TypeOK /\ TableLagsOnlyBriefly
  BY InitType, LagInit
<1>2. TypeOK /\ TableLagsOnlyBriefly /\ [Next]_vars => TableLagsOnlyBriefly'
  BY LagStep
<1> QED
  BY <1>1, <1>2, TypeCorrect, PTL DEF Spec

-----------------------------------------------------------------------------
(* A chat that only grows.  While no view has lost a document, the events
   queued form a chain: each contains the ones before it, the oldest contains
   what the screen was last given, and the newest is within the view. *)

Chain(Q, D, V) ==
  /\ D \subseteq V
  /\ \A i \in DOMAIN Q :
       /\ Q[i].kind # "error"
       /\ Q[i].kind = "snapshot" => D \subseteq Q[i].docs /\ Q[i].docs \subseteq V
  /\ \A i, j \in DOMAIN Q :
       i < j /\ Q[i].kind = "snapshot" /\ Q[j].kind = "snapshot"
         => Q[i].docs \subseteq Q[j].docs

LEMMA ChainConcat ==
  ASSUME NEW Q \in Seq(Block), NEW s \in Seq(Block), NEW D, NEW V, NEW W,
         Chain(Q, D, V), V \subseteq W,
         \A b \in Elements(s) : b.kind # "error" /\ (b.kind = "snapshot" => b.docs = W)
  PROVE  Chain(Q \o s, D, W)
<1> DEFINE R == Q \o s
<1>1. /\ DOMAIN Q = 1..Len(Q) /\ DOMAIN s = 1..Len(s)
      /\ Len(Q) \in Nat /\ Len(s) \in Nat
      /\ DOMAIN R = 1..(Len(Q) + Len(s))
  BY ConcatProperties
<1>2. \A i \in DOMAIN R : R[i] = IF i <= Len(Q) THEN Q[i] ELSE s[i - Len(Q)]
  BY <1>1
<1>3. ASSUME NEW i \in DOMAIN R
      PROVE  \/ i \in DOMAIN Q /\ R[i] = Q[i]
             \/ ~(i <= Len(Q)) /\ R[i] \in Elements(s)
  <2>1. CASE i <= Len(Q)
    <3>1. i \in DOMAIN Q
      BY <1>1, <1>3, <2>1
    <3> QED
      BY <1>2, <1>3, <2>1, <3>1
  <2>2. CASE ~(i <= Len(Q))
    <3>1. i - Len(Q) \in DOMAIN s
      BY <1>1, <1>3, <2>2
    <3>2. R[i] = s[i - Len(Q)]
      BY <1>2, <1>3, <2>2
    <3> QED
      BY <2>2, <3>1, <3>2 DEF Elements
  <2> QED
    BY <2>1, <2>2
<1> HIDE DEF R
<1>4. D \subseteq W
  BY DEF Chain
<1>5. ASSUME NEW i \in DOMAIN R
      PROVE  /\ R[i].kind # "error"
             /\ R[i].kind = "snapshot" => D \subseteq R[i].docs /\ R[i].docs \subseteq W
  BY <1>3, <1>4, <1>5 DEF Chain
<1>6. ASSUME NEW i \in DOMAIN R, NEW j \in DOMAIN R, i < j,
             R[i].kind = "snapshot", R[j].kind = "snapshot"
      PROVE  R[i].docs \subseteq R[j].docs
  <2>1. CASE R[j] \in Elements(s)
    BY <1>5, <1>6, <2>1
  <2>2. CASE j \in DOMAIN Q /\ R[j] = Q[j] /\ ~(R[j] \in Elements(s))
    <3>1. i <= Len(Q)
      BY <1>1, <1>6, <2>2
    <3>2. i \in DOMAIN Q /\ R[i] = Q[i]
      BY <1>3, <3>1
    <3> QED
      BY <1>6, <2>2, <3>2 DEF Chain
  <2> QED
    BY <1>3, <2>1, <2>2
<1> QED
  BY <1>4, <1>5, <1>6 DEF Chain, R

LEMMA ChainTail ==
  ASSUME NEW Q \in Seq(Block), Q # <<>>, NEW D, NEW V, Chain(Q, D, V)
  PROVE  /\ Head(Q).kind # "error"
         /\ Head(Q).kind = "snapshot" =>
              D \subseteq Head(Q).docs /\ Chain(Tail(Q), Head(Q).docs, V)
         /\ Head(Q).kind # "snapshot" => Chain(Tail(Q), D, V)
<1>1. /\ Len(Q) \in Nat /\ Len(Q) >= 1
      /\ DOMAIN Q = 1..Len(Q) /\ DOMAIN Tail(Q) = 1..(Len(Q) - 1)
      /\ Head(Q) = Q[1] /\ 1 \in DOMAIN Q
      /\ \A i \in 1..(Len(Q) - 1) : Tail(Q)[i] = Q[i + 1]
  OBVIOUS
<1>2. ASSUME NEW i \in DOMAIN Tail(Q)
      PROVE  i + 1 \in DOMAIN Q /\ Tail(Q)[i] = Q[i + 1] /\ 1 < i + 1
  BY <1>1, <1>2
<1>3. \A i, j \in DOMAIN Tail(Q) :
        i < j /\ Tail(Q)[i].kind = "snapshot" /\ Tail(Q)[j].kind = "snapshot"
          => Tail(Q)[i].docs \subseteq Tail(Q)[j].docs
  <2>1. \A i, j \in DOMAIN Tail(Q) : i < j => i + 1 < j + 1
    BY <1>1
  <2> QED
    BY <1>2, <2>1 DEF Chain
<1>4. Head(Q).kind # "error"
  BY <1>1 DEF Chain
<1>5. ASSUME Head(Q).kind = "snapshot"
      PROVE  D \subseteq Head(Q).docs /\ Chain(Tail(Q), Head(Q).docs, V)
  <2>1. D \subseteq Head(Q).docs /\ Head(Q).docs \subseteq V
    BY <1>1, <1>5 DEF Chain
  <2>2. \A i \in DOMAIN Tail(Q) :
          /\ Tail(Q)[i].kind # "error"
          /\ Tail(Q)[i].kind = "snapshot" =>
               Head(Q).docs \subseteq Tail(Q)[i].docs /\ Tail(Q)[i].docs \subseteq V
    BY <1>1, <1>2, <1>5 DEF Chain
  <2> QED
    BY <1>3, <2>1, <2>2 DEF Chain
<1>6. ASSUME Head(Q).kind # "snapshot" PROVE Chain(Tail(Q), D, V)
  <2>1. \A i \in DOMAIN Tail(Q) :
          /\ Tail(Q)[i].kind # "error"
          /\ Tail(Q)[i].kind = "snapshot" =>
               D \subseteq Tail(Q)[i].docs /\ Tail(Q)[i].docs \subseteq V
    BY <1>2 DEF Chain
  <2>2. D \subseteq V
    BY DEF Chain
  <2> QED
    BY <1>3, <2>1, <2>2 DEF Chain
<1> QED
  BY <1>4, <1>5, <1>6

(* Blocks that are no events leave the chain as it is. *)
LEMMA ChainAppend ==
  ASSUME NEW Q \in Seq(Block), NEW s \in Seq(Block), NEW D, NEW V, Chain(Q, D, V),
         \A b \in Elements(s) : b.kind \notin {"error", "snapshot"}
  PROVE  Chain(Q \o s, D, V)
  BY ChainConcat

(* The strengthening: the array holds the placeholders until the first event,
   and after it what the last event held; a reload is queued only behind a
   message; the rows are placeholders or messages of the array. *)
ArrayMatches ==
  /\ \/ messages = Placeholder /\ ~ReloadQueued
     \/ messages = delivered \cap WellFormed
  /\ ReloadQueued => messages # {}
  /\ shown \cap Placeholder # {} \/ shown \subseteq messages

Growing == Chain(mainQ, delivered, View) /\ ArrayMatches

GrowingChat == ~shrunk => Growing

LEMMA GrowingInit == Init => GrowingChat
<1> SUFFICES ASSUME Init PROVE Growing
  BY DEF GrowingChat
<1>1. mainQ = <<>> /\ delivered = {} /\ messages = Placeholder /\ shown = {}
  BY DEF Init, ClientInit
<1>2. DOMAIN mainQ = {} /\ Elements(mainQ) = {}
  BY <1>1 DEF Elements
<1> QED
  BY <1>1, <1>2 DEF Growing, Chain, ArrayMatches, ReloadQueued

LEMMA GrowingClient ==
  ASSUME TypeOK, GrowingChat, ClientStep(WorkerStep) \/ ClientStep(NetworkStep)
  PROVE  GrowingChat'
<1> SUFFICES ASSUME ~shrunk' PROVE Growing'
  BY DEF GrowingChat
<1>1. UNCHANGED screenVars /\ ClientAppends /\ (ReloadQueued <=> ReloadQueued')
  BY ClientKeepsReload
<1>2. PICK s \in Seq(Block) : Appended(s)
  BY <1>1 DEF ClientAppends
<1>3. ~shrunk /\ View \subseteq View' /\ mainQ' = mainQ \o s
      /\ \A b \in Elements(s) : /\ b.kind # "error"
                                /\ b.kind = "snapshot" => b.docs = View'
  BY <1>2 DEF Appended
<1>4. Growing
  BY <1>3 DEF GrowingChat
<1>5. mainQ \in Seq(Block)
  BY DEF TypeOK, ClientTypeOK
<1>6. Chain(mainQ \o s, delivered, View')
  BY <1>3, <1>4, <1>5, ChainConcat DEF Growing
<1>7. Chain(mainQ', delivered', View')
  BY <1>1, <1>3, <1>6 DEF screenVars
<1>8. ArrayMatches'
  BY <1>1, <1>4 DEF Growing, ArrayMatches, screenVars
<1> QED
  BY <1>7, <1>8 DEF Growing

(* The main thread does not touch the view. *)
LEMMA MainView ==
  ASSUME MainStep
  PROVE  View' = View /\ shrunk' = shrunk
<1>1. /\ cache' = cache /\ mutations' = mutations /\ curUser' = curUser
      /\ shrunk' = shrunk
  BY DEF MainStep, RunSnapshot, RunError, RunReload, RunSaved, RunFailed,
         RunClear, RunAuth, Only
<1> QED
  BY <1>1 DEF View, ViewOf

LEMMA GrowingMain ==
  ASSUME TypeOK, GrowingChat, MainStep
  PROVE  GrowingChat'
<1> SUFFICES ASSUME ~shrunk' PROVE Growing'
  BY DEF GrowingChat
<1>a. View' = View /\ Growing
  BY MainView DEF GrowingChat
<1>b. mainQ # <<>>
  BY DEF MainStep, RunSnapshot, RunError, RunReload, RunSaved, RunFailed,
         RunClear, RunAuth, Runs
<1>c. mainQ \in Seq(Block) /\ Tail(mainQ) \in Seq(Block)
  BY <1>b, BlockTaken DEF TypeOK, ClientTypeOK
<1>d. /\ Head(mainQ).kind # "error"
      /\ Head(mainQ).kind = "snapshot" => /\ delivered \subseteq Head(mainQ).docs
                                          /\ Chain(Tail(mainQ), Head(mainQ).docs, View)
      /\ Head(mainQ).kind # "snapshot" => Chain(Tail(mainQ), delivered, View)
  BY <1>a, <1>b, <1>c, ChainTail DEF Growing
<1>1. CASE RunSnapshot
  <2> DEFINE D == Head(mainQ).docs
             r == Reloads(messages')
  <2>1. /\ Head(mainQ).kind = "snapshot" /\ messages' = D \cap WellFormed
        /\ r \in Seq(Block) /\ mainQ' = Tail(mainQ) \o r
        /\ Elements(mainQ') = Elements(Tail(mainQ)) \cup Elements(r)
    BY <1>1, SnapshotRuns
  <2>2. delivered' = D /\ shown' = shown
    BY <1>1 DEF RunSnapshot, Only
  <2>3. delivered \subseteq D /\ Chain(Tail(mainQ), D, View)
    BY <1>d, <2>1
  <2>4. \A b \in Elements(r) : b.kind = "reload"
    BY DEF Elements, Reloads, Reload
  <2>5. Chain(mainQ', D, View)
    <3>1. Chain(Tail(mainQ) \o r, D, View)
      BY <1>c, <2>1, <2>3, <2>4, ChainAppend
    <3> QED
      BY <2>1, <3>1
  <2>6. Elements(Tail(mainQ)) \subseteq Elements(mainQ)
    BY <1>b, <1>c, ElementsOfTail
  <2>7. ReloadQueued' => messages' # {}
    <3>1. ASSUME ReloadQueued, messages = delivered \cap WellFormed PROVE messages' # {}
      <4>1. messages # {}
        BY <1>a, <3>1 DEF Growing, ArrayMatches
      <4> QED
        BY <2>1, <2>3, <3>1, <4>1
    <3>2. ASSUME ReloadQueued PROVE messages' # {}
      BY <1>a, <3>1, <3>2 DEF Growing, ArrayMatches
    <3>3. ASSUME ~ReloadQueued, ReloadQueued' PROVE messages' # {}
      <4>1. \E b \in Elements(r) : b.kind = "reload"
        BY <2>1, <2>6, <3>3 DEF ReloadQueued
      <4>2. messages' = {} => Elements(r) = {}
        BY FS_EmptySet DEF Elements, Reloads
      <4> QED
        BY <4>1, <4>2
    <3> QED
      BY <3>2, <3>3
  <2>8. shown' \cap Placeholder # {} \/ shown' \subseteq messages'
    <3>1. CASE messages = Placeholder
      BY <1>a, <2>2, <3>1 DEF Growing, ArrayMatches
    <3>2. CASE messages = delivered \cap WellFormed
      BY <1>a, <2>1, <2>2, <2>3, <3>2 DEF Growing, ArrayMatches
    <3> QED
      BY <1>a, <3>1, <3>2 DEF Growing, ArrayMatches
  <2>9. messages' = delivered' \cap WellFormed
    BY <2>1, <2>2
  <2>10. ArrayMatches'
    BY <2>7, <2>8, <2>9 DEF ArrayMatches
  <2> QED
    BY <1>a, <2>2, <2>5, <2>10 DEF Growing
<1>2. CASE RunError
  BY <1>2, <1>d DEF RunError, Runs
<1>3. CASE RunReload
  <2>1. Head(mainQ).kind = "reload" /\ mainQ' = Tail(mainQ)
        /\ shown' = messages /\ messages' = messages /\ delivered' = delivered
    BY <1>3 DEF RunReload, Runs, Only
  <2>2. Elements(mainQ) = {Head(mainQ)} \cup Elements(Tail(mainQ))
    BY <1>b, <1>c, ElementsOfTail
  <2>3. ReloadQueued
    BY <2>1, <2>2 DEF ReloadQueued
  <2>4. messages = delivered \cap WellFormed /\ messages # {}
    BY <1>a, <2>3 DEF Growing, ArrayMatches
  <2>5. ArrayMatches'
    BY <2>1, <2>4 DEF ArrayMatches
  <2>6. Chain(mainQ', delivered', View')
    BY <1>a, <1>d, <2>1
  <2> QED
    BY <2>5, <2>6 DEF Growing
<1>4. ASSUME messages' = messages, delivered' = delivered, shown' = shown,
             Head(mainQ).kind \notin {"snapshot", "reload"},
             mainQ' = Tail(mainQ) \/ mainQ' = Append(Tail(mainQ), Clear)
      PROVE  Growing'
  <2>1. Clear \in Block /\ Clear.kind = "clear"
    BY DEF Clear, Block
  <2>2. PICK s \in Seq(Block) : /\ mainQ' = Tail(mainQ) \o s
                                /\ \A b \in Elements(s) : b.kind = "clear"
    <3>1. CASE mainQ' = Tail(mainQ)
      <4>1. mainQ' = Tail(mainQ) \o <<>> /\ <<>> \in Seq(Block) /\ Elements(<<>>) = {}
        BY <1>c, <3>1, ConcatEmptySeq, EmptySeq DEF Elements
      <4> QED
        BY <4>1
    <3>2. CASE mainQ' = Append(Tail(mainQ), Clear)
      <4>1. \A q \in Seq(Block) : Append(q, Clear) = q \o <<Clear>>
        BY <2>1, AppendIsConcat
      <4>2. <<Clear>> \in Seq(Block) /\ Elements(<<Clear>>) = {Clear}
        BY <2>1 DEF Elements
      <4>3. mainQ' = Tail(mainQ) \o <<Clear>>
        BY <1>c, <3>2, <4>1
      <4> QED
        BY <2>1, <4>2, <4>3
    <3> QED
      BY <1>4, <3>1, <3>2
  <2>3. Chain(mainQ', delivered', View')
    <3>1. Chain(Tail(mainQ), delivered, View)
      BY <1>4, <1>d
    <3>2. \A q \in Seq(Block) : Chain(q, delivered, View) => Chain(q \o s, delivered, View)
      BY <2>2, ChainAppend
    <3> QED
      BY <1>a, <1>c, <1>4, <2>2, <3>1, <3>2
  <2>4. ReloadQueued' => ReloadQueued
    <3>1. \A q \in Seq(Block) : Elements(q \o s) = Elements(q) \cup Elements(s)
      BY ElementsOfConcat
    <3>2. Elements(mainQ') = Elements(Tail(mainQ)) \cup Elements(s)
      BY <1>c, <2>2, <3>1
    <3>3. Elements(Tail(mainQ)) \subseteq Elements(mainQ)
      BY <1>b, <1>c, ElementsOfTail
    <3> QED
      BY <2>2, <3>2, <3>3 DEF ReloadQueued
  <2>5. ArrayMatches'
    BY <1>a, <1>4, <2>4 DEF Growing, ArrayMatches
  <2> QED
    BY <2>3, <2>5 DEF Growing
<1>5. CASE RunSaved
  BY <1>4, <1>5 DEF RunSaved, Runs, Only, screenVars
<1>6. CASE RunFailed
  BY <1>4, <1>6 DEF RunFailed, Runs, Only, screenVars
<1>7. CASE RunClear
  BY <1>4, <1>7 DEF RunClear, Runs, Only
<1>8. CASE RunAuth
  BY <1>4, <1>8 DEF RunAuth, Runs, screenVars
<1> QED
  BY <1>1, <1>2, <1>3, <1>5, <1>6, <1>7, <1>8 DEF MainStep

LEMMA GrowingUser ==
  ASSUME TypeOK, GrowingChat, UserStep
  PROVE  GrowingChat'
<1>1. cache' = cache /\ mutations' = mutations /\ curUser' = curUser
      /\ shrunk' = shrunk
  BY DEF UserStep, FirstLayout, TouchMissingRow, Type, SendPressed, LogOutPressed,
         ForcedSignOut, SignInAgain, Only, clientVars
<1>2. View' = View
  BY <1>1 DEF View, ViewOf
<1> SUFFICES ASSUME ~shrunk' PROVE Growing'
  BY DEF GrowingChat
<1>3. Growing
  BY <1>1 DEF GrowingChat
<1>4. messages' = messages /\ delivered' = delivered
      /\ (shown' = messages \/ shown' = shown)
  BY UserScreen
<1>5. ArrayMatches'
  <2>1. ReloadQueued <=> ReloadQueued'
    BY UserKeepsReload
  <2> QED
    BY <1>3, <1>4, <2>1 DEF Growing, ArrayMatches
<1>6. mainQ \in Seq(Block)
  BY DEF TypeOK, ClientTypeOK
<1>7. Chain(mainQ', delivered, View)
  <2>1. CASE mainQ' = mainQ
    BY <1>3, <2>1 DEF Growing
  <2>2. ASSUME NEW u \in Account, mainQ' = Append(mainQ, Auth(u))
        PROVE  Chain(mainQ', delivered, View)
    <3>1. Auth(u) \in Block /\ Auth(u).kind = "auth"
      BY <2>2, AuthAppended
    <3>2. <<Auth(u)>> \in Seq(Block) /\ Elements(<<Auth(u)>>) = {Auth(u)}
      BY <3>1 DEF Elements
    <3>3. mainQ' = mainQ \o <<Auth(u)>>
      BY <1>6, <2>2, <3>1, AppendIsConcat
    <3>4. Chain(mainQ \o <<Auth(u)>>, delivered, View)
      BY <1>3, <1>6, <3>1, <3>2, ChainAppend DEF Growing
    <3> QED
      BY <3>3, <3>4
  <2> QED
    BY <2>1, <2>2, UserQueue
<1>8. Chain(mainQ', delivered', View')
  BY <1>2, <1>4, <1>7
<1> QED
  BY <1>5, <1>8 DEF Growing

LEMMA GrowingRelaunch ==
  ASSUME NEW u \in User, Relaunch(u)
  PROVE  GrowingChat'
<1>1. mainQ' = <<>> /\ delivered' = {} /\ messages' = Placeholder /\ shown' = {}
  BY DEF Relaunch
<1>2. DOMAIN mainQ' = {} /\ Elements(mainQ') = {}
  BY <1>1 DEF Elements
<1>3. Chain(mainQ', delivered', View')
  BY <1>1, <1>2 DEF Chain
<1>4. ArrayMatches'
  BY <1>1, <1>2 DEF ArrayMatches, ReloadQueued
<1> QED
  BY <1>3, <1>4 DEF GrowingChat, Growing

LEMMA GrowingStep ==
  ASSUME TypeOK, GrowingChat, [Next]_vars
  PROVE  GrowingChat'
<1>1. CASE ClientStep(WorkerStep) \/ ClientStep(NetworkStep)
  BY <1>1, GrowingClient
<1>2. CASE Alive /\ MainStep
  BY <1>2, GrowingMain
<1>3. CASE Alive /\ UserStep
  BY <1>3, GrowingUser
<1>4. ASSUME NEW u \in User, Relaunch(u) PROVE GrowingChat'
  BY <1>4, GrowingRelaunch
<1>5. CASE UNCHANGED vars
  <2>1. /\ mainQ' = mainQ /\ delivered' = delivered /\ messages' = messages
        /\ shown' = shown /\ shrunk' = shrunk /\ cache' = cache
        /\ mutations' = mutations /\ curUser' = curUser
    BY <1>5 DEF vars, clientVars, screenVars
  <2>2. View' = View /\ (ReloadQueued <=> ReloadQueued')
    BY <2>1 DEF View, ViewOf, ReloadQueued
  <2>3. Chain(mainQ, delivered, View) => Chain(mainQ', delivered', View')
    BY <2>1, <2>2
  <2>4. ArrayMatches => ArrayMatches'
    BY <2>1, <2>2 DEF ArrayMatches
  <2> QED
    BY <2>1, <2>3, <2>4 DEF GrowingChat, Growing
<1> QED
  BY <1>1, <1>2, <1>3, <1>4, <1>5 DEF Next

(* Only a block or a tap can make the app crash. *)
LEMMA CrashOrigin ==
  ASSUME TypeOK, [Next]_vars, crashed' # crashed
  PROVE  \/ Alive /\ RunReload
         \/ Alive /\ TouchMissingRow
         \/ crashed' = "no"
<1>1. CASE ClientStep(WorkerStep) \/ ClientStep(NetworkStep)
  BY <1>1 DEF ClientStep, screenVars
<1>2. CASE Alive /\ MainStep
  BY <1>2 DEF MainStep, RunSnapshot, RunError, RunSaved, RunFailed, RunClear,
              RunAuth, Only, screenVars
<1>3. CASE Alive /\ UserStep
  BY <1>3 DEF UserStep, FirstLayout, Type, SendPressed, LogOutPressed,
              ForcedSignOut, SignInAgain, Only, screenVars
<1>4. ASSUME NEW u \in User, Relaunch(u) PROVE crashed' = "no"
  BY <1>4 DEF Relaunch
<1>5. CASE UNCHANGED vars
  BY <1>5 DEF vars, screenVars
<1> QED
  BY <1>1, <1>2, <1>3, <1>4, <1>5 DEF Next

(* A crashed process takes no step but to be opened again. *)
LEMMA CrashedStays ==
  ASSUME [Next]_vars, ~Alive, crashed' = crashed
  PROVE  shrunk' = shrunk /\ shown' = shown
<1>1. ASSUME NEW u \in User, Relaunch(u) PROVE FALSE
  BY <1>1 DEF Relaunch, Alive
<1>2. UNCHANGED vars
  BY <1>1 DEF Next, ClientStep
<1> QED
  BY <1>2 DEF vars, clientVars, screenVars

(* scrollToRow (ChatViewController.swift:50-54) is called with row -1 only after
   a view lost a document or the listener failed. *)
THEOREM ScrollIsSafe == Spec => []ScrollFailsOnlyAfterLoss
<1>1. Init => GrowingChat /\ ScrollFailsOnlyAfterLoss
  BY GrowingInit DEF Init, ScrollFailsOnlyAfterLoss
<1>2. ASSUME TypeOK, GrowingChat, ScrollFailsOnlyAfterLoss, [Next]_vars
      PROVE  ScrollFailsOnlyAfterLoss'
  <2>1. CASE crashed' = crashed
    <3>1. CASE Alive
      BY <2>1, <3>1 DEF ScrollFailsOnlyAfterLoss, Alive
    <3>2. CASE ~Alive
      BY <1>2, <2>1, <3>2, CrashedStays DEF ScrollFailsOnlyAfterLoss
    <3> QED
      BY <3>1, <3>2
  <2>2. CASE crashed' # crashed /\ Alive /\ RunReload
    <3>1. mainQ # <<>> /\ Head(mainQ).kind = "reload" /\ mainQ \in Seq(Block)
      BY <1>2, <2>2 DEF RunReload, Runs, TypeOK, ClientTypeOK
    <3>2. ReloadQueued
      BY <3>1, ElementsOfTail DEF ReloadQueued
    <3>3. crashed' = "scroll" => messages = {}
      BY <2>2 DEF RunReload
    <3>4. messages = {} => shrunk
      BY <1>2, <3>2 DEF GrowingChat, Growing, ArrayMatches
    <3>5. shrunk' = shrunk
      BY <2>2 DEF RunReload, Only
    <3> QED
      BY <3>3, <3>4, <3>5 DEF ScrollFailsOnlyAfterLoss
  <2>3. CASE crashed' # crashed /\ Alive /\ TouchMissingRow
    BY <2>3 DEF TouchMissingRow, ScrollFailsOnlyAfterLoss
  <2>4. CASE crashed' = "no"
    BY <2>4 DEF ScrollFailsOnlyAfterLoss
  <2> QED
    BY <1>2, <2>1, <2>2, <2>3, <2>4, CrashOrigin
<1>3. TypeOK /\ GrowingChat /\ [Next]_vars => GrowingChat'
  BY GrowingStep
<1> QED
  BY <1>1, <1>2, <1>3, TypeCorrect, PTL DEF Spec

(* cellForRowAt (ChatViewController.swift:103-105) is asked for a row the array
   lacks only after such a loss, or while the two placeholders still have rows. *)
THEOREM RowsAreSafe == Spec => []RowFailsOnlyAfterLoss
<1>1. Init => GrowingChat /\ RowFailsOnlyAfterLoss
  BY GrowingInit DEF Init, RowFailsOnlyAfterLoss
<1>2. ASSUME TypeOK, GrowingChat, RowFailsOnlyAfterLoss, [Next]_vars
      PROVE  RowFailsOnlyAfterLoss'
  <2>1. CASE crashed' = crashed
    <3>1. CASE Alive
      BY <2>1, <3>1 DEF RowFailsOnlyAfterLoss, Alive
    <3>2. CASE ~Alive
      BY <1>2, <2>1, <3>2, CrashedStays DEF RowFailsOnlyAfterLoss
    <3> QED
      BY <3>1, <3>2
  <2>2. CASE crashed' # crashed /\ Alive /\ RunReload
    BY <2>2 DEF RunReload, RowFailsOnlyAfterLoss
  <2>3. CASE crashed' # crashed /\ Alive /\ TouchMissingRow
    <3>1. Cardinality(shown) > Cardinality(messages)
          /\ shown' = shown /\ shrunk' = shrunk
      BY <2>3 DEF TouchMissingRow, clientVars
    <3>2. IsFiniteSet(messages)
      <4>1. IsFiniteSet(WellFormed \cup Placeholder)
        <5>1. IsFiniteSet(WellFormed) /\ IsFiniteSet(Placeholder)
          BY ClientAssumption, ChatAssumption, FS_Subset
        <5> QED
          BY <5>1, FS_Union
      <4>2. messages \subseteq WellFormed \cup Placeholder
        BY <1>2 DEF TypeOK
      <4> QED
        BY <4>1, <4>2, FS_Subset
    <3>3. ~(shown \subseteq messages)
      <4>1. ASSUME shown \subseteq messages PROVE FALSE
        <5>1. IsFiniteSet(shown) /\ Cardinality(shown) <= Cardinality(messages)
          BY <3>2, <4>1, FS_Subset
        <5>2. Cardinality(shown) \in Nat /\ Cardinality(messages) \in Nat
          BY <3>2, <5>1, FS_CardinalityType
        <5> QED
          BY <3>1, <5>1, <5>2
      <4> QED
        BY <4>1
    <3> QED
      BY <1>2, <3>1, <3>3 DEF GrowingChat, Growing, ArrayMatches, RowFailsOnlyAfterLoss
  <2>4. CASE crashed' = "no"
    BY <2>4 DEF RowFailsOnlyAfterLoss
  <2> QED
    BY <1>2, <2>1, <2>2, <2>3, <2>4, CrashOrigin
<1>3. TypeOK /\ GrowingChat /\ [Next]_vars => GrowingChat'
  BY GrowingStep
<1> QED
  BY <1>1, <1>2, <1>3, TypeCorrect, PTL DEF Spec

-----------------------------------------------------------------------------
(* Completions on the main queue: every write has at most one. *)

IsCompletion(b) == b.kind \in {"saved", "failed"}

Completions(Q) == {b \in Elements(Q) : IsCompletion(b)}

OncePerWrite(Q) ==
  \A i, j \in DOMAIN Q :
    IsCompletion(Q[i]) /\ IsCompletion(Q[j]) /\ Q[i].doc = Q[j].doc => i = j

Truthful(b) == /\ b.kind = "saved" => b.doc \in cache \cup gone
               /\ b.kind = "failed" => b.doc \in refused

WrittenOnce(W) ==
  \A i, j \in DOMAIN W : W[i].op = "write" /\ W[i] = W[j] => i = j

(* The strengthening: a write waits once for the worker queue, then for the
   backend, then on the main queue, and never in two of these places. *)
TruthInv ==
  /\ callbacks \subseteq Stored
  /\ OncePerWrite(mainQ)
  /\ \A b \in Completions(mainQ) : Truthful(b) /\ b.doc \notin callbacks \cup Queued
  /\ callbacks \cap Queued = {}
  /\ WrittenOnce(workerQ)

LEMMA TruthIsTold == TruthInv => CompletionsAreTruthful
<1> SUFFICES ASSUME TruthInv PROVE CompletionsAreTruthful
  OBVIOUS
<1>1. \A i \in DOMAIN mainQ : mainQ[i] \in Elements(mainQ)
  BY DEF Elements
<1> QED
  BY <1>1 DEF TruthInv, CompletionsAreTruthful, Completions, IsCompletion, Truthful,
              OncePerWrite

(* Positions of a longer queue. *)
LEMMA ConcatPlaces ==
  ASSUME NEW S, NEW Q \in Seq(S), NEW s \in Seq(S), NEW i \in DOMAIN (Q \o s)
  PROVE  \/ i \in DOMAIN Q /\ (Q \o s)[i] = Q[i]
         \/ /\ i \notin DOMAIN Q /\ i - Len(Q) \in DOMAIN s
            /\ (Q \o s)[i] = s[i - Len(Q)]
<1>1. /\ Len(Q) \in Nat /\ Len(s) \in Nat
      /\ DOMAIN Q = 1..Len(Q) /\ DOMAIN s = 1..Len(s)
      /\ Len(Q \o s) = Len(Q) + Len(s) /\ DOMAIN (Q \o s) = 1..(Len(Q) + Len(s))
  BY ConcatProperties
<1>2. i \in Nat /\ i >= 1 /\ i <= Len(Q) + Len(s)
  BY <1>1
<1>3. CASE i <= Len(Q)
  BY <1>1, <1>2, <1>3, ConcatProperties
<1>4. CASE i > Len(Q)
  <2>1. i - Len(Q) \in 1..Len(s) /\ i \notin 1..Len(Q)
    BY <1>1, <1>2, <1>4
  <2>2. (Q \o s)[i] = s[i - Len(Q)]
    BY <1>1, <1>2, <1>4, ConcatProperties
  <2> QED
    BY <1>1, <2>1, <2>2
<1> QED
  BY <1>1, <1>2, <1>3, <1>4

LEMMA TailPlaces ==
  ASSUME NEW S, NEW Q \in Seq(S), Q # <<>>, NEW i \in DOMAIN Tail(Q)
  PROVE  i \in Nat /\ i + 1 \in DOMAIN Q /\ Tail(Q)[i] = Q[i + 1]
<1>1. /\ Len(Q) \in Nat /\ Len(Q) >= 1 /\ DOMAIN Q = 1..Len(Q)
      /\ Tail(Q) \in Seq(S) /\ Len(Tail(Q)) = Len(Q) - 1
  OBVIOUS
<1>2. i \in 1..(Len(Q) - 1)
  BY <1>1
<1> QED
  BY <1>1, <1>2

(* Blocks that complete nothing may be appended. *)
LEMMA QuietConcat ==
  ASSUME NEW Q \in Seq(Block), NEW s \in Seq(Block), OncePerWrite(Q), Completions(s) = {}
  PROVE  OncePerWrite(Q \o s) /\ Completions(Q \o s) = Completions(Q)
<1>1. Elements(Q \o s) = Elements(Q) \cup Elements(s)
  BY ElementsOfConcat
<1>2. Completions(Q \o s) = Completions(Q)
  BY <1>1 DEF Completions
<1>3. \A i \in DOMAIN (Q \o s) :
        IsCompletion((Q \o s)[i]) => i \in DOMAIN Q /\ (Q \o s)[i] = Q[i]
  <2> SUFFICES ASSUME NEW i \in DOMAIN (Q \o s), IsCompletion((Q \o s)[i])
               PROVE  i \in DOMAIN Q /\ (Q \o s)[i] = Q[i]
    OBVIOUS
  <2>1. CASE /\ i - Len(Q) \in DOMAIN s /\ (Q \o s)[i] = s[i - Len(Q)]
    <3>1. s[i - Len(Q)] \in Elements(s)
      BY <2>1 DEF Elements
    <3> QED
      BY <2>1, <3>1 DEF Completions
  <2> QED
    BY <2>1, ConcatPlaces
<1> QED
  BY <1>2, <1>3 DEF OncePerWrite

(* A completion may be appended for a write that has none. *)
LEMMA CompletionAppended ==
  ASSUME NEW Q \in Seq(Block), NEW b \in Block, OncePerWrite(Q),
         \A c \in Completions(Q) : c.doc # b.doc
  PROVE  /\ Q \o <<b>> \in Seq(Block) /\ OncePerWrite(Q \o <<b>>)
         /\ Completions(Q \o <<b>>) \subseteq Completions(Q) \cup {b}
<1>1. <<b>> \in Seq(Block) /\ DOMAIN <<b>> = {1} /\ <<b>>[1] = b /\ Elements(<<b>>) = {b}
  BY DEF Elements
<1>2. Q \o <<b>> \in Seq(Block) /\ Elements(Q \o <<b>>) = Elements(Q) \cup {b}
  <2>1. Q \o <<b>> \in Seq(Block)
    BY <1>1, ConcatProperties
  <2>2. Elements(Q \o <<b>>) = Elements(Q) \cup Elements(<<b>>)
    <3> DEFINE s == <<b>>
    <3>1. s \in Seq(Block)
      BY <1>1
    <3> HIDE DEF s
    <3>2. Elements(Q \o s) = Elements(Q) \cup Elements(s)
      BY <3>1, ElementsOfConcat
    <3> QED
      BY <3>2 DEF s
  <2> QED
    BY <1>1, <2>1, <2>2
<1>3. \A i \in DOMAIN (Q \o <<b>>) :
        \/ i \in DOMAIN Q /\ (Q \o <<b>>)[i] = Q[i]
        \/ i \notin DOMAIN Q /\ i - Len(Q) = 1 /\ (Q \o <<b>>)[i] = b
  BY <1>1, ConcatPlaces
<1>4. \A i \in DOMAIN Q : IsCompletion(Q[i]) => Q[i].doc # b.doc
  BY DEF Completions, Elements
<1>5. \A i \in DOMAIN (Q \o <<b>>) : i \in Nat
  <2>1. DOMAIN (Q \o <<b>>) = 1..Len(Q \o <<b>>)
    BY <1>2
  <2> QED
    BY <2>1
<1>6. Len(Q) \in Nat
  OBVIOUS
<1>7. OncePerWrite(Q \o <<b>>)
  <2> SUFFICES ASSUME NEW i \in DOMAIN (Q \o <<b>>), NEW j \in DOMAIN (Q \o <<b>>),
                      IsCompletion((Q \o <<b>>)[i]), IsCompletion((Q \o <<b>>)[j]),
                      (Q \o <<b>>)[i].doc = (Q \o <<b>>)[j].doc
               PROVE  i = j
    BY DEF OncePerWrite
  <2>1. CASE i \in DOMAIN Q /\ j \in DOMAIN Q
    BY <1>3, <2>1 DEF OncePerWrite
  <2>2. CASE i \notin DOMAIN Q /\ j \notin DOMAIN Q
    BY <1>3, <1>5, <1>6, <2>2
  <2>3. CASE i \in DOMAIN Q /\ j \notin DOMAIN Q
    BY <1>3, <1>4, <2>3
  <2>4. CASE i \notin DOMAIN Q /\ j \in DOMAIN Q
    BY <1>3, <1>4, <2>4
  <2> QED
    BY <2>1, <2>2, <2>3, <2>4
<1> QED
  BY <1>2, <1>7 DEF Completions

LEMMA CompletionTaken ==
  ASSUME NEW Q \in Seq(Block), Q # <<>>, OncePerWrite(Q)
  PROVE  OncePerWrite(Tail(Q)) /\ Completions(Tail(Q)) \subseteq Completions(Q)
<1>1. Elements(Tail(Q)) \subseteq Elements(Q)
  BY ElementsOfTail
<1>2. \A i \in DOMAIN Tail(Q) : i \in Nat /\ i + 1 \in DOMAIN Q /\ Tail(Q)[i] = Q[i + 1]
  BY TailPlaces
<1> QED
  BY <1>1, <1>2 DEF OncePerWrite, Completions

(* The worker queue. *)
LEMMA TaskGone ==
  ASSUME ClientTypeOK, workerQ # <<>>, WrittenOnce(workerQ), workerQ' = Tail(workerQ)
  PROVE  /\ WrittenOnce(workerQ') /\ Queued' \subseteq Queued
         /\ Head(workerQ).op = "write" => /\ Head(workerQ).doc \in Queued \ Queued'
                                          /\ Head(workerQ) = Write(Head(workerQ).doc)
<1>1. workerQ \in Seq(Task) /\ Head(workerQ) \in Task
  BY TaskTaken DEF ClientTypeOK
<1>2. \A i \in DOMAIN Tail(workerQ) :
        i \in Nat /\ i + 1 \in DOMAIN workerQ /\ Tail(workerQ)[i] = workerQ[i + 1]
  BY <1>1, TailPlaces
<1>3. WrittenOnce(workerQ')
  BY <1>2 DEF WrittenOnce
<1>4. Elements(workerQ) = {Head(workerQ)} \cup Elements(Tail(workerQ))
  BY <1>1, ElementsOfTail
<1>5. Queued' \subseteq Queued
  BY <1>4 DEF Queued
<1>6. ASSUME Head(workerQ).op = "write"
      PROVE  /\ Head(workerQ).doc \in Queued \ Queued'
             /\ Head(workerQ) = Write(Head(workerQ).doc)
  <2>1. Head(workerQ).doc \in Doc /\ Head(workerQ) = Write(Head(workerQ).doc)
    BY <1>1, <1>6 DEF Task, Write
  <2>2. Head(workerQ) = workerQ[1] /\ 1 \in DOMAIN workerQ
    BY <1>1
  <2>3. ASSUME NEW i \in DOMAIN Tail(workerQ), Tail(workerQ)[i] = Head(workerQ)
        PROVE  FALSE
    <3>1. i \in Nat /\ i + 1 \in DOMAIN workerQ /\ workerQ[i + 1] = workerQ[1]
      BY <1>2, <2>2, <2>3
    <3>2. i + 1 = 1 /\ i # 0
      <4>1. DOMAIN Tail(workerQ) = 1..Len(Tail(workerQ))
        BY <1>1
      <4> QED
        BY <1>6, <2>2, <3>1, <4>1 DEF WrittenOnce
    <3> QED
      BY <3>1, <3>2
  <2>4. Head(workerQ) \notin Elements(Tail(workerQ))
    BY <2>3 DEF Elements
  <2> QED
    BY <1>4, <2>1, <2>4 DEF Queued
<1> QED
  BY <1>3, <1>5, <1>6

LEMMA TaskPosted ==
  ASSUME ClientTypeOK, NEW t \in Task, WrittenOnce(workerQ), workerQ' = Append(workerQ, t),
         t.op = "write" => t \notin Elements(workerQ)
  PROVE  /\ WrittenOnce(workerQ')
         /\ \A d \in Queued' : d \in Queued \/ t = Write(d)
<1>1. workerQ \in Seq(Task) /\ Elements(workerQ') = Elements(workerQ) \cup {t}
  BY ElementsOfAppend DEF ClientTypeOK
<1>2. /\ Len(workerQ) \in Nat /\ DOMAIN workerQ = 1..Len(workerQ)
      /\ DOMAIN workerQ' = 1..(Len(workerQ) + 1)
      /\ \A i \in DOMAIN workerQ : workerQ'[i] = workerQ[i]
      /\ workerQ'[Len(workerQ) + 1] = t
  BY <1>1, AppendProperties
<1>3. \A i \in DOMAIN workerQ' : i \in DOMAIN workerQ \/ i = Len(workerQ) + 1
  BY <1>2
<1>4. \A i \in DOMAIN workerQ : workerQ[i] \in Elements(workerQ)
  BY DEF Elements
<1>5. WrittenOnce(workerQ')
  BY <1>2, <1>3, <1>4 DEF WrittenOnce
<1> QED
  BY <1>1, <1>5 DEF Queued

-----------------------------------------------------------------------------
(* Steps of the client. *)

(* A step that posts no completion, forgets no write and learns of documents. *)
LEMMA QuietKeepsTruth ==
  ASSUME TruthInv, OncePerWrite(mainQ'), Completions(mainQ') \subseteq Completions(mainQ),
         callbacks' = callbacks, Stored \subseteq Stored',
         cache \cup gone \subseteq cache' \cup gone', refused \subseteq refused',
         Queued' \subseteq Queued, WrittenOnce(workerQ')
  PROVE  TruthInv'
<1>1. \A b \in Completions(mainQ') : Truthful(b)' /\ b.doc \notin callbacks' \cup Queued'
  BY DEF TruthInv, Truthful
<1>2. \A b \in Completions(mainQ)' : Truthful(b)' /\ b.doc \notin callbacks' \cup Queued'
  BY <1>1 DEF Completions, Elements
<1>3. OncePerWrite(mainQ)' /\ WrittenOnce(workerQ)'
  BY DEF OncePerWrite, WrittenOnce
<1> QED
  BY <1>2, <1>3 DEF TruthInv

LEMMA SnapshotIsQuiet ==
  ASSUME NEW v \in SUBSET Doc
  PROVE  /\ <<Snapshot(v)>> \in Seq(Block) /\ Completions(<<Snapshot(v)>>) = {}
         /\ <<>> \in Seq(Block) /\ Completions(<<>>) = {}
<1>1. Snapshot(v) \in Block /\ Snapshot(v).kind = "snapshot"
  BY DEF Snapshot, Block
<1> HIDE DEF Snapshot
<1>2. Elements(<<Snapshot(v)>>) = {Snapshot(v)}
  BY DEF Elements
<1>3. Elements(<<>>) = {}
  BY DEF Elements
<1> QED
  BY <1>1, <1>2, <1>3 DEF Completions, IsCompletion

(* What Publish appends after the completions of writes is no completion. *)
LEMMA PublishIsQuiet ==
  ASSUME ClientTypeOK, NEW first \in Seq(Block), NEW v \in SUBSET Doc, NEW cur, NEW onl,
         Publish(first, v, cur, onl), OncePerWrite(mainQ \o first)
  PROVE  OncePerWrite(mainQ') /\ Completions(mainQ') = Completions(mainQ \o first)
<1> DEFINE t == IF Raises(v, cur, onl) THEN <<Snapshot(v)>> ELSE <<>>
<1>1. t \in Seq(Block) /\ Completions(t) = {}
  BY SnapshotIsQuiet
<1>2. mainQ' = mainQ \o first \o t
  BY DEF Publish
<1>3. mainQ \o first \in Seq(Block)
  BY ConcatProperties DEF ClientTypeOK
<1> HIDE DEF t
<1>4. OncePerWrite((mainQ \o first) \o t)
      /\ Completions((mainQ \o first) \o t) = Completions(mainQ \o first)
  BY <1>1, <1>3, QuietConcat
<1> QED
  BY <1>2, <1>4

LEMMA PublishNothing ==
  ASSUME TypeOK, TruthInv, NEW v \in SUBSET Doc, NEW cur, NEW onl,
         Publish(<<>>, v, cur, onl)
  PROVE  OncePerWrite(mainQ') /\ Completions(mainQ') \subseteq Completions(mainQ)
<1>1. ClientTypeOK /\ mainQ \in Seq(Block) /\ <<>> \in Seq(Block)
  BY EmptySeq DEF TypeOK, ClientTypeOK
<1>2. mainQ \o <<>> = mainQ
  BY <1>1, ConcatEmptySeq
<1>3. OncePerWrite(mainQ \o <<>>)
  BY <1>2 DEF TruthInv
<1>4. OncePerWrite(mainQ') /\ Completions(mainQ') = Completions(mainQ \o <<>>)
  BY <1>1, <1>3, PublishIsQuiet
<1> QED
  BY <1>2, <1>4

LEMMA StoredUnchanged ==
  ASSUME mutations' = mutations PROVE Stored' = Stored
BY DEF Stored

LEMMA StoredMeans ==
  /\ \A x : x \in Stored <=> \E u \in Account : x \in Elements(mutations[u])
  /\ \A x : x \in Stored' <=> \E u \in Account : x \in Elements(mutations'[u])
BY DEF Stored

LEMMA WorkerKeepsTruth ==
  ASSUME TypeOK, TruthInv, WorkerStep PROVE TruthInv'
<1>a. ClientTypeOK /\ View \in SUBSET Doc /\ mainQ \in Seq(Block)
      /\ \A u \in Account : ViewOf(cache, mutations, u) \in SUBSET Doc
  BY ViewType DEF TypeOK, ClientTypeOK
<1>b. /\ workerQ # <<>> /\ workerQ' = Tail(workerQ)
      /\ cache' = cache /\ gone' = gone /\ refused' = refused
  BY DEF WorkerStep, RunListen, RunWrite, RunUser
<1>c. /\ WrittenOnce(workerQ') /\ Queued' \subseteq Queued
      /\ Head(workerQ).op = "write" => /\ Head(workerQ).doc \in Queued \ Queued'
                                       /\ Head(workerQ) = Write(Head(workerQ).doc)
  BY <1>a, <1>b, TaskGone DEF TruthInv
<1>1. CASE RunListen
  <2>1. OncePerWrite(mainQ') /\ Completions(mainQ') \subseteq Completions(mainQ)
    <3>1. CASE mainQ' = mainQ
      BY <3>1 DEF TruthInv
    <3>2. CASE mainQ' = Append(mainQ, Snapshot(View))
      <4>1. Snapshot(View) \in Block
        BY <1>a DEF Snapshot, Block
      <4>2. mainQ' = mainQ \o <<Snapshot(View)>>
        BY <1>a, <3>2, <4>1, AppendIsConcat
      <4> QED
        BY <1>a, <4>2, SnapshotIsQuiet, QuietConcat DEF TruthInv
    <3> QED
      BY <1>1, <3>1, <3>2 DEF RunListen
  <2>2. callbacks' = callbacks /\ Stored' = Stored
    BY <1>1, StoredUnchanged DEF RunListen
  <2> QED
    BY <1>b, <1>c, <2>1, <2>2, QuietKeepsTruth
<1>2. CASE RunUser
  <2>1. Head(workerQ).user \in Account
    BY <1>a, <1>2, TaskTaken DEF RunUser, Task
  <2>2. OncePerWrite(mainQ') /\ Completions(mainQ') \subseteq Completions(mainQ)
    <3>1. /\ curUser' = Head(workerQ).user
          /\ Publish(<<>>, ViewOf(cache, mutations, curUser'), current, online)
      BY <1>2 DEF RunUser
    <3> QED
      BY <1>a, <2>1, <3>1, PublishNothing
  <2>3. callbacks' = callbacks /\ Stored' = Stored
    BY <1>2, StoredUnchanged DEF RunUser
  <2> QED
    BY <1>b, <1>c, <2>2, <2>3, QuietKeepsTruth
<1>3. CASE RunWrite
  <2> DEFINE d == Head(workerQ).doc
  <2>1. /\ mutations' = [mutations EXCEPT ![curUser] = Append(@, d)]
        /\ callbacks' = callbacks \cup {d}
        /\ Publish(<<>>, View \cup {d}, current, online)
        /\ d \in Queued \ Queued'
    BY <1>3, <1>c DEF RunWrite
  <2>2. d \in Doc
    BY <2>1 DEF Queued
  <2> HIDE DEF d
  <2>3. OncePerWrite(mainQ') /\ Completions(mainQ') \subseteq Completions(mainQ)
    BY <1>a, <2>1, <2>2, PublishNothing
  <2>4. Stored' = Stored \cup {d}
    <3>1. curUser \in Account /\ mutations \in [Account -> Seq(Doc)]
      BY <1>a DEF ClientTypeOK
    <3>2. Elements(mutations'[curUser]) = Elements(mutations[curUser]) \cup {d}
      BY <2>1, <2>2, <3>1, ElementsOfAppend
    <3>3. \A u \in Account : u # curUser => mutations'[u] = mutations[u]
      BY <2>1, <3>1
    <3> QED
      BY <3>1, <3>2, <3>3, StoredMeans
  <2>5. \A b \in Completions(mainQ') : Truthful(b)' /\ b.doc \notin callbacks' \cup Queued'
    BY <1>b, <1>c, <2>1, <2>3 DEF TruthInv, Truthful
  <2>6. \A b \in Completions(mainQ)' : Truthful(b)' /\ b.doc \notin callbacks' \cup Queued'
    BY <2>5 DEF Completions, Elements
  <2>7. OncePerWrite(mainQ)' /\ WrittenOnce(workerQ)'
    BY <1>c, <2>3 DEF OncePerWrite, WrittenOnce
  <2>8. callbacks' \subseteq Stored' /\ callbacks' \cap Queued' = {}
    BY <1>c, <2>1, <2>4 DEF TruthInv
  <2> QED
    BY <2>6, <2>7, <2>8 DEF TruthInv
<1> QED
  BY <1>1, <1>2, <1>3 DEF WorkerStep

(* The backend answers a write: the only step that posts a completion. *)
LEMMA AnswerKeepsTruth ==
  ASSUME TypeOK, TruthInv, NEW d \in Doc, NEW b \in Block, NEW v \in SUBSET Doc,
         b.doc = d, IsCompletion(b),
         b.kind = "saved" => d \in cache' \cup gone',
         b.kind = "failed" => d \in refused',
         mutations[curUser] # <<>>, d = Head(mutations[curUser]),
         mutations' = [mutations EXCEPT ![curUser] = Tail(@)],
         callbacks' = callbacks \ {d}, workerQ' = workerQ,
         cache \cup gone \subseteq cache' \cup gone', refused \subseteq refused',
         Publish(Completion(d, b), v, current, online)
  PROVE  TruthInv'
<1>a. ClientTypeOK /\ mainQ \in Seq(Block)
  BY DEF TypeOK, ClientTypeOK
<1>1. Queued' = Queued /\ WrittenOnce(workerQ)' /\ callbacks' \cap Queued' = {}
  BY DEF Queued, Elements, TruthInv, WrittenOnce
<1>2. callbacks' \subseteq Stored'
  <2>1. curUser \in Account /\ mutations \in [Account -> Seq(Doc)]
    BY <1>a DEF ClientTypeOK
  <2>2. Elements(mutations[curUser]) = {d} \cup Elements(Tail(mutations[curUser]))
    BY <2>1, ElementsOfTail
  <2>3. mutations'[curUser] = Tail(mutations[curUser])
        /\ \A u \in Account : u # curUser => mutations'[u] = mutations[u]
    BY <2>1
  <2>4. Stored \subseteq Stored' \cup {d}
    BY <2>1, <2>2, <2>3, StoredMeans
  <2> QED
    BY <2>4 DEF TruthInv
<1>3. /\ Completion(d, b) \in Seq(Block) /\ OncePerWrite(mainQ \o Completion(d, b))
      /\ Completions(mainQ \o Completion(d, b)) \subseteq
           Completions(mainQ) \cup (IF d \in callbacks THEN {b} ELSE {})
  <2>1. CASE d \in callbacks
    <3>1. Completion(d, b) = <<b>> /\ <<b>> \in Seq(Block)
      BY <2>1 DEF Completion
    <3>2. \A c \in Completions(mainQ) : c.doc # d
      BY <2>1 DEF TruthInv
    <3> QED
      BY <1>a, <2>1, <3>1, <3>2, CompletionAppended DEF TruthInv
  <2>2. CASE d \notin callbacks
    <3>1. Completion(d, b) = <<>> /\ <<>> \in Seq(Block) /\ mainQ \o <<>> = mainQ
      BY <1>a, <2>2, EmptySeq, ConcatEmptySeq DEF Completion
    <3> QED
      BY <2>2, <3>1 DEF TruthInv
  <2> QED
    BY <2>1, <2>2
<1>4. /\ OncePerWrite(mainQ')
      /\ Completions(mainQ') \subseteq
           Completions(mainQ) \cup (IF d \in callbacks THEN {b} ELSE {})
  BY <1>a, <1>3, PublishIsQuiet
<1>5. \A c \in Completions(mainQ) : Truthful(c)' /\ c.doc \notin callbacks' \cup Queued'
  BY <1>1 DEF TruthInv, Truthful
<1>6. d \in callbacks => b.doc \notin callbacks' \cup Queued'
  BY <1>1 DEF TruthInv
<1>7. \A c \in Completions(mainQ') : Truthful(c)' /\ c.doc \notin callbacks' \cup Queued'
  <2> SUFFICES ASSUME NEW c \in Completions(mainQ')
               PROVE  Truthful(c)' /\ c.doc \notin callbacks' \cup Queued'
    OBVIOUS
  <2>1. CASE c \in Completions(mainQ)
    BY <1>5, <2>1
  <2>2. CASE d \in callbacks /\ c = b
    BY <1>6, <2>2 DEF Truthful
  <2> QED
    BY <1>4, <2>1, <2>2
<1>8. \A c \in Completions(mainQ)' : Truthful(c)' /\ c.doc \notin callbacks' \cup Queued'
  BY <1>7 DEF Completions, Elements
<1>9. OncePerWrite(mainQ)'
  BY <1>4 DEF OncePerWrite
<1> QED
  BY <1>1, <1>2, <1>8, <1>9 DEF TruthInv

LEMMA NetworkKeepsTruth ==
  ASSUME TypeOK, TruthInv, NetworkStep PROVE TruthInv'
<1>a. ClientTypeOK /\ View \in SUBSET Doc /\ mainQ \in Seq(Block) /\ cache \subseteq Doc
      /\ \A u \in Account : ViewOf(cache, mutations, u) \in SUBSET Doc
  BY ViewType DEF TypeOK, ClientTypeOK
<1>b. workerQ' = workerQ
  BY DEF NetworkStep, WriteAccepted, WriteRejected, WatchAdds, WatchRemoves,
         WatchCurrent, OnlineStateChanges, ListenFails
<1>c. Queued' = Queued /\ WrittenOnce(workerQ')
  BY <1>b DEF Queued, Elements, TruthInv
<1>1. CASE WriteAccepted
  <2> DEFINE d == Head(mutations[curUser])
  <2>1. d \in Doc
    BY <1>a, <1>1, OldestWriteType DEF WriteAccepted
  <2>2. /\ mutations[curUser] # <<>>
        /\ mutations' = [mutations EXCEPT ![curUser] = Tail(@)]
        /\ cache' = cache \cup {d} /\ gone' = gone /\ refused' = refused
        /\ callbacks' = callbacks \ {d}
        /\ Publish(Completion(d, Saved(d)), View, current, online)
    BY <1>1 DEF WriteAccepted
  <2>3. Saved(d) \in Block /\ Saved(d).doc = d /\ Saved(d).kind = "saved"
    BY <2>1 DEF Saved, Block
  <2> HIDE DEF d
  <2>4. IsCompletion(Saved(d)) /\ d \in cache' \cup gone' /\ Saved(d).kind # "failed"
    BY <2>2, <2>3 DEF IsCompletion
  <2> QED
    BY <1>a, <1>b, <2>1, <2>2, <2>3, <2>4, AnswerKeepsTruth DEF d
<1>2. CASE WriteRejected
  <2> DEFINE d == Head(mutations[curUser])
             v == ViewOf(cache, mutations', curUser)
  <2>1. d \in Doc
    BY <1>a, <1>2, OldestWriteType DEF WriteRejected
  <2>2. /\ mutations[curUser] # <<>>
        /\ mutations' = [mutations EXCEPT ![curUser] = Tail(@)]
        /\ cache' = cache /\ gone' = gone /\ refused' = refused \cup {d}
        /\ callbacks' = callbacks \ {d}
        /\ Publish(Completion(d, Failed(d)), v, current, online)
    BY <1>2 DEF WriteRejected
  <2>3. Failed(d) \in Block /\ Failed(d).doc = d /\ Failed(d).kind = "failed"
    BY <2>1 DEF Failed, Block
  <2>4. v \in SUBSET Doc
    <3>1. [mutations EXCEPT ![curUser] = Tail(@)] \in [Account -> Seq(Doc)]
          /\ curUser \in Account
      BY <1>a, <2>2, OldestWriteType DEF ClientTypeOK
    <3>2. mutations'[curUser] \in Seq(Doc)
      BY <2>2, <3>1
    <3>3. Elements(mutations'[curUser]) \subseteq Doc
      BY <3>2 DEF Elements
    <3> QED
      BY <1>a, <3>3 DEF ViewOf
  <2> HIDE DEF d, v
  <2>5. IsCompletion(Failed(d)) /\ d \in refused' /\ Failed(d).kind # "saved"
    BY <2>2, <2>3 DEF IsCompletion
  <2> QED
    BY <1>a, <1>b, <2>1, <2>2, <2>3, <2>4, <2>5, AnswerKeepsTruth DEF d
<1>3. ASSUME NEW d \in Doc, WatchAdds(d) \/ WatchRemoves(d) PROVE TruthInv'
  <2>1. /\ callbacks' = callbacks /\ mutations' = mutations /\ refused' = refused
        /\ cache \cup gone \subseteq cache' \cup gone' /\ cache' \subseteq Doc
    BY <1>a, <1>3 DEF WatchAdds, WatchRemoves
  <2>2. PICK v \in SUBSET Doc : Publish(<<>>, v, current, online)
    <3>1. View \cup {d} \in SUBSET Doc
      BY <1>a
    <3>2. ViewOf(cache', mutations, curUser) \in SUBSET Doc
      <4>1. Elements(mutations[curUser]) \subseteq Doc
        BY <1>a DEF View, ViewOf
      <4> QED
        BY <2>1, <4>1 DEF ViewOf
    <3> QED
      BY <1>3, <3>1, <3>2 DEF WatchAdds, WatchRemoves
  <2> QED
    BY <1>c, <2>1, <2>2, PublishNothing, QuietKeepsTruth, StoredUnchanged
<1>4. ASSUME NEW new, WatchCurrent \/ OnlineStateChanges(new) PROVE TruthInv'
  <2>1. /\ callbacks' = callbacks /\ mutations' = mutations /\ refused' = refused
        /\ cache' = cache /\ gone' = gone
    BY <1>4 DEF WatchCurrent, OnlineStateChanges
  <2>2. Publish(<<>>, View, current', online) \/ Publish(<<>>, View, current', new)
    BY <1>4 DEF WatchCurrent, OnlineStateChanges
  <2>3. OncePerWrite(mainQ') /\ Completions(mainQ') \subseteq Completions(mainQ)
    BY <1>a, <2>2, PublishNothing
  <2> QED
    BY <1>c, <2>1, <2>3, QuietKeepsTruth, StoredUnchanged
<1>5. CASE ListenFails
  <2>1. /\ callbacks' = callbacks /\ mutations' = mutations /\ refused' = refused
        /\ cache' = cache /\ gone' = gone /\ mainQ' = Append(mainQ, ListenError)
    BY <1>5 DEF ListenFails
  <2>2. ListenError \in Block /\ ListenError.kind = "error"
    BY DEF ListenError, Block
  <2>3. <<ListenError>> \in Seq(Block) /\ Elements(<<ListenError>>) = {ListenError}
        /\ mainQ' = mainQ \o <<ListenError>>
    BY <1>a, <2>1, <2>2, AppendIsConcat DEF Elements
  <2>4. Completions(<<ListenError>>) = {}
    BY <2>2, <2>3 DEF Completions, IsCompletion
  <2>5. OncePerWrite(mainQ') /\ Completions(mainQ') \subseteq Completions(mainQ)
    BY <1>a, <2>3, <2>4, QuietConcat DEF TruthInv
  <2> QED
    BY <1>c, <2>1, <2>5, QuietKeepsTruth, StoredUnchanged
<1> QED
  BY <1>1, <1>2, <1>3, <1>4, <1>5 DEF NetworkStep

-----------------------------------------------------------------------------
(* Steps of the main thread and of the user. *)

LEMMA ReloadsAreQuiet ==
  ASSUME NEW D \in SUBSET Doc
  PROVE  Reloads(D) \in Seq(Block) /\ \A b \in Elements(Reloads(D)) : b = Reload
<1>1. Reloads(D) \in Seq(Block) /\ DOMAIN Reloads(D) = 1..Cardinality(D)
  BY ReloadsType DEF Reloads
<1>2. \A i \in 1..Cardinality(D) : Reloads(D)[i] = Reload
  BY DEF Reloads
<1> QED
  BY <1>1, <1>2 DEF Elements

(* What the main thread leaves in the queue. *)
LEMMA MainQueue ==
  ASSUME TypeOK, MainStep
  PROVE  /\ mainQ # <<>> /\ mainQ \in Seq(Block) /\ Tail(mainQ) \in Seq(Block)
         /\ \E s \in Seq(Block) :
              /\ mainQ' = Tail(mainQ) \o s
              /\ \A b \in Elements(s) : b.kind = "reload" \/ (b.kind = "clear" /\ RunSaved)
<1>1. mainQ # <<>>
  BY DEF MainStep, RunSnapshot, RunError, RunReload, RunSaved, RunFailed, RunClear,
         RunAuth, Runs
<1>2. mainQ \in Seq(Block) /\ Tail(mainQ) \in Seq(Block)
  BY <1>1, BlockTaken DEF TypeOK, ClientTypeOK
<1>3. CASE RunSnapshot
  <2>1. /\ messages' \in SUBSET Doc /\ Reloads(messages') \in Seq(Block)
        /\ mainQ' = Tail(mainQ) \o Reloads(messages')
    BY <1>3, SnapshotRuns
  <2>2. \A b \in Elements(Reloads(messages')) : b = Reload
    BY <2>1, ReloadsAreQuiet
  <2>3. Reload.kind = "reload"
    BY DEF Reload
  <2> QED
    BY <1>1, <1>2, <2>1, <2>2, <2>3
<1>4. CASE RunSaved
  <2>1. mainQ' = Append(Tail(mainQ), Clear)
    BY <1>4 DEF RunSaved
  <2>2. Clear \in Block /\ Clear.kind = "clear"
    BY DEF Clear, Block
  <2>3. <<Clear>> \in Seq(Block) /\ mainQ' = Tail(mainQ) \o <<Clear>>
    BY <1>2, <2>1, <2>2, AppendIsConcat
  <2>4. Elements(<<Clear>>) = {Clear}
    BY DEF Elements
  <2> QED
    BY <1>1, <1>2, <1>4, <2>2, <2>3, <2>4
<1>5. CASE mainQ' = Tail(mainQ)
  <2>1. <<>> \in Seq(Block) /\ mainQ' = Tail(mainQ) \o <<>> /\ Elements(<<>>) = {}
    BY <1>2, <1>5, EmptySeq, ConcatEmptySeq DEF Elements
  <2> QED
    BY <1>1, <1>2, <2>1
<1> QED
  BY <1>3, <1>4, <1>5 DEF MainStep, RunError, RunReload, RunFailed, RunClear, RunAuth

(* Only Auth's notice gives the worker queue a task from the main thread. *)
LEMMA MainTasks ==
  ASSUME TypeOK, MainStep
  PROVE  /\ UNCHANGED <<mutations, callbacks, cache, gone, refused>>
         /\ \/ workerQ' = workerQ
            \/ \E u \in Account : workerQ' = Append(workerQ, Become(u))
<1>1. CASE RunAuth
  <2>1. Head(mainQ) \in Block /\ Head(mainQ).kind = "auth"
    BY <1>1, BlockTaken DEF TypeOK, RunAuth, Runs
  <2>2. Head(mainQ).user \in Account
    BY <2>1 DEF Block
  <2> QED
    BY <1>1, <2>2 DEF RunAuth
<1>2. CASE MainStep /\ ~RunAuth
  BY <1>2 DEF MainStep, RunSnapshot, RunError, RunReload, RunSaved, RunFailed, RunClear,
              Only
<1> QED
  BY <1>1, <1>2

LEMMA BecomeIsQuiet ==
  ASSUME NEW u \in Account
  PROVE  Become(u) \in Task /\ Become(u).op # "write" /\ \A d : Become(u) # Write(d)
BY DEF Become, Write, Task

LEMMA MainKeepsTruth ==
  ASSUME TypeOK, TruthInv, MainStep PROVE TruthInv'
<1>1. /\ mainQ # <<>> /\ mainQ \in Seq(Block) /\ Tail(mainQ) \in Seq(Block)
      /\ UNCHANGED <<mutations, callbacks, cache, gone, refused>>
  BY MainQueue, MainTasks
<1>2. PICK s \in Seq(Block) :
        /\ mainQ' = Tail(mainQ) \o s
        /\ \A b \in Elements(s) : b.kind = "reload" \/ (b.kind = "clear" /\ RunSaved)
  BY MainQueue
<1>3. Completions(s) = {}
  BY <1>2 DEF Completions, IsCompletion
<1>4. OncePerWrite(Tail(mainQ)) /\ Completions(Tail(mainQ)) \subseteq Completions(mainQ)
  BY <1>1, CompletionTaken DEF TruthInv
<1>5. OncePerWrite(mainQ') /\ Completions(mainQ') \subseteq Completions(mainQ)
  BY <1>1, <1>2, <1>3, <1>4, QuietConcat
<1>6. WrittenOnce(workerQ') /\ Queued' \subseteq Queued
  <2>1. CASE workerQ' = workerQ
    BY <2>1 DEF Queued, Elements, TruthInv
  <2>2. ASSUME NEW u \in Account, workerQ' = Append(workerQ, Become(u))
        PROVE  WrittenOnce(workerQ') /\ Queued' \subseteq Queued
    BY <2>2, BecomeIsQuiet, TaskPosted DEF TypeOK, TruthInv
  <2> QED
    BY <2>1, <2>2, MainTasks
<1> QED
  BY <1>1, <1>5, <1>6, QuietKeepsTruth, StoredUnchanged

LEMMA AuthIsQuiet ==
  ASSUME TypeOK, TruthInv, UserStep
  PROVE  OncePerWrite(mainQ') /\ Completions(mainQ') \subseteq Completions(mainQ)
<1>1. CASE mainQ' = mainQ
  BY <1>1 DEF TruthInv
<1>2. ASSUME NEW u \in Account, mainQ' = Append(mainQ, Auth(u))
      PROVE  OncePerWrite(mainQ') /\ Completions(mainQ') \subseteq Completions(mainQ)
  <2>1. mainQ \in Seq(Block) /\ Auth(u) \in Block /\ Auth(u).kind = "auth"
    BY <1>2, AuthAppended DEF TypeOK, ClientTypeOK
  <2>2. <<Auth(u)>> \in Seq(Block) /\ mainQ' = mainQ \o <<Auth(u)>>
    BY <1>2, <2>1, AppendIsConcat
  <2>3. Elements(<<Auth(u)>>) = {Auth(u)}
    BY DEF Elements
  <2>4. Completions(<<Auth(u)>>) = {}
    BY <2>1, <2>3 DEF Completions, IsCompletion
  <2> QED
    BY <2>1, <2>2, <2>4, QuietConcat DEF TruthInv
<1> QED
  BY <1>1, <1>2, UserQueue

LEMMA UserKeepsTruth ==
  ASSUME TypeOK, TruthInv, UserStep PROVE TruthInv'
<1>1. /\ UNCHANGED <<mutations, callbacks, cache, gone, refused>>
      /\ \/ workerQ' = workerQ
         \/ \E d \in Doc : SendPressed(d)
  BY DEF UserStep, FirstLayout, TouchMissingRow, Type, SendPressed, LogOutPressed,
         ForcedSignOut, SignInAgain, Only, clientVars
<1>2. OncePerWrite(mainQ') /\ Completions(mainQ') \subseteq Completions(mainQ)
  BY AuthIsQuiet
<1>3. CASE workerQ' = workerQ
  <2>1. WrittenOnce(workerQ') /\ Queued' \subseteq Queued
    BY <1>3 DEF Queued, Elements, TruthInv
  <2> QED
    BY <1>1, <1>2, <2>1, QuietKeepsTruth, StoredUnchanged
<1>4. ASSUME NEW d \in Doc, SendPressed(d) PROVE TruthInv'
  <2>1. workerQ' = Append(workerQ, Write(d)) /\ d \in Fresh /\ mainQ' = mainQ
    BY <1>4 DEF SendPressed
  <2>2. Write(d) \in Task /\ Write(d).op = "write" /\ Write(d).doc = d
    BY DEF Write, Task
  <2>3. d \notin Queued /\ d \notin Stored /\ d \notin cache \cup gone \cup refused
    BY <2>1 DEF Fresh
  <2>4. Write(d) \notin Elements(workerQ)
    BY <2>3 DEF Queued
  <2>5. WrittenOnce(workerQ') /\ \A e \in Queued' : e \in Queued \/ Write(d) = Write(e)
    BY <2>1, <2>2, <2>4, TaskPosted DEF TypeOK, TruthInv
  <2>6. Queued' \subseteq Queued \cup {d}
    BY <2>2, <2>5 DEF Write
  <2>7. \A b \in Completions(mainQ) : b.doc # d
    BY <2>3 DEF TruthInv, Completions, IsCompletion, Truthful
  <2>8. \A b \in Completions(mainQ) : Truthful(b)' /\ b.doc \notin callbacks' \cup Queued'
    BY <1>1, <2>6, <2>7 DEF TruthInv, Truthful
  <2>9. Completions(mainQ)' = Completions(mainQ) /\ OncePerWrite(mainQ)'
    BY <2>1 DEF Completions, Elements, OncePerWrite, TruthInv
  <2>10. WrittenOnce(workerQ)' /\ callbacks' \subseteq Stored' /\ callbacks' \cap Queued' = {}
    BY <1>1, <2>3, <2>5, <2>6, StoredUnchanged DEF WrittenOnce, TruthInv
  <2> QED
    BY <2>8, <2>9, <2>10 DEF TruthInv
<1> QED
  BY <1>1, <1>3, <1>4

(* After a launch nothing is queued and no completion block exists. *)
LEMMA NothingToTell ==
  /\ workerQ = <<Listen>> /\ mainQ = <<>> /\ callbacks = {} => TruthInv
  /\ workerQ' = <<Listen>> /\ mainQ' = <<>> /\ callbacks' = {} => TruthInv'
<1>1. WrittenOnce(<<Listen>>)
  BY DEF WrittenOnce, Listen
<1>2. OncePerWrite(<<>>) /\ Completions(<<>>) = {}
  BY DEF OncePerWrite, Completions, Elements
<1>3. workerQ = <<Listen>> /\ mainQ = <<>> /\ callbacks = {} => TruthInv
  BY <1>1, <1>2 DEF TruthInv
<1>4. (workerQ = <<Listen>> /\ mainQ = <<>> /\ callbacks = {} => TruthInv)'
  BY <1>3, PTL
<1> QED
  BY <1>3, <1>4

LEMMA TruthStep == ASSUME TypeOK, TruthInv, [Next]_vars PROVE TruthInv'
<1>1. CASE ClientStep(WorkerStep)
  BY <1>1, WorkerKeepsTruth DEF ClientStep
<1>2. CASE ClientStep(NetworkStep)
  BY <1>2, NetworkKeepsTruth DEF ClientStep
<1>3. CASE MainStep
  BY <1>3, MainKeepsTruth
<1>4. CASE UserStep
  BY <1>4, UserKeepsTruth
<1>5. ASSUME NEW u \in User, Relaunch(u) PROVE TruthInv'
  BY <1>5, NothingToTell DEF Relaunch
<1>6. CASE UNCHANGED vars
  <2>1. UNCHANGED <<mainQ, workerQ, mutations, callbacks, cache, gone, refused>>
    BY <1>6 DEF vars, clientVars
  <2>2. OncePerWrite(mainQ') /\ Completions(mainQ') \subseteq Completions(mainQ)
        /\ WrittenOnce(workerQ') /\ Queued' \subseteq Queued
    BY <2>1 DEF TruthInv, Queued, Elements
  <2> QED
    BY <2>1, <2>2, QuietKeepsTruth, StoredUnchanged
<1> QED
  BY <1>1, <1>2, <1>3, <1>4, <1>5, <1>6 DEF Next

(* The completion of a send runs at most once and tells the truth, whatever
   accounts, connections and relaunches come between
   (ChatViewController.swift:67-80). *)
THEOREM CompletionsTellTruth == Spec => []CompletionsAreTruthful
<1>1. Init => TypeOK /\ TruthInv
  BY InitType, NothingToTell DEF Init, ClientInit
<1>2. TypeOK /\ TruthInv /\ [Next]_vars => TruthInv'
  BY TruthStep
<1>3. Spec => []TruthInv
  BY <1>1, <1>2, TypeCorrect, PTL DEF Spec
<1> QED
  BY <1>3, TruthIsTold, PTL

-----------------------------------------------------------------------------
(* Text that no send is about: nothing under way will empty the field. *)

Answers(Q) == {b \in Elements(Q) : b.kind \in {"saved", "failed", "clear"}}

LEMMA OutstandingMeans ==
  /\ Outstanding <=> Queued # {} \/ callbacks # {} \/ Answers(mainQ) # {}
  /\ Outstanding' <=> Queued' # {} \/ callbacks' # {} \/ Answers(mainQ') # {}
<1>1. Outstanding <=> Queued # {} \/ callbacks # {} \/ Answers(mainQ) # {}
  BY DEF Outstanding, Answers
<1>2. Answers(mainQ)' = Answers(mainQ')
  BY DEF Answers, Elements
<1>3. (Outstanding <=> Queued # {} \/ callbacks # {} \/ Answers(mainQ) # {})'
  BY <1>1, PTL
<1> QED
  BY <1>1, <1>2, <1>3

(* An event appended to the queue answers no send. *)
LEMMA EventAppended ==
  ASSUME NEW Q \in Seq(Block), NEW b \in Block, b.kind \notin {"saved", "failed", "clear"}
  PROVE  Answers(Append(Q, b)) = Answers(Q) /\ Answers(Q \o <<b>>) = Answers(Q)
<1>1. Elements(Append(Q, b)) = Elements(Q) \cup {b} /\ Q \o <<b>> = Append(Q, b)
  BY ElementsOfAppend, AppendIsConcat
<1> QED
  BY <1>1 DEF Answers

LEMMA PublishAnswersNothing ==
  ASSUME ClientTypeOK, NEW v \in SUBSET Doc, NEW cur, NEW onl, Publish(<<>>, v, cur, onl)
  PROVE  Answers(mainQ') = Answers(mainQ)
<1>1. mainQ \in Seq(Block) /\ mainQ \o <<>> = mainQ
  BY ConcatEmptySeq DEF ClientTypeOK
<1>2. Snapshot(v) \in Block /\ Snapshot(v).kind = "snapshot"
  BY DEF Snapshot, Block
<1>3. mainQ' = mainQ \/ mainQ' = mainQ \o <<Snapshot(v)>>
  BY <1>1, ConcatEmptySeq DEF Publish
<1> QED
  BY <1>1, <1>2, <1>3, EventAppended

LEMMA WorkerStaysQuiet ==
  ASSUME TypeOK, ~Outstanding, WorkerStep PROVE ~Outstanding'
<1>a. ClientTypeOK /\ View \in SUBSET Doc /\ mainQ \in Seq(Block) /\ workerQ \in Seq(Task)
      /\ \A u \in Account : ViewOf(cache, mutations, u) \in SUBSET Doc
  BY ViewType DEF TypeOK, ClientTypeOK
<1>b. workerQ # <<>> /\ workerQ' = Tail(workerQ)
  BY DEF WorkerStep, RunListen, RunWrite, RunUser
<1>c. Elements(workerQ) = {Head(workerQ)} \cup Elements(Tail(workerQ))
  BY <1>a, <1>b, ElementsOfTail
<1>d. Queued = {} /\ callbacks = {} /\ Answers(mainQ) = {}
  BY OutstandingMeans
<1>e. Queued' = {}
  BY <1>b, <1>c, <1>d DEF Queued
<1>1. CASE RunListen
  <2>1. Snapshot(View) \in Block /\ Snapshot(View).kind = "snapshot"
    BY <1>a DEF Snapshot, Block
  <2>2. Answers(mainQ') = Answers(mainQ) /\ callbacks' = callbacks
    BY <1>a, <1>1, <2>1, EventAppended DEF RunListen
  <2> QED
    BY <1>d, <1>e, <2>2, OutstandingMeans
<1>2. CASE RunUser
  <2>1. /\ Head(workerQ).user \in Account /\ curUser' = Head(workerQ).user
        /\ Publish(<<>>, ViewOf(cache, mutations, curUser'), current, online)
        /\ callbacks' = callbacks
    BY <1>a, <1>2, TaskTaken DEF RunUser, Task
  <2>2. Answers(mainQ') = Answers(mainQ)
    BY <1>a, <2>1, PublishAnswersNothing
  <2> QED
    BY <1>d, <1>e, <2>1, <2>2, OutstandingMeans
<1>3. CASE RunWrite
  <2>1. Head(workerQ) \in Task /\ Head(workerQ).op = "write"
    BY <1>a, <1>3, TaskTaken DEF RunWrite
  <2>2. Head(workerQ).doc \in Doc /\ Head(workerQ) = Write(Head(workerQ).doc)
    BY <2>1 DEF Task, Write
  <2> QED
    BY <1>c, <1>d, <2>2 DEF Queued
<1> QED
  BY <1>1, <1>2, <1>3 DEF WorkerStep

LEMMA NetworkStaysQuiet ==
  ASSUME TypeOK, ~Outstanding, NetworkStep PROVE ~Outstanding'
<1>a. ClientTypeOK /\ View \in SUBSET Doc /\ mainQ \in Seq(Block) /\ cache \subseteq Doc
      /\ \A u \in Account : ViewOf(cache, mutations, u) \in SUBSET Doc
  BY ViewType DEF TypeOK, ClientTypeOK
<1>b. Queued = {} /\ callbacks = {} /\ Answers(mainQ) = {}
  BY OutstandingMeans
<1>c. workerQ' = workerQ /\ callbacks' = {}
  BY <1>b DEF NetworkStep, WriteAccepted, WriteRejected, WatchAdds, WatchRemoves,
         WatchCurrent, OnlineStateChanges, ListenFails
<1>d. Queued' = {}
  BY <1>b, <1>c DEF Queued, Elements
<1>e. \A d, b : Completion(d, b) = <<>>
  BY <1>b DEF Completion
<1>1. CASE WriteAccepted
  <2>1. Publish(<<>>, View, current, online)
    BY <1>1, <1>e DEF WriteAccepted
  <2> QED
    BY <1>a, <1>b, <1>c, <1>d, <2>1, PublishAnswersNothing, OutstandingMeans
<1>2. CASE WriteRejected
  <2>1. /\ Publish(<<>>, ViewOf(cache, mutations', curUser), current, online)
        /\ mutations' = [mutations EXCEPT ![curUser] = Tail(@)]
        /\ mutations[curUser] # <<>>
    BY <1>2, <1>e DEF WriteRejected
  <2>2. ViewOf(cache, mutations', curUser) \in SUBSET Doc
    <3>1. [mutations EXCEPT ![curUser] = Tail(@)] \in [Account -> Seq(Doc)]
          /\ curUser \in Account
      BY <1>a, <2>1, OldestWriteType DEF ClientTypeOK
    <3>2. mutations'[curUser] \in Seq(Doc)
      BY <2>1, <3>1
    <3>3. Elements(mutations'[curUser]) \subseteq Doc
      BY <3>2 DEF Elements
    <3> QED
      BY <1>a, <3>3 DEF ViewOf
  <2> QED
    BY <1>a, <1>b, <1>c, <1>d, <2>1, <2>2, PublishAnswersNothing, OutstandingMeans
<1>3. ASSUME NEW d \in Doc, WatchAdds(d) \/ WatchRemoves(d) PROVE ~Outstanding'
  <2>1. PICK v \in SUBSET Doc : Publish(<<>>, v, current, online)
    <3>1. View \cup {d} \in SUBSET Doc
      BY <1>a
    <3>2. CASE WatchAdds(d)
      BY <3>1, <3>2 DEF WatchAdds
    <3>3. CASE WatchRemoves(d)
      <4>1. cache' \subseteq Doc /\ Publish(<<>>, ViewOf(cache', mutations, curUser), current, online)
        BY <1>a, <3>3 DEF WatchRemoves
      <4>2. Elements(mutations[curUser]) \subseteq Doc
        BY <1>a DEF View, ViewOf
      <4> QED
        BY <4>1, <4>2 DEF ViewOf
    <3> QED
      BY <1>3, <3>2, <3>3
  <2> QED
    BY <1>a, <1>b, <1>c, <1>d, <2>1, PublishAnswersNothing, OutstandingMeans
<1>4. ASSUME NEW new, WatchCurrent \/ OnlineStateChanges(new) PROVE ~Outstanding'
  <2>1. Publish(<<>>, View, current', online) \/ Publish(<<>>, View, current', new)
    BY <1>4 DEF WatchCurrent, OnlineStateChanges
  <2> QED
    BY <1>a, <1>b, <1>c, <1>d, <2>1, PublishAnswersNothing, OutstandingMeans
<1>5. CASE ListenFails
  <2>1. ListenError \in Block /\ ListenError.kind = "error"
    BY DEF ListenError, Block
  <2>2. Answers(mainQ') = Answers(mainQ)
    BY <1>a, <1>5, <2>1, EventAppended DEF ListenFails
  <2> QED
    BY <1>b, <1>c, <1>d, <2>2, OutstandingMeans
<1> QED
  BY <1>1, <1>2, <1>3, <1>4, <1>5 DEF NetworkStep

LEMMA MainStaysQuiet ==
  ASSUME TypeOK, ~Outstanding, MainStep PROVE ~Outstanding'
<1>1. /\ mainQ # <<>> /\ mainQ \in Seq(Block) /\ Tail(mainQ) \in Seq(Block)
      /\ callbacks' = callbacks
  BY MainQueue, MainTasks
<1>2. PICK s \in Seq(Block) :
        /\ mainQ' = Tail(mainQ) \o s
        /\ \A b \in Elements(s) : b.kind = "reload" \/ (b.kind = "clear" /\ RunSaved)
  BY MainQueue
<1>3. Queued = {} /\ callbacks = {} /\ Answers(mainQ) = {}
  BY OutstandingMeans
<1>4. Elements(mainQ) = {Head(mainQ)} \cup Elements(Tail(mainQ))
  BY <1>1, ElementsOfTail
<1>5. ~RunSaved
  BY <1>3, <1>4 DEF RunSaved, Runs, Answers
<1>6. Elements(mainQ') = Elements(Tail(mainQ)) \cup Elements(s)
  BY <1>1, <1>2, ElementsOfConcat
<1>7. Answers(mainQ') = {}
  BY <1>2, <1>3, <1>4, <1>5, <1>6 DEF Answers
<1>8. Queued' = {}
  <2>1. CASE workerQ' = workerQ
    BY <1>3, <2>1 DEF Queued, Elements
  <2>2. ASSUME NEW u \in Account, workerQ' = Append(workerQ, Become(u)) PROVE Queued' = {}
    <3>1. Elements(workerQ') = Elements(workerQ) \cup {Become(u)}
      BY <2>2, BecomeIsQuiet, ElementsOfAppend DEF TypeOK, ClientTypeOK
    <3> QED
      BY <1>3, <3>1, BecomeIsQuiet DEF Queued
  <2> QED
    BY <2>1, <2>2, MainTasks
<1> QED
  BY <1>1, <1>3, <1>7, <1>8, OutstandingMeans

LEMMA UserStaysQuiet ==
  ASSUME TypeOK, UnsentTextIsSafe, UserStep PROVE UnsentTextIsSafe'
<1>1. ASSUME NEW text \in {"empty", "unsent", "racing"}, Type(text) PROVE UnsentTextIsSafe'
  <2>1. /\ field' = text /\ (text = "unsent" => ~Outstanding)
        /\ UNCHANGED <<workerQ, mainQ, callbacks>>
    BY <1>1 DEF Type, clientVars
  <2>2. Outstanding' <=> Outstanding
    BY <2>1 DEF Outstanding, Queued, Elements
  <2> QED
    BY <2>1, <2>2 DEF UnsentTextIsSafe
<1>2. ASSUME NEW d \in Doc, SendPressed(d) PROVE UnsentTextIsSafe'
  BY <1>2 DEF SendPressed, UnsentTextIsSafe
<1>3. ASSUME UNCHANGED <<workerQ, callbacks, field>> PROVE UnsentTextIsSafe'
  <2> SUFFICES ASSUME field = "unsent" PROVE ~Outstanding'
    BY <1>3 DEF UnsentTextIsSafe
  <2>1. Queued = {} /\ callbacks = {} /\ Answers(mainQ) = {}
    BY OutstandingMeans DEF UnsentTextIsSafe
  <2>2. Queued' = {} /\ callbacks' = {}
    BY <1>3, <2>1 DEF Queued, Elements
  <2>3. Answers(mainQ') = Answers(mainQ)
    <3>1. ASSUME NEW u \in Account, mainQ' = Append(mainQ, Auth(u))
          PROVE  Answers(mainQ') = Answers(mainQ)
      <4>1. mainQ \in Seq(Block) /\ Auth(u) \in Block /\ Auth(u).kind = "auth"
        BY <3>1, AuthAppended DEF TypeOK, ClientTypeOK
      <4> QED
        BY <3>1, <4>1, EventAppended
    <3> QED
      BY <3>1, UserQueue
  <2> QED
    BY <2>1, <2>2, <2>3, OutstandingMeans
<1>4. FirstLayout \/ TouchMissingRow \/ LogOutPressed \/ ForcedSignOut
        \/ (\E u \in User : SignInAgain(u)) => UNCHANGED <<workerQ, callbacks, field>>
  BY DEF FirstLayout, TouchMissingRow, LogOutPressed, ForcedSignOut, SignInAgain, Only,
         clientVars, screenVars
<1> QED
  BY <1>1, <1>2, <1>3, <1>4 DEF UserStep

LEMMA UnsentStep ==
  ASSUME TypeOK, UnsentTextIsSafe, [Next]_vars PROVE UnsentTextIsSafe'
<1>1. CASE ClientStep(WorkerStep) \/ ClientStep(NetworkStep)
  <2>1. field' = field
    BY <1>1 DEF ClientStep, screenVars
  <2> QED
    BY <1>1, <2>1, WorkerStaysQuiet, NetworkStaysQuiet DEF ClientStep, UnsentTextIsSafe
<1>2. CASE MainStep
  <2>1. field' = field \/ field' = "empty"
    BY <1>2 DEF MainStep, RunSnapshot, RunError, RunReload, RunSaved, RunFailed, RunClear,
                RunAuth, Only, screenVars
  <2> QED
    BY <1>2, <2>1, MainStaysQuiet DEF UnsentTextIsSafe
<1>3. CASE UserStep
  BY <1>3, UserStaysQuiet
<1>4. ASSUME NEW u \in User, Relaunch(u) PROVE UnsentTextIsSafe'
  BY <1>4 DEF Relaunch, UnsentTextIsSafe
<1>5. CASE UNCHANGED vars
  BY <1>5 DEF vars, clientVars, screenVars, UnsentTextIsSafe, Outstanding, Queued, Elements
<1> QED
  BY <1>1, <1>2, <1>3, <1>4, <1>5 DEF Next

(* Text typed while no send is under way is never wiped by a completion, which
   empties the field it finds (ChatViewController.swift:75-77). *)
THEOREM UnsentTextStays == Spec => []UnsentTextIsSafe
<1>1. Init => UnsentTextIsSafe
  BY DEF Init, UnsentTextIsSafe
<1>2. TypeOK /\ UnsentTextIsSafe /\ [Next]_vars => UnsentTextIsSafe'
  BY UnsentStep
<1> QED
  BY <1>1, <1>2, TypeCorrect, PTL DEF Spec

-----------------------------------------------------------------------------
(* The last event before a place of the queue.  D is what the last snapshot
   event before place n of Q holds, or dl when there is none. *)
LastIs(Q, dl, n, D) ==
  \/ /\ \A i \in 1..(n - 1) : Q[i].kind # "snapshot"
     /\ D = dl
  \/ \E i \in 1..(n - 1) :
       /\ Q[i].kind = "snapshot" /\ Q[i].docs = D
       /\ \A j \in (i + 1)..(n - 1) : Q[j].kind # "snapshot"

(* The definition of the model agrees: a latest snapshot is the only one. *)
LEMMA LastIsLast ==
  ASSUME TypeOK, NEW n \in 1..(Len(mainQ) + 1), NEW D, LastIs(mainQ, delivered, n, D)
  PROVE  LastEventBefore(n) = D
<1> DEFINE S == {i \in 1..(n - 1) : mainQ[i].kind = "snapshot"}
<1>n. n \in Nat
  BY DEF TypeOK, ClientTypeOK
<1>1. CASE /\ \A i \in 1..(n - 1) : mainQ[i].kind # "snapshot"
           /\ D = delivered
  BY <1>1 DEF LastEventBefore
<1>2. ASSUME NEW i \in 1..(n - 1), mainQ[i].kind = "snapshot", mainQ[i].docs = D,
             \A j \in (i + 1)..(n - 1) : mainQ[j].kind # "snapshot"
      PROVE  LastEventBefore(n) = D
  <2>1. i \in S /\ \A j \in S : j <= i
    BY <1>n, <1>2
  <2>2. \A k \in S : (\A j \in S : j <= k) => k = i
    BY <1>n, <2>1
  <2>3. (CHOOSE k \in S : \A j \in S : j <= k) = i
    BY <2>1, <2>2
  <2>4. LastEventBefore(n) = mainQ[CHOOSE k \in S : \A j \in S : j <= k].docs
    BY <2>1 DEF LastEventBefore
  <2> QED
    BY <1>2, <2>3, <2>4
<1> QED
  BY <1>1, <1>2 DEF LastIs

(* Blocks posted behind place n change nothing before it. *)
LEMMA LastBefore ==
  ASSUME NEW Q \in Seq(Block), NEW s \in Seq(Block), NEW n \in 1..(Len(Q) + 1),
         NEW dl, NEW D, LastIs(Q, dl, n, D)
  PROVE  LastIs(Q \o s, dl, n, D)
<1>1. \A i \in 1..(n - 1) : (Q \o s)[i] = Q[i]
  OBVIOUS
<1>2. Len(Q) \in Nat /\ n \in Nat /\ \A i \in 1..(n - 1) : (i + 1)..(n - 1) \subseteq 1..(n - 1)
  OBVIOUS
<1> QED
  BY <1>1, <1>2 DEF LastIs

(* Blocks that are no events leave the last event of the queue the last. *)
LEMMA LastStays ==
  ASSUME NEW Q \in Seq(Block), NEW s \in Seq(Block), NEW dl, NEW D,
         LastIs(Q, dl, Len(Q) + 1, D), \A b \in Elements(s) : b.kind # "snapshot"
  PROVE  LastIs(Q \o s, dl, Len(Q \o s) + 1, D)
<1>1. /\ Len(Q) \in Nat /\ Len(s) \in Nat /\ Len(Q \o s) = Len(Q) + Len(s)
      /\ \A i \in 1..Len(Q) : (Q \o s)[i] = Q[i]
      /\ \A i \in (Len(Q) + 1)..(Len(Q) + Len(s)) : (Q \o s)[i] = s[i - Len(Q)]
  OBVIOUS
<1>2. \A i \in (Len(Q) + 1)..(Len(Q) + Len(s)) : (Q \o s)[i].kind # "snapshot"
  <2> SUFFICES ASSUME NEW i \in (Len(Q) + 1)..(Len(Q) + Len(s))
               PROVE  (Q \o s)[i].kind # "snapshot"
    OBVIOUS
  <2>1. i - Len(Q) \in DOMAIN s
    BY <1>1
  <2> QED
    BY <1>1, <2>1 DEF Elements
<1>3. CASE (\A i \in 1..Len(Q) : Q[i].kind # "snapshot") /\ D = dl
  <2>1. \A i \in 1..(Len(Q) + Len(s)) : (Q \o s)[i].kind # "snapshot"
    <3> SUFFICES ASSUME NEW i \in 1..(Len(Q) + Len(s)) PROVE (Q \o s)[i].kind # "snapshot"
      OBVIOUS
    <3>1. i \in 1..Len(Q) \/ i \in (Len(Q) + 1)..(Len(Q) + Len(s))
      BY <1>1
    <3> QED
      BY <1>1, <1>2, <1>3, <3>1
  <2> QED
    BY <1>1, <1>3, <2>1 DEF LastIs
<1>4. ASSUME NEW i \in 1..Len(Q), Q[i].kind = "snapshot", Q[i].docs = D,
             \A j \in (i + 1)..Len(Q) : Q[j].kind # "snapshot"
      PROVE  LastIs(Q \o s, dl, Len(Q \o s) + 1, D)
  <2>1. \A j \in (i + 1)..(Len(Q) + Len(s)) : (Q \o s)[j].kind # "snapshot"
    <3> SUFFICES ASSUME NEW j \in (i + 1)..(Len(Q) + Len(s))
                 PROVE  (Q \o s)[j].kind # "snapshot"
      OBVIOUS
    <3>1. (j \in 1..Len(Q) /\ j \in (i + 1)..Len(Q)) \/ j \in (Len(Q) + 1)..(Len(Q) + Len(s))
      BY <1>1
    <3> QED
      BY <1>1, <1>2, <1>4, <3>1
  <2>2. i \in 1..(Len(Q) + Len(s)) /\ (Q \o s)[i] = Q[i]
    BY <1>1
  <2> QED
    BY <1>1, <1>4, <2>1, <2>2 DEF LastIs
<1>5. (Len(Q) + 1) - 1 = Len(Q)
  BY <1>1
<1> QED
  BY <1>3, <1>4, <1>5 DEF LastIs

(* An event posted becomes the last. *)
LEMMA LastPosted ==
  ASSUME NEW Q \in Seq(Block), NEW b \in Block, b.kind = "snapshot", NEW dl
  PROVE  LastIs(Append(Q, b), dl, Len(Append(Q, b)) + 1, b.docs)
<1>1. /\ Len(Q) \in Nat /\ Len(Append(Q, b)) = Len(Q) + 1
      /\ Append(Q, b)[Len(Q) + 1] = b
  OBVIOUS
<1>2. (Len(Q) + 1 + 1) - 1 = Len(Q) + 1 /\ Len(Q) + 1 \in 1..(Len(Q) + 1)
      /\ ((Len(Q) + 1) + 1)..(Len(Q) + 1) = {}
  BY <1>1
<1> QED
  BY <1>1, <1>2 DEF LastIs

(* A block that runs moves every place down by one; an event that runs becomes
   what was delivered last. *)
LEMMA LastAfterTail ==
  ASSUME NEW Q \in Seq(Block), Q # <<>>, NEW n \in 2..(Len(Q) + 1), NEW dl, NEW D,
         LastIs(Q, dl, n, D)
  PROVE  LastIs(Tail(Q), IF Head(Q).kind = "snapshot" THEN Head(Q).docs ELSE dl, n - 1, D)
<1> DEFINE m == n - 1
           dn == IF Head(Q).kind = "snapshot" THEN Head(Q).docs ELSE dl
<1>1. /\ Len(Q) \in Nat /\ Len(Q) >= 1 /\ n \in Nat /\ Head(Q) = Q[1]
      /\ \A i \in 1..(Len(Q) - 1) : Tail(Q)[i] = Q[i + 1]
  OBVIOUS
<1>2. CASE (\A i \in 1..(n - 1) : Q[i].kind # "snapshot") /\ D = dl
  <2>1. Head(Q).kind # "snapshot"
    BY <1>1, <1>2
  <2>2. \A i \in 1..(m - 1) : Tail(Q)[i].kind # "snapshot"
    <3> SUFFICES ASSUME NEW i \in 1..(m - 1) PROVE Tail(Q)[i].kind # "snapshot"
      OBVIOUS
    <3>1. i \in 1..(Len(Q) - 1) /\ i + 1 \in 1..(n - 1)
      BY <1>1
    <3> QED
      BY <1>1, <1>2, <3>1
  <2> QED
    BY <1>2, <2>1, <2>2 DEF LastIs
<1>3. ASSUME NEW i \in 1..(n - 1), Q[i].kind = "snapshot", Q[i].docs = D,
             \A j \in (i + 1)..(n - 1) : Q[j].kind # "snapshot"
      PROVE  LastIs(Tail(Q), dn, m, D)
  <2>1. \A j \in i..(m - 1) : j # 0 => Tail(Q)[j].kind # "snapshot"
    <3> SUFFICES ASSUME NEW j \in i..(m - 1) PROVE Tail(Q)[j].kind # "snapshot"
      OBVIOUS
    <3>1. j \in 1..(Len(Q) - 1) /\ j + 1 \in (i + 1)..(n - 1)
      BY <1>1
    <3> QED
      BY <1>1, <1>3, <3>1
  <2>2. CASE i = 1
    <3>1. dn = D
      BY <1>1, <1>3, <2>2
    <3>2. \A j \in 1..(m - 1) : Tail(Q)[j].kind # "snapshot"
      BY <2>1, <2>2, <1>1
    <3> QED
      BY <3>1, <3>2 DEF LastIs
  <2>3. CASE i # 1
    <3>1. i - 1 \in 1..(m - 1) /\ i - 1 \in 1..(Len(Q) - 1) /\ (i - 1) + 1 = i
      BY <1>1, <2>3
    <3>2. Tail(Q)[i - 1] = Q[i]
      BY <1>1, <3>1
    <3>3. \A j \in ((i - 1) + 1)..(m - 1) : Tail(Q)[j].kind # "snapshot"
      BY <2>1, <3>1, <1>1
    <3> QED
      BY <1>3, <3>1, <3>2, <3>3 DEF LastIs
  <2> QED
    BY <2>2, <2>3
<1> QED
  BY <1>2, <1>3 DEF LastIs

-----------------------------------------------------------------------------
(* What the listener was told.  The first two conjuncts say what it is owed;
   the others are what makes them inductive: a completion exists only once the
   listener is live, behind an event that holds its document, and an error is
   the end. *)
SavedIsBehind(Q, dl) ==
  \A i \in DOMAIN Q :
    Q[i].kind = "saved" => \E D \in SUBSET Doc : LastIs(Q, dl, i, D) /\ Q[i].doc \in D

EventInv ==
  /\ listener = "live" => LastIs(mainQ, delivered, Len(mainQ) + 1, View)
  /\ listener = "waiting" => View = {}
  /\ listener \in {"none", "waiting"} =>
       callbacks = {} /\ \A b \in Elements(mainQ) : b.kind # "saved"
  /\ \A b \in Elements(mainQ) : b.kind = "error" => listener = "dead"
  /\ listener = "live" => SavedIsBehind(mainQ, delivered)

(* The listener is attached once, by the first task of the worker queue. *)
AttachInv ==
  /\ listener = "none" => workerQ # <<>> /\ Head(workerQ).op = "listen"
  /\ \A i \in DOMAIN workerQ : workerQ[i].op = "listen" => i = 1 /\ listener = "none"

LEMMA OwedNothing ==
  ASSUME TypeOK, EventInv
  PROVE  ListenerUpToDate /\ SavedMessageIsDelivered
<1>1. mainQ \in Seq(Block) /\ Len(mainQ) \in Nat /\ DOMAIN mainQ = 1..Len(mainQ)
  BY DEF TypeOK, ClientTypeOK
<1>2. Len(mainQ) + 1 \in 1..(Len(mainQ) + 1)
  BY <1>1
<1>3. ListenerUpToDate
  BY <1>2, LastIsLast DEF EventInv, ListenerUpToDate
<1>4. ASSUME NEW i \in DOMAIN mainQ, mainQ[i].kind = "saved", listener = "live"
      PROVE  mainQ[i].doc \in LastEventBefore(i)
  <2>1. PICK D \in SUBSET Doc : LastIs(mainQ, delivered, i, D) /\ mainQ[i].doc \in D
    BY <1>4 DEF EventInv, SavedIsBehind
  <2>2. i \in 1..(Len(mainQ) + 1)
    BY <1>1
  <2> QED
    BY <2>1, <2>2, LastIsLast
<1> QED
  BY <1>3, <1>4 DEF SavedMessageIsDelivered

(* Completions keep their place behind their event, whatever is posted. *)
LEMMA SavedStaysBehind ==
  ASSUME NEW Q \in Seq(Block), NEW s \in Seq(Block), NEW dl, SavedIsBehind(Q, dl),
         \A b \in Elements(s) : b.kind # "saved"
  PROVE  SavedIsBehind(Q \o s, dl)
<1> SUFFICES ASSUME NEW i \in DOMAIN (Q \o s), (Q \o s)[i].kind = "saved"
             PROVE  \E D \in SUBSET Doc : LastIs(Q \o s, dl, i, D) /\ (Q \o s)[i].doc \in D
  BY DEF SavedIsBehind
<1>1. i \in DOMAIN Q /\ (Q \o s)[i] = Q[i]
  BY ConcatPlaces DEF Elements
<1>2. PICK D \in SUBSET Doc : LastIs(Q, dl, i, D) /\ Q[i].doc \in D
  BY <1>1 DEF SavedIsBehind
<1>3. i \in 1..(Len(Q) + 1)
  BY <1>1
<1> QED
  BY <1>1, <1>2, <1>3, LastBefore

(* A completion posted behind the event that holds its document. *)
LEMMA SavedPosted ==
  ASSUME NEW Q \in Seq(Block), NEW b \in Block, NEW dl, NEW V \in SUBSET Doc,
         SavedIsBehind(Q, dl), LastIs(Q, dl, Len(Q) + 1, V), b.kind = "saved" => b.doc \in V
  PROVE  SavedIsBehind(Q \o <<b>>, dl)
<1>s. <<b>> \in Seq(Block) /\ DOMAIN <<b>> = {1} /\ <<b>>[1] = b
  OBVIOUS
<1> SUFFICES ASSUME NEW i \in DOMAIN (Q \o <<b>>), (Q \o <<b>>)[i].kind = "saved"
             PROVE  \E D \in SUBSET Doc : /\ LastIs(Q \o <<b>>, dl, i, D)
                                          /\ (Q \o <<b>>)[i].doc \in D
  BY DEF SavedIsBehind
<1>1. CASE i \in DOMAIN Q /\ (Q \o <<b>>)[i] = Q[i]
  <2>1. PICK D \in SUBSET Doc : LastIs(Q, dl, i, D) /\ Q[i].doc \in D
    BY <1>1 DEF SavedIsBehind
  <2>2. i \in 1..(Len(Q) + 1)
    BY <1>1
  <2> QED
    BY <1>s, <1>1, <2>1, <2>2, LastBefore
<1>2. CASE i - Len(Q) \in DOMAIN <<b>> /\ (Q \o <<b>>)[i] = <<b>>[i - Len(Q)]
  <2>0. DOMAIN (Q \o <<b>>) \subseteq Nat /\ Len(Q) \in Nat
    OBVIOUS
  <2>1. i = Len(Q) + 1 /\ (Q \o <<b>>)[i] = b
    BY <1>s, <1>2, <2>0
  <2>2. Len(Q) + 1 \in 1..(Len(Q) + 1)
    BY <2>0
  <2>3. LastIs(Q \o <<b>>, dl, i, V)
    BY <1>s, <2>1, <2>2, LastBefore
  <2> QED
    BY <2>1, <2>3
<1> QED
  BY <1>s, <1>1, <1>2, ConcatPlaces

(* A block that runs leaves every completion behind its event. *)
LEMMA SavedAfterTail ==
  ASSUME NEW Q \in Seq(Block), Q # <<>>, NEW dl, SavedIsBehind(Q, dl)
  PROVE  SavedIsBehind(Tail(Q), IF Head(Q).kind = "snapshot" THEN Head(Q).docs ELSE dl)
<1> DEFINE dn == IF Head(Q).kind = "snapshot" THEN Head(Q).docs ELSE dl
<1> SUFFICES ASSUME NEW i \in DOMAIN Tail(Q), Tail(Q)[i].kind = "saved"
             PROVE  \E D \in SUBSET Doc : LastIs(Tail(Q), dn, i, D) /\ Tail(Q)[i].doc \in D
  BY DEF SavedIsBehind
<1>1. i \in Nat /\ i + 1 \in DOMAIN Q /\ Tail(Q)[i] = Q[i + 1]
  BY TailPlaces
<1>2. PICK D \in SUBSET Doc : LastIs(Q, dl, i + 1, D) /\ Q[i + 1].doc \in D
  BY <1>1 DEF SavedIsBehind
<1>3. i >= 1
  OBVIOUS
<1>4. i + 1 \in 2..(Len(Q) + 1) /\ (i + 1) - 1 = i
  BY <1>1, <1>3
<1>5. LastIs(Tail(Q), dn, (i + 1) - 1, D)
  BY <1>2, <1>4, LastAfterTail
<1> QED
  BY <1>1, <1>2, <1>4, <1>5

-----------------------------------------------------------------------------
(* What Publish posts first is nothing, or the completion of a write in the
   view. *)
Answer(first) ==
  \/ first = <<>>
  \/ \E b \in Block : /\ first = <<b>> /\ b.kind \in {"saved", "failed"}
                      /\ b.doc \in callbacks /\ b.doc \in View

LEMMA PublishKeepsEvents ==
  ASSUME TypeOK, EventInv, NEW first \in Seq(Block), NEW v \in SUBSET Doc, NEW cur, NEW onl,
         Answer(first), Publish(first, v, cur, onl), View' = v, delivered' = delivered,
         callbacks' \subseteq callbacks \/ (v # {} /\ listener # "none")
  PROVE  /\ EventInv'
         /\ listener' # listener => listener = "waiting" /\ listener' = "live"
<1> DEFINE r == Raises(v, cur, onl)
           t == IF r THEN <<Snapshot(v)>> ELSE <<>>
<1>a. /\ mainQ \in Seq(Block) /\ View \in SUBSET Doc
      /\ listener \in {"none", "waiting", "live", "dead"}
  BY ViewType DEF TypeOK, ClientTypeOK
<1>b. Snapshot(v) \in Block /\ Snapshot(v).kind = "snapshot" /\ Snapshot(v).docs = v
  BY DEF Snapshot, Block
<1>c. t \in Seq(Block) /\ \A b \in Elements(t) : b = Snapshot(v)
  BY <1>b DEF Elements
<1>d. mainQ' = (mainQ \o first) \o t /\ mainQ \o first \in Seq(Block)
      /\ listener' = IF r THEN "live" ELSE listener
  BY <1>a DEF Publish
<1>e. /\ r => listener \in {"waiting", "live"}
      /\ listener = "waiting" /\ ~r => v = {}
      /\ listener = "live" /\ ~r => v = View
  BY DEF Raises, ShouldRaiseInitialEvent
<1> HIDE DEF r
<1>f. Elements(mainQ') = (Elements(mainQ) \cup Elements(first)) \cup Elements(t)
  <2>1. \A p, q \in Seq(Block) : Elements(p \o q) = Elements(p) \cup Elements(q)
    BY ElementsOfConcat
  <2> QED
    BY <1>a, <1>c, <1>d, <2>1
<1>g. \A b \in Elements(first) : /\ b.kind \in {"saved", "failed"}
                                 /\ b.doc \in callbacks /\ b.doc \in View
  BY DEF Answer, Elements
<1>h. callbacks = {} => first = <<>>
  BY DEF Answer
<1>1. listener' # listener => listener = "waiting" /\ listener' = "live"
  BY <1>a, <1>d, <1>e
<1>2. \A b \in Elements(mainQ') : b.kind = "error" => listener' = "dead"
  <2>1. \A b \in Elements(mainQ') : b.kind = "error" => b \in Elements(mainQ)
    BY <1>b, <1>c, <1>f, <1>g
  <2> QED
    BY <2>1, <1>1 DEF EventInv
<1>3. listener' \in {"none", "waiting"} =>
        callbacks' = {} /\ \A b \in Elements(mainQ') : b.kind # "saved"
  <2> SUFFICES ASSUME listener' \in {"none", "waiting"}
               PROVE  callbacks' = {} /\ \A b \in Elements(mainQ') : b.kind # "saved"
    OBVIOUS
  <2>1. ~r /\ listener' = listener /\ callbacks = {}
    BY <1>a, <1>d DEF EventInv
  <2>2. callbacks' = {}
    <3>1. CASE callbacks' \subseteq callbacks
      BY <2>1, <3>1
    <3>2. ~(v # {} /\ listener # "none")
      BY <2>1, <1>a, <1>d, <1>e
    <3> QED
      BY <3>1, <3>2
  <2>3. Elements(first) = {}
    BY <1>h, <2>1 DEF Elements
  <2> QED
    BY <1>b, <1>c, <1>f, <2>1, <2>2, <2>3 DEF EventInv
<1>4. listener' = "waiting" => View' = {}
  BY <1>d, <1>e
<1>5. SUFFICES ASSUME listener' = "live"
               PROVE  /\ LastIs(mainQ', delivered, Len(mainQ') + 1, v)
                      /\ SavedIsBehind(mainQ', delivered)
  BY <1>1, <1>2, <1>3, <1>4 DEF EventInv, LastIs, SavedIsBehind
<1>6. SavedIsBehind(mainQ \o first, delivered)
  <2>1. CASE first = <<>>
    <3>1. mainQ \o first = mainQ
      BY <1>a, <2>1, ConcatEmptySeq
    <3>2. CASE listener = "live"
      BY <3>1, <3>2 DEF EventInv
    <3>3. CASE listener = "waiting"
      BY <3>1, <3>3 DEF EventInv, SavedIsBehind, Elements
    <3> QED
      BY <3>2, <3>3, <1>1, <1>5
  <2>2. CASE first # <<>>
    <3>1. PICK b \in Block : /\ first = <<b>> /\ b.doc \in View
      BY <2>2 DEF Answer
    <3>2. callbacks # {}
      BY <1>h, <2>2
    <3>3. listener = "live"
      BY <3>2, <1>1, <1>5 DEF EventInv
    <3> QED
      BY <1>a, <3>1, <3>3, SavedPosted DEF EventInv
  <2> QED
    BY <2>1, <2>2
<1>7. SavedIsBehind(mainQ', delivered)
  BY <1>b, <1>c, <1>d, <1>6, SavedStaysBehind
<1>8. LastIs(mainQ', delivered, Len(mainQ') + 1, v)
  <2>1. CASE r
    <3>1. mainQ' = Append(mainQ \o first, Snapshot(v))
      BY <1>d, <2>1, <1>b, AppendIsConcat
    <3> QED
      BY <1>b, <1>d, <3>1, LastPosted
  <2>2. CASE ~r
    <3>1. listener = "live" /\ v = View
      BY <1>d, <1>e, <1>5, <2>2
    <3>2. mainQ' = mainQ \o first
      BY <1>d, <2>2, ConcatEmptySeq
    <3>3. \A b \in Elements(first) : b.kind # "snapshot"
      BY <1>g
    <3> QED
      BY <1>a, <3>1, <3>2, <3>3, LastStays DEF EventInv
  <2> QED
    BY <2>1, <2>2
<1> QED
  BY <1>7, <1>8

(* A step that posts blocks that are neither events nor completions, and leaves
   the client alone. *)
LEMMA QuietKeepsEvents ==
  ASSUME TypeOK, EventInv, NEW s \in Seq(Block), mainQ' = mainQ \o s,
         \A b \in Elements(s) : b.kind \notin {"snapshot", "saved", "error"},
         UNCHANGED <<listener, callbacks, delivered>>, View' = View
  PROVE  EventInv'
<1>1. mainQ \in Seq(Block)
  BY DEF TypeOK, ClientTypeOK
<1>2. Elements(mainQ') = Elements(mainQ) \cup Elements(s)
  BY <1>1, ElementsOfConcat
<1>3. listener = "live" => LastIs(mainQ', delivered, Len(mainQ') + 1, View)
  BY <1>1, LastStays DEF EventInv
<1>4. listener = "live" => SavedIsBehind(mainQ', delivered)
  BY <1>1, SavedStaysBehind DEF EventInv
<1> QED
  BY <1>2, <1>3, <1>4 DEF EventInv, LastIs, SavedIsBehind

LEMMA WorkerKeepsEvents ==
  ASSUME TypeOK, EventInv, AttachInv, WorkerStep, delivered' = delivered
  PROVE  EventInv' /\ AttachInv'
<1>a. /\ ClientTypeOK /\ View \in SUBSET Doc /\ mainQ \in Seq(Block) /\ workerQ \in Seq(Task)
      /\ workerQ # <<>> /\ workerQ' = Tail(workerQ)
      /\ <<>> \in Seq(Block) /\ Answer(<<>>)
  BY ViewType, EmptySeq DEF TypeOK, ClientTypeOK, WorkerStep, RunListen, RunWrite, RunUser, Answer
<1>b. Head(workerQ) = workerQ[1] /\ 1 \in DOMAIN workerQ
  BY <1>a
<1>c. \A i \in DOMAIN workerQ' : workerQ'[i].op # "listen"
  <2> SUFFICES ASSUME NEW i \in DOMAIN workerQ', workerQ'[i].op = "listen" PROVE FALSE
    OBVIOUS
  <2>1. i \in Nat /\ i + 1 \in DOMAIN workerQ /\ workerQ[i + 1].op = "listen"
    BY <1>a, TailPlaces
  <2>2. i >= 1
    BY <1>a
  <2> QED
    BY <2>1, <2>2 DEF AttachInv
<1>1. CASE RunListen
  <2>1. /\ listener = "none" /\ UNCHANGED <<callbacks, cache, mutations, curUser>>
        /\ View' = View
    BY <1>b, <1>1 DEF RunListen, AttachInv, View, ViewOf
  <2>2. AttachInv'
    BY <1>1, <1>c DEF RunListen, AttachInv
  <2>3. /\ callbacks = {} /\ \A b \in Elements(mainQ) : b.kind \notin {"saved", "error"}
    BY <2>1 DEF EventInv
  <2>4. CASE listener' = "live"
    <3>0. listener' # "waiting"
      BY <2>4
    <3>1. Snapshot(View) \in Block /\ Snapshot(View).kind = "snapshot"
          /\ Snapshot(View).docs = View
      BY <1>a DEF Snapshot, Block
    <3>2. mainQ' = Append(mainQ, Snapshot(View))
      BY <1>1, <3>0 DEF RunListen
    <3>3. LastIs(mainQ', delivered, Len(mainQ') + 1, View)
      BY <1>a, <3>1, <3>2, LastPosted
    <3>4. Elements(mainQ') = Elements(mainQ) \cup {Snapshot(View)}
      BY <1>a, <3>1, <3>2, ElementsOfAppend
    <3>5. SavedIsBehind(mainQ', delivered)
      BY <2>3, <3>1, <3>4 DEF SavedIsBehind, Elements
    <3> QED
      BY <2>1, <2>2, <2>3, <2>4, <3>1, <3>3, <3>4, <3>5 DEF EventInv, LastIs, SavedIsBehind
  <2>5. CASE listener' = "waiting"
    <3>1. View = {} /\ mainQ' = mainQ
      BY <1>1, <2>5 DEF RunListen, ShouldRaiseInitialEvent
    <3> QED
      BY <2>1, <2>2, <2>3, <2>5, <3>1 DEF EventInv
  <2> QED
    BY <1>1, <2>4, <2>5 DEF RunListen
<1>d. listener' # "none" => AttachInv'
  BY <1>c DEF AttachInv
<1>2. CASE RunWrite
  <2> DEFINE d == Head(workerQ).doc
  <2>1. d \in Doc /\ listener # "none"
    BY <1>a, <1>2, TaskTaken DEF RunWrite, Task, AttachInv
  <2>2. /\ Publish(<<>>, View \cup {d}, current, online)
        /\ mutations' = [mutations EXCEPT ![curUser] = Append(@, d)]
        /\ UNCHANGED <<curUser, cache>>
    BY <1>2 DEF RunWrite
  <2>3. View' = View \cup {d}
    <3>1. mutations[curUser] \in Seq(Doc) /\ curUser \in Account
      BY <1>a DEF ClientTypeOK
    <3>2. mutations'[curUser] = Append(mutations[curUser], d)
      BY <1>a, <2>2, <3>1 DEF ClientTypeOK
    <3>3. Elements(mutations'[curUser]) = Elements(mutations[curUser]) \cup {d}
      BY <2>1, <3>1, <3>2, ElementsOfAppend
    <3> QED
      BY <2>2, <3>3 DEF View, ViewOf
  <2>4. View \cup {d} \in SUBSET Doc /\ View \cup {d} # {}
    BY <1>a, <2>1
  <2> QED
    BY <1>a, <1>d, <2>1, <2>2, <2>3, <2>4, PublishKeepsEvents
<1>3. CASE RunUser
  <2> DEFINE v == ViewOf(cache, mutations, curUser')
  <2>1. Head(workerQ).user \in Account /\ Head(workerQ).op # "listen"
    BY <1>a, <1>3, TaskTaken DEF RunUser, Task
  <2>2. v \in SUBSET Doc /\ listener # "none" /\ View' = v
    BY <1>a, <1>3, <2>1, ViewType DEF RunUser, AttachInv, View, ViewOf
  <2>3. Publish(<<>>, v, current, online) /\ callbacks' = callbacks
    BY <1>3 DEF RunUser
  <2> QED
    BY <1>a, <1>d, <2>2, <2>3, PublishKeepsEvents
<1> QED
  BY <1>1, <1>2, <1>3 DEF WorkerStep

LEMMA NetworkKeepsEvents ==
  ASSUME TypeOK, EventInv, AttachInv, NetworkStep, delivered' = delivered
  PROVE  EventInv' /\ AttachInv'
<1>a. /\ ClientTypeOK /\ View \in SUBSET Doc /\ mainQ \in Seq(Block)
      /\ mutations[curUser] \in Seq(Doc) /\ curUser \in Account /\ cache \in SUBSET Doc
      /\ <<>> \in Seq(Block) /\ Answer(<<>>)
  BY ViewType, EmptySeq DEF TypeOK, ClientTypeOK, Answer
<1>b. workerQ' = workerQ
  BY DEF NetworkStep, WriteAccepted, WriteRejected, WatchAdds, WatchRemoves, WatchCurrent,
         OnlineStateChanges, ListenFails
<1>c. ASSUME listener' # listener => listener # "none" /\ listener' # "none"
      PROVE  AttachInv'
  BY <1>b, <1>c DEF AttachInv
<1>d. ASSUME NEW v \in SUBSET Doc, NEW cur, NEW onl, Publish(<<>>, v, cur, onl),
             View' = v, callbacks' = callbacks
      PROVE  EventInv' /\ AttachInv'
  BY <1>a, <1>c, <1>d, PublishKeepsEvents
<1>1. ASSUME WriteAccepted \/ WriteRejected PROVE EventInv' /\ AttachInv'
  <2> DEFINE d == Head(mutations[curUser])
  <2>1. /\ mutations[curUser] # <<>> /\ UNCHANGED curUser /\ callbacks' = callbacks \ {d}
        /\ mutations' = [mutations EXCEPT ![curUser] = Tail(@)]
    BY <1>1 DEF WriteAccepted, WriteRejected
  <2>2. d \in Doc /\ mutations' \in [Account -> Seq(Doc)]
        /\ mutations'[curUser] = Tail(mutations[curUser])
    BY <1>a, <2>1, OldestWriteType DEF ClientTypeOK
  <2>3. Elements(mutations[curUser]) = {d} \cup Elements(mutations'[curUser])
    BY <1>a, <2>1, <2>2, ElementsOfTail
  <2>4. d \in View
    BY <2>3 DEF View, ViewOf
  <2>5. \A b \in Block : b.kind \in {"saved", "failed"} /\ b.doc = d =>
          Completion(d, b) \in Seq(Block) /\ Answer(Completion(d, b))
    BY <2>2, <2>4, <1>a, CompletionType DEF Completion, Answer
  <2>6. CASE WriteAccepted
    <3>1. Saved(d) \in Block /\ Saved(d).kind = "saved" /\ Saved(d).doc = d
      BY <2>2 DEF Saved, Block
    <3>2. Publish(Completion(d, Saved(d)), View, current, online) /\ cache' = cache \cup {d}
      BY <2>6 DEF WriteAccepted
    <3>3. View' = View
      BY <2>1, <2>3, <3>2 DEF View, ViewOf
    <3> QED
      BY <1>a, <1>c, <2>1, <2>5, <3>1, <3>2, <3>3, PublishKeepsEvents
  <2>7. CASE WriteRejected
    <3> DEFINE v == ViewOf(cache, mutations', curUser)
    <3>1. Failed(d) \in Block /\ Failed(d).kind = "failed" /\ Failed(d).doc = d
      BY <2>2 DEF Failed, Block
    <3>2. Publish(Completion(d, Failed(d)), v, current, online) /\ cache' = cache
      BY <2>7 DEF WriteRejected
    <3>3. View' = v
      BY <2>1, <3>2 DEF View, ViewOf
    <3>4. v \in SUBSET Doc
      BY <1>a, <2>2 DEF ViewOf, Elements
    <3> QED
      BY <1>a, <1>c, <2>1, <2>5, <3>1, <3>2, <3>3, <3>4, PublishKeepsEvents
  <2> QED
    BY <1>1, <2>6, <2>7
<1>2. ASSUME NEW e \in Doc, WatchAdds(e) PROVE EventInv' /\ AttachInv'
  <2>1. /\ Publish(<<>>, View \cup {e}, current, online) /\ callbacks' = callbacks
        /\ View' = View \cup {e} /\ View \cup {e} \in SUBSET Doc
    BY <1>a, <1>2 DEF WatchAdds, View, ViewOf
  <2> QED
    BY <1>d, <2>1
<1>3. ASSUME NEW e \in Doc, WatchRemoves(e) PROVE EventInv' /\ AttachInv'
  <2> DEFINE v == ViewOf(cache', mutations, curUser)
  <2>1. /\ Publish(<<>>, v, current, online) /\ callbacks' = callbacks
        /\ View' = v /\ cache' \in SUBSET Doc
    BY <1>a, <1>3 DEF WatchRemoves, View, ViewOf
  <2>2. v \in SUBSET Doc
    BY <1>a, <2>1 DEF ViewOf, Elements
  <2> QED
    BY <1>d, <2>1, <2>2
<1>4. CASE WatchCurrent
  <2>1. Publish(<<>>, View, current', online) /\ callbacks' = callbacks /\ View' = View
    BY <1>4 DEF WatchCurrent, View, ViewOf
  <2> QED
    BY <1>a, <1>d, <2>1
<1>5. ASSUME NEW new \in {"Unknown", "Online", "Offline"}, OnlineStateChanges(new)
      PROVE  EventInv' /\ AttachInv'
  <2>1. Publish(<<>>, View, current', new) /\ callbacks' = callbacks /\ View' = View
    BY <1>5 DEF OnlineStateChanges, View, ViewOf
  <2> QED
    BY <1>a, <1>d, <2>1
<1>6. CASE ListenFails
  <2>1. listener # "none" /\ listener' = "dead"
    BY <1>6 DEF ListenFails, Listening
  <2> QED
    BY <1>c, <2>1 DEF EventInv
<1> QED
  BY <1>1, <1>2, <1>3, <1>4, <1>5, <1>6 DEF NetworkStep

LEMMA MainKeepsEvents ==
  ASSUME TypeOK, EventInv, AttachInv, MainStep
  PROVE  EventInv' /\ AttachInv'
<1> DEFINE T == Tail(mainQ)
           dn == IF Head(mainQ).kind = "snapshot" THEN Head(mainQ).docs ELSE delivered
<1>1. /\ mainQ # <<>> /\ mainQ \in Seq(Block) /\ T \in Seq(Block) /\ workerQ \in Seq(Task)
      /\ Elements(mainQ) = {Head(mainQ)} \cup Elements(T)
  BY MainQueue, ElementsOfTail DEF TypeOK, ClientTypeOK
<1>2. PICK s \in Seq(Block) :
        /\ mainQ' = T \o s
        /\ \A b \in Elements(s) : b.kind = "reload" \/ (b.kind = "clear" /\ RunSaved)
  BY MainQueue
<1>3. View' = View /\ callbacks' = callbacks /\ listener' = listener
  BY MainView, MainTasks DEF MainStep, RunSnapshot, RunError, RunReload, RunSaved, RunFailed,
                             RunClear, RunAuth, Only
<1>4. Head(mainQ).kind = "error" \/ delivered' = dn
  BY DEF MainStep, RunSnapshot, RunError, RunReload, RunSaved, RunFailed, RunClear, RunAuth,
         Runs, Only, screenVars
<1>5. AttachInv'
  <2>1. CASE workerQ' = workerQ
    BY <1>3, <2>1 DEF AttachInv
  <2>2. ASSUME NEW u \in Account, workerQ' = Append(workerQ, Become(u)) PROVE AttachInv'
    <3>1. Become(u) \in Task /\ Become(u).op # "listen"
      BY DEF Become, Task
    <3>2. workerQ # <<>> => Head(workerQ') = Head(workerQ)
      BY <1>1, <2>2, <3>1
    <3>3. \A i \in DOMAIN workerQ' : \/ workerQ'[i] = Become(u)
                                     \/ i \in DOMAIN workerQ /\ workerQ'[i] = workerQ[i]
      BY <1>1, <2>2, <3>1
    <3>4. workerQ' # <<>>
      BY <1>1, <2>2, <3>1
    <3> QED
      BY <1>3, <3>1, <3>2, <3>3, <3>4 DEF AttachInv
  <2> QED
    BY <2>1, <2>2, MainTasks
<1>6. Elements(mainQ') = Elements(T) \cup Elements(s)
  <2>1. \A p, q \in Seq(Block) : Elements(p \o q) = Elements(p) \cup Elements(q)
    BY ElementsOfConcat
  <2> QED
    BY <1>1, <1>2, <2>1
<1>7. \A b \in Elements(s) : b.kind \notin {"snapshot", "saved", "error"}
  BY <1>2
<1>8. ASSUME listener = "live"
      PROVE  /\ LastIs(mainQ', delivered', Len(mainQ') + 1, View)
             /\ SavedIsBehind(mainQ', delivered')
  <2>1. delivered' = dn
    BY <1>1, <1>4, <1>8 DEF EventInv
  <2>2. /\ Len(mainQ) \in Nat /\ Len(mainQ) + 1 \in 2..(Len(mainQ) + 1)
        /\ (Len(mainQ) + 1) - 1 = Len(T) + 1
    BY <1>1
  <2>3. LastIs(T, dn, Len(T) + 1, View)
    <3>1. LastIs(mainQ, delivered, Len(mainQ) + 1, View)
      BY <1>8 DEF EventInv
    <3>2. LastIs(T, dn, (Len(mainQ) + 1) - 1, View)
      BY <1>1, <2>2, <3>1, LastAfterTail
    <3> QED
      BY <2>2, <3>2
  <2>4. SavedIsBehind(T, dn)
    BY <1>1, <1>8, SavedAfterTail DEF EventInv
  <2> HIDE DEF T, dn
  <2> QED
    BY <1>1, <1>2, <1>7, <2>1, <2>3, <2>4, LastStays, SavedStaysBehind
<1>9. EventInv'
  BY <1>1, <1>3, <1>6, <1>7, <1>8 DEF EventInv, LastIs, SavedIsBehind
<1> QED
  BY <1>5, <1>9

LEMMA UserKeepsEvents ==
  ASSUME TypeOK, EventInv, AttachInv, UserStep
  PROVE  EventInv' /\ AttachInv'
<1>a. mainQ \in Seq(Block) /\ workerQ \in Seq(Task)
  BY DEF TypeOK, ClientTypeOK
<1>1. /\ UNCHANGED <<curUser, mutations, callbacks, cache, listener, delivered>>
      /\ workerQ' = workerQ \/ \E d \in Doc : workerQ' = Append(workerQ, Write(d))
  BY DEF UserStep, FirstLayout, TouchMissingRow, Type, SendPressed, LogOutPressed,
         ForcedSignOut, SignInAgain, Only, clientVars, screenVars
<1>2. View' = View
  BY <1>1 DEF View, ViewOf
<1>3. PICK s \in Seq(Block) : /\ mainQ' = mainQ \o s
                              /\ \A b \in Elements(s) : b.kind = "auth"
  <2>1. CASE mainQ' = mainQ
    <3>1. mainQ' = mainQ \o <<>> /\ <<>> \in Seq(Block) /\ Elements(<<>>) = {}
      BY <1>a, <2>1, ConcatEmptySeq, EmptySeq DEF Elements
    <3> QED
      BY <3>1
  <2>2. ASSUME NEW u \in Account, mainQ' = Append(mainQ, Auth(u))
        PROVE  \E s \in Seq(Block) : mainQ' = mainQ \o s /\ \A b \in Elements(s) : b.kind = "auth"
    <3>1. Auth(u) \in Block /\ Auth(u).kind = "auth"
      BY DEF Auth, Block
    <3>2. <<Auth(u)>> \in Seq(Block) /\ mainQ' = mainQ \o <<Auth(u)>>
      BY <1>a, <2>2, <3>1, AppendIsConcat
    <3>3. \A b \in Elements(<<Auth(u)>>) : b = Auth(u)
      BY DEF Elements
    <3> QED
      BY <3>1, <3>2, <3>3
  <2> QED
    BY <2>1, <2>2, UserQueue
<1>4. EventInv'
  BY <1>1, <1>2, <1>3, QuietKeepsEvents
<1>5. AttachInv'
  <2>1. CASE workerQ' = workerQ
    BY <1>1, <2>1 DEF AttachInv
  <2>2. ASSUME NEW d \in Doc, workerQ' = Append(workerQ, Write(d)) PROVE AttachInv'
    <3>1. Write(d) \in Task /\ Write(d).op # "listen"
      BY DEF Write, Task
    <3>2. workerQ' # <<>> /\ (workerQ # <<>> => Head(workerQ') = Head(workerQ))
      BY <1>a, <2>2, <3>1
    <3>3. \A i \in DOMAIN workerQ' : \/ workerQ'[i] = Write(d)
                                     \/ i \in DOMAIN workerQ /\ workerQ'[i] = workerQ[i]
      BY <1>a, <2>2, <3>1
    <3> QED
      BY <1>1, <3>1, <3>2, <3>3 DEF AttachInv
  <2> QED
    BY <1>1, <2>1, <2>2
<1> QED
  BY <1>4, <1>5

(* After a launch the listener is on its way and nothing is queued. *)
LEMMA LaunchOwesNothing ==
  /\ workerQ = <<Listen>> /\ mainQ = <<>> /\ callbacks = {} /\ listener = "none"
       => EventInv /\ AttachInv
  /\ workerQ' = <<Listen>> /\ mainQ' = <<>> /\ callbacks' = {} /\ listener' = "none"
       => EventInv' /\ AttachInv'
<1>1. Elements(<<>>) = {}
  BY DEF Elements
<1>2. Head(<<Listen>>).op = "listen" /\ DOMAIN <<Listen>> = {1} /\ <<Listen>> # <<>>
  BY DEF Listen
<1>3. workerQ = <<Listen>> /\ mainQ = <<>> /\ callbacks = {} /\ listener = "none"
        => EventInv /\ AttachInv
  BY <1>1, <1>2 DEF EventInv, AttachInv
<1>4. (workerQ = <<Listen>> /\ mainQ = <<>> /\ callbacks = {} /\ listener = "none"
         => EventInv /\ AttachInv)'
  BY <1>3, PTL
<1> QED
  BY <1>3, <1>4

LEMMA EventStep ==
  ASSUME TypeOK, EventInv, AttachInv, [Next]_vars PROVE EventInv' /\ AttachInv'
<1>1. CASE ClientStep(WorkerStep)
  BY <1>1, WorkerKeepsEvents DEF ClientStep, screenVars
<1>2. CASE ClientStep(NetworkStep)
  BY <1>2, NetworkKeepsEvents DEF ClientStep, screenVars
<1>3. CASE MainStep
  BY <1>3, MainKeepsEvents
<1>4. CASE UserStep
  BY <1>4, UserKeepsEvents
<1>5. ASSUME NEW u \in User, Relaunch(u) PROVE EventInv' /\ AttachInv'
  BY <1>5, LaunchOwesNothing DEF Relaunch
<1>6. CASE UNCHANGED vars
  <2>1. UNCHANGED <<workerQ, mainQ, listener, callbacks, delivered, cache, mutations, curUser>>
    BY <1>6 DEF vars, clientVars, screenVars
  <2>2. View' = View
    BY <2>1 DEF View, ViewOf
  <2>3. mainQ' = mainQ \o <<>> /\ <<>> \in Seq(Block) /\ Elements(<<>>) = {}
    BY <2>1, ConcatEmptySeq, EmptySeq DEF Elements, TypeOK, ClientTypeOK
  <2>4. EventInv'
    BY <2>1, <2>2, <2>3, QuietKeepsEvents
  <2> QED
    BY <2>1, <2>4 DEF AttachInv
<1> QED
  BY <1>1, <1>2, <1>3, <1>4, <1>5, <1>6 DEF Next

LEMMA EventsHold == Spec => [](EventInv /\ AttachInv)
<1>1. Init => EventInv /\ AttachInv
  BY LaunchOwesNothing DEF Init, ClientInit
<1>2. TypeOK /\ (EventInv /\ AttachInv) /\ [Next]_vars => (EventInv /\ AttachInv)'
  BY EventStep
<1> QED
  BY <1>1, <1>2, TypeCorrect, PTL DEF Spec

(* A live listener is owed nothing: the last event raised holds exactly the
   documents of the view (event_manager.cc, query_listener.cc), so the screen
   converges when the queue drains. *)
THEOREM ScreenConverges == Spec => []ListenerUpToDate
<1>1. TypeOK /\ (EventInv /\ AttachInv) => ListenerUpToDate
  BY OwedNothing
<1> QED
  BY <1>1, EventsHold, TypeCorrect, PTL

(* The completion of a send runs only behind an event that holds the message
   (ChatViewController.swift:75-77 empties the field without looking). *)
THEOREM FieldIsClearedAfterEvent == Spec => []SavedMessageIsDelivered
<1>1. TypeOK /\ (EventInv /\ AttachInv) => SavedMessageIsDelivered
  BY OwedNothing
<1> QED
  BY <1>1, EventsHold, TypeCorrect, PTL

-----------------------------------------------------------------------------
(* The life of one message: FlashChat implements MessageLifecycle. *)

(* The documents a screen may have seen. *)
Known == Stored \cup cache \cup gone \cup refused

(* A document is in one place. *)
Apart ==
  /\ Queued \cap Known = {} /\ lost \cap (Known \cup Queued) = {}
  /\ Stored \cap (cache \cup gone \cup refused) = {}
  /\ cache \cap (gone \cup refused) = {} /\ gone \cap refused = {}

(* A write is stored once, for one user. *)
StoredOnce(m) ==
  \A u, v \in Account : \A i \in DOMAIN m[u], j \in DOMAIN m[v] :
    m[u][i] = m[v][j] => u = v /\ i = j

(* What the screen shows, holds or is about to be told of is known. *)
SeenKnown ==
  /\ messages \subseteq Known \cup Placeholder
  /\ shown \subseteq Known \cup Placeholder
  /\ \A b \in Elements(mainQ) : b.kind = "snapshot" => b.docs \subseteq Known

LifeInv == Apart /\ StoredOnce(mutations) /\ WrittenOnce(workerQ) /\ SeenKnown

LEMMA PlacesAreDocs ==
  ASSUME ClientTypeOK
  PROVE  Queued \subseteq Doc /\ Stored \subseteq Doc /\ Known \subseteq Doc /\ View \subseteq Known
<1>1. \A u \in Account : Elements(mutations[u]) \subseteq Doc
  BY DEF ClientTypeOK, Elements
<1>2. Stored \subseteq Doc
  BY <1>1 DEF Stored
<1>3. View \subseteq Known
  BY DEF View, ViewOf, Known, Stored, ClientTypeOK
<1> QED
  BY <1>2, <1>3 DEF Queued, Known, ClientTypeOK

(* The worker queue stores the oldest write that waits: it is new to the store. *)
LEMMA WriteIsStored ==
  ASSUME TypeOK, LifeInv, RunWrite
  PROVE  \E d \in Queued : /\ Queued' = Queued \ {d} /\ Stored' = Stored \cup {d}
                           /\ UNCHANGED <<cache, gone, refused, lost>>
                           /\ StoredOnce(mutations') /\ WrittenOnce(workerQ')
<1> DEFINE d == Head(workerQ).doc
           M == mutations[curUser]
<1>1. /\ workerQ # <<>> /\ Head(workerQ).op = "write" /\ workerQ' = Tail(workerQ)
      /\ mutations' = [mutations EXCEPT ![curUser] = Append(@, d)]
      /\ UNCHANGED <<cache, gone, refused, lost>>
  BY DEF RunWrite
<1>2. WrittenOnce(workerQ') /\ Queued' \subseteq Queued /\ d \in Queued \ Queued'
      /\ Head(workerQ) = Write(d)
  BY <1>1, TaskGone DEF TypeOK, LifeInv
<1>3. workerQ \in Seq(Task) /\ M \in Seq(Doc) /\ curUser \in Account
      /\ mutations \in [Account -> Seq(Doc)] /\ d \in Doc
  BY <1>2 DEF TypeOK, ClientTypeOK, Queued
<1>4. Queued' = Queued \ {d}
  <2>1. Elements(workerQ) = {Write(d)} \cup Elements(workerQ')
    BY <1>1, <1>2, <1>3, ElementsOfTail
  <2>2. \A e \in Queued \ {d} : e \in Queued'
    BY <2>1 DEF Queued, Write
  <2> QED
    BY <1>2, <2>2
<1>5. /\ mutations' \in [Account -> Seq(Doc)]
      /\ mutations'[curUser] = Append(M, d)
      /\ \A u \in Account \ {curUser} : mutations'[u] = mutations[u]
  BY <1>1, <1>3, AppendProperties
<1>6. Elements(mutations'[curUser]) = Elements(M) \cup {d}
  BY <1>3, <1>5, ElementsOfAppend
<1>7. Stored' = Stored \cup {d}
  <2>1. \A x : x \in Stored' <=> x \in Stored \cup {d}
    BY <1>3, <1>5, <1>6, StoredMeans
  <2> QED
    BY <2>1
<1>8. d \notin Stored
  BY <1>2 DEF LifeInv, Apart, Known
<1>9. StoredOnce(mutations')
  <2> DEFINE m == mutations'
  <2>1. \A u \in Account : \A i \in DOMAIN m[u] :
          \/ i \in DOMAIN mutations[u] /\ m[u][i] = mutations[u][i]
          \/ u = curUser /\ i = Len(M) + 1 /\ m[u][i] = d
    BY <1>3, <1>5
  <2>2. \A u \in Account : \A i \in DOMAIN mutations[u] : mutations[u][i] # d
    BY <1>8, StoredMeans DEF Elements
  <2> HIDE DEF m
  <2> SUFFICES ASSUME NEW u \in Account, NEW v \in Account,
                      NEW i \in DOMAIN m[u], NEW j \in DOMAIN m[v], m[u][i] = m[v][j]
               PROVE  u = v /\ i = j
    BY DEF StoredOnce, m
  <2> QED
    BY <2>1, <2>2 DEF LifeInv, StoredOnce
<1> QED
  BY <1>1, <1>2, <1>4, <1>7, <1>9

(* The backend's answer takes the oldest write out of the store. *)
LEMMA WriteIsAnswered ==
  ASSUME TypeOK, LifeInv, mutations[curUser] # <<>>,
         mutations' = [mutations EXCEPT ![curUser] = Tail(@)]
  PROVE  /\ Head(mutations[curUser]) \in Stored
         /\ Stored' = Stored \ {Head(mutations[curUser])}
         /\ StoredOnce(mutations')
<1> DEFINE M == mutations[curUser]
           d == Head(M)
<1>1. curUser \in Account /\ M \in Seq(Doc) /\ mutations \in [Account -> Seq(Doc)]
  BY DEF TypeOK, ClientTypeOK
<1>2. /\ mutations'[curUser] = Tail(M)
      /\ \A u \in Account \ {curUser} : mutations'[u] = mutations[u]
  BY <1>1
<1>3. /\ 1 \in DOMAIN M /\ M[1] = d /\ Tail(M) \in Seq(Doc)
      /\ Elements(M) = {d} \cup Elements(Tail(M))
  BY <1>1, ElementsOfTail
<1>4. d \in Stored
  BY <1>1, <1>3, StoredMeans
<1>5. ASSUME NEW u \in Account, NEW i \in DOMAIN mutations'[u]
      PROVE  \/ u = curUser /\ i \in Nat /\ i >= 1
                  /\ i + 1 \in DOMAIN M /\ mutations'[u][i] = M[i + 1]
             \/ u # curUser /\ i \in DOMAIN mutations[u] /\ mutations'[u][i] = mutations[u][i]
  <2>1. CASE u = curUser
    <3>1. i \in DOMAIN Tail(M) /\ M # <<>>
      BY <1>2, <2>1
    <3>2. DOMAIN Tail(M) = 1..Len(Tail(M)) /\ Len(Tail(M)) \in Nat
      BY <1>3
    <3>3. i >= 1
      BY <3>1, <3>2
    <3>4. i \in Nat /\ i + 1 \in DOMAIN M /\ Tail(M)[i] = M[i + 1]
      BY <1>1, <3>1, TailPlaces
    <3> QED
      BY <1>2, <2>1, <3>3, <3>4
  <2>2. CASE u # curUser
    BY <1>2, <2>2
  <2> QED
    BY <2>1, <2>2
<1>6. \A u \in Account : \A i \in DOMAIN mutations'[u] : mutations'[u][i] # d
  <2> SUFFICES ASSUME NEW u \in Account, NEW i \in DOMAIN mutations'[u], mutations'[u][i] = d
               PROVE  FALSE
    OBVIOUS
  <2>1. CASE u = curUser /\ i \in Nat /\ i >= 1 /\ i + 1 \in DOMAIN M /\ d = M[i + 1]
    <3>1. i + 1 = 1
      BY <1>1, <1>3, <2>1 DEF LifeInv, StoredOnce
    <3> QED
      BY <2>1, <3>1
  <2>2. CASE u # curUser /\ i \in DOMAIN mutations[u] /\ d = mutations[u][i]
    BY <1>1, <1>3, <2>2 DEF LifeInv, StoredOnce
  <2> QED
    BY <1>5, <2>1, <2>2
<1>7. Stored' = Stored \ {d}
  <2>1. ASSUME NEW x \in Stored' PROVE x \in Stored /\ x # d
    <3>1. PICK u \in Account : x \in Elements(mutations'[u])
      BY <2>1, StoredMeans
    <3>2. PICK i \in DOMAIN mutations'[u] : x = mutations'[u][i]
      BY <3>1 DEF Elements
    <3>3. x \in Elements(mutations[u])
      BY <1>5, <3>2 DEF Elements
    <3> QED
      BY <1>6, <3>2, <3>3, StoredMeans
  <2>2. ASSUME NEW x \in Stored, x # d PROVE x \in Stored'
    <3>1. PICK u \in Account : x \in Elements(mutations[u])
      BY <2>2, StoredMeans
    <3>2. x \in Elements(mutations'[u])
      BY <1>2, <1>3, <2>2, <3>1
    <3> QED
      BY <3>2, StoredMeans
  <2> QED
    BY <2>1, <2>2
<1>8. StoredOnce(mutations')
  <2> SUFFICES ASSUME NEW u \in Account, NEW v \in Account, NEW i \in DOMAIN mutations'[u],
                      NEW j \in DOMAIN mutations'[v], mutations'[u][i] = mutations'[v][j]
               PROVE  u = v /\ i = j
    BY DEF StoredOnce
  <2>1. CASE u = curUser /\ v = curUser
    <3>1. /\ i \in Nat /\ j \in Nat /\ i + 1 \in DOMAIN M /\ j + 1 \in DOMAIN M
          /\ M[i + 1] = M[j + 1]
      BY <1>5, <2>1
    <3>2. i + 1 = j + 1
      BY <1>1, <3>1 DEF LifeInv, StoredOnce
    <3> QED
      BY <2>1, <3>1, <3>2
  <2>2. CASE u = curUser /\ v # curUser
    BY <1>1, <1>5, <2>2 DEF LifeInv, StoredOnce
  <2>3. CASE u # curUser /\ v = curUser
    BY <1>1, <1>5, <2>3 DEF LifeInv, StoredOnce
  <2>4. CASE u # curUser /\ v # curUser
    BY <1>5, <2>4 DEF LifeInv, StoredOnce
  <2> QED
    BY <2>1, <2>2, <2>3, <2>4
<1> QED
  BY <1>4, <1>7, <1>8

-----------------------------------------------------------------------------
(* The steps of the abstract specification. *)

Phases == [d \in Doc |-> PhaseOf(d)]

PhaseRow(d) == /\ d \in Queued => PhaseOf(d) = "queued"
               /\ d \in Stored => PhaseOf(d) = "stored"
               /\ d \in cache => PhaseOf(d) = "committed"
               /\ d \in gone => PhaseOf(d) = "gone"
               /\ d \in refused => PhaseOf(d) = "refused"
               /\ d \in lost => PhaseOf(d) = "lost"
               /\ d \in Fresh => PhaseOf(d) = "unsent"
               /\ d \notin Queued => PhaseOf(d) # "queued"

PhaseTable == \A d \in Doc : PhaseRow(d)

(* A document in one place has the phase of that place. *)
LEMMA PhaseMeans ==
  ASSUME Apart, NEW d \in Doc
  PROVE  PhaseRow(d)
<1>1. CASE d \in Queued
  BY <1>1 DEF Apart, Known, Fresh, PhaseOf, PhaseRow
<1>2. CASE d \in Stored
  BY <1>2 DEF Apart, Known, Fresh, PhaseOf, PhaseRow
<1>3. CASE d \in cache
  BY <1>3 DEF Apart, Known, Fresh, PhaseOf, PhaseRow
<1>4. CASE d \in gone
  BY <1>4 DEF Apart, Known, Fresh, PhaseOf, PhaseRow
<1>5. CASE d \in refused
  BY <1>5 DEF Apart, Known, Fresh, PhaseOf, PhaseRow
<1>6. CASE d \in lost
  BY <1>6 DEF Apart, Known, Fresh, PhaseOf, PhaseRow
<1>7. CASE d \in Fresh
  BY <1>7 DEF Apart, Known, Fresh, PhaseOf, PhaseRow
<1> QED
  BY <1>1, <1>2, <1>3, <1>4, <1>5, <1>6, <1>7 DEF Fresh, PhaseRow

LEMMA PhasesMean == /\ Apart => PhaseTable
                    /\ Apart' => PhaseTable'
<1>1. Apart => PhaseTable
  BY PhaseMeans DEF PhaseTable
<1>2. (Apart => PhaseTable)'
  BY <1>1, PTL
<1> QED
  BY <1>1, <1>2

(* A document that stays where it is keeps its phase. *)
LEMMA PhaseStays ==
  ASSUME NEW d, d \in Queued' <=> d \in Queued, d \in Stored' <=> d \in Stored,
         d \in cache' <=> d \in cache, d \in gone' <=> d \in gone,
         d \in refused' <=> d \in refused, d \in lost' <=> d \in lost
  PROVE  PhaseOf(d)' = PhaseOf(d)
BY DEF PhaseOf

Still == UNCHANGED <<Queued, Stored, cache, gone, refused, lost>>

(* One document moves, along one arrow of the life cycle. *)
Enters(d) ==
  \/ /\ d \in Fresh /\ Queued' = Queued \cup {d}
     /\ UNCHANGED <<Stored, cache, gone, refused, lost>>
  \/ /\ d \in Queued /\ Queued' = Queued \ {d} /\ Stored' = Stored \cup {d}
     /\ UNCHANGED <<cache, gone, refused, lost>>
  \/ /\ d \in Stored /\ Stored' = Stored \ {d} /\ cache' = cache \cup {d}
     /\ UNCHANGED <<Queued, gone, refused, lost>>
  \/ /\ d \in Stored /\ Stored' = Stored \ {d} /\ refused' = refused \cup {d}
     /\ UNCHANGED <<Queued, cache, gone, lost>>
  \/ /\ d \in cache /\ cache' = cache \ {d} /\ gone' = gone \cup {d}
     /\ UNCHANGED <<Queued, Stored, refused, lost>>
  \/ /\ d \in Fresh /\ cache' = cache \cup {d}
     /\ UNCHANGED <<Queued, Stored, gone, refused, lost>>

Shows == shown' = shown \/ shown' = messages

LEMMA MoveKeepsApart ==
  ASSUME Apart, Still \/ \E d \in Doc : Enters(d)
  PROVE  Apart' /\ Known \subseteq Known'
<1>1. CASE Still
  BY <1>1 DEF Still, Apart, Known
<1>2. ASSUME NEW d \in Doc, Enters(d) PROVE Apart' /\ Known \subseteq Known'
  BY <1>2 DEF Enters, Apart, Known, Fresh
<1> QED
  BY <1>1, <1>2

LEMMA MoveIsMove ==
  ASSUME Apart, NEW d \in Doc, Enters(d), shown' = shown
  PROVE  Life!LifeNext
<1>1. Apart'
  BY MoveKeepsApart
<1>2. ASSUME NEW e \in Doc, e # d PROVE PhaseOf(e)' = PhaseOf(e)
  BY <1>2, PhaseStays DEF Enters
<1>3. <<PhaseOf(d), PhaseOf(d)'>> \in Life!Moves
  <2>1. PhaseTable /\ PhaseTable'
    BY <1>1, PhasesMean
  <2> QED
    BY <2>1 DEF Enters, PhaseTable, PhaseRow, Life!Moves
<1>4. PhaseOf(d)' \in Life!Phase
  BY <1>3 DEF Life!Moves, Life!Phase
<1>5. Phases' = [Phases EXCEPT ![d] = PhaseOf(d)']
  BY <1>2 DEF Phases
<1>6. Life!Move(d, PhaseOf(d)')
  BY <1>3, <1>5 DEF Life!Move, Phases
<1> QED
  BY <1>4, <1>6 DEF Life!LifeNext

LEMMA ShowIsShow ==
  ASSUME TypeOK, LifeInv, Still, Shows
  PROVE  [Life!LifeNext]_(Life!lifeVars)
<1>1. Phases' = Phases
  <2>1. ASSUME NEW e \in Doc PROVE PhaseOf(e)' = PhaseOf(e)
    BY PhaseStays DEF Still
  <2> QED
    BY <2>1 DEF Phases
<1>2. CASE shown' = shown
  BY <1>1, <1>2 DEF Life!lifeVars, Phases
<1>3. CASE shown' = messages
  <2> DEFINE S == messages \ Placeholder
  <2>1. S \subseteq Known /\ S \in SUBSET Doc
    BY ChatAssumption DEF LifeInv, SeenKnown, TypeOK
  <2>2. S \subseteq Life!Showable
    BY <2>1, PhaseMeans DEF PhaseRow, LifeInv, Known, Life!Showable
  <2>3. Life!Show(S)
    BY <1>1, <1>3, <2>2 DEF Life!Show, Phases
  <2> QED
    BY <2>1, <2>3 DEF Life!LifeNext
<1> QED
  BY <1>2, <1>3 DEF Shows

(* What the client does to the places of the documents. *)
LEMMA WorkerMoves ==
  ASSUME TypeOK, LifeInv, WorkerStep
  PROVE  /\ Still \/ \E d \in Doc : Enters(d)
         /\ StoredOnce(mutations') /\ WrittenOnce(workerQ')
<1>1. CASE RunWrite
  <2>1. PICK d \in Queued : /\ Queued' = Queued \ {d} /\ Stored' = Stored \cup {d}
                            /\ UNCHANGED <<cache, gone, refused, lost>>
                            /\ StoredOnce(mutations') /\ WrittenOnce(workerQ')
    BY <1>1, WriteIsStored
  <2>2. d \in Doc /\ Enters(d)
    BY <2>1 DEF Queued, Enters
  <2> QED
    BY <2>1, <2>2
<1>2. CASE RunListen \/ RunUser
  <2>1. /\ workerQ # <<>> /\ Head(workerQ).op # "write" /\ workerQ' = Tail(workerQ)
        /\ workerQ \in Seq(Task)
        /\ UNCHANGED <<mutations, cache, gone, refused, lost>>
    BY <1>2 DEF RunListen, RunUser, TypeOK, ClientTypeOK
  <2>2. WrittenOnce(workerQ')
    BY <2>1, TaskGone DEF TypeOK, LifeInv
  <2>3. Elements(workerQ) = {Head(workerQ)} \cup Elements(workerQ')
    BY <2>1, ElementsOfTail
  <2>4. \A d \in Doc : Write(d) \in Elements(workerQ) <=> Write(d) \in Elements(workerQ')
    <3>1. \A d \in Doc : Head(workerQ) # Write(d)
      BY <2>1 DEF Write
    <3> QED
      BY <2>3, <3>1
  <2>5. Queued' = Queued
    BY <2>4 DEF Queued
  <2>6. Stored' = Stored
    BY <2>1, StoredUnchanged
  <2> QED
    BY <2>1, <2>2, <2>5, <2>6 DEF Still, LifeInv
<1> QED
  BY <1>1, <1>2 DEF WorkerStep

LEMMA NetworkMoves ==
  ASSUME TypeOK, LifeInv, NetworkStep
  PROVE  /\ Still \/ \E d \in Doc : Enters(d)
         /\ StoredOnce(mutations') /\ WrittenOnce(workerQ')
<1>a. workerQ' = workerQ
  BY DEF NetworkStep, WriteAccepted, WriteRejected, WatchAdds, WatchRemoves, WatchCurrent,
         OnlineStateChanges, ListenFails
<1>b. Queued' = Queued /\ WrittenOnce(workerQ')
  BY <1>a DEF Queued, LifeInv
<1>1. CASE WriteAccepted \/ WriteRejected
  <2> DEFINE d == Head(mutations[curUser])
  <2>1. /\ mutations[curUser] # <<>>
        /\ mutations' = [mutations EXCEPT ![curUser] = Tail(@)]
        /\ \/ cache' = cache \cup {d} /\ UNCHANGED <<gone, refused, lost>>
           \/ refused' = refused \cup {d} /\ UNCHANGED <<cache, gone, lost>>
    BY <1>1 DEF WriteAccepted, WriteRejected
  <2>2. d \in Stored /\ Stored' = Stored \ {d} /\ StoredOnce(mutations') /\ d \in Doc
    BY <2>1, WriteIsAnswered, PlacesAreDocs DEF TypeOK
  <2>3. Enters(d)
    BY <1>b, <2>1, <2>2 DEF Enters
  <2> QED
    BY <1>b, <2>2, <2>3
<1>2. ASSUME NEW d \in Doc, WatchAdds(d) \/ WatchRemoves(d)
      PROVE  Enters(d) /\ mutations' = mutations
  <2>1. mutations' = mutations /\ Stored' = Stored
    BY <1>2, StoredUnchanged DEF WatchAdds, WatchRemoves
  <2> QED
    BY <1>2, <1>b, <2>1 DEF WatchAdds, WatchRemoves, Enters
<1>3. ASSUME NEW new, WatchCurrent \/ OnlineStateChanges(new) \/ ListenFails
      PROVE  Still /\ mutations' = mutations
  <2>1. UNCHANGED <<mutations, cache, gone, refused, lost>>
    BY <1>3 DEF WatchCurrent, OnlineStateChanges, ListenFails
  <2> QED
    BY <1>b, <2>1, StoredUnchanged DEF Still
<1> QED
  BY <1>b, <1>1, <1>2, <1>3 DEF NetworkStep, LifeInv

LEMMA ViewIsKnown == /\ ClientTypeOK => View \subseteq Known
                     /\ ClientTypeOK' => View' \subseteq Known'
<1>1. ClientTypeOK => View \subseteq Known
  BY PlacesAreDocs
<1>2. (ClientTypeOK => View \subseteq Known)'
  BY <1>1, PTL
<1> QED
  BY <1>1, <1>2

(* The events a client step posts hold the new view. *)
LEMMA ClientLives ==
  ASSUME TypeOK, TypeOK', LifeInv, WorkerStep \/ NetworkStep,
         messages' = messages, shown' = shown
  PROVE  LifeInv' /\ [Life!LifeNext]_(Life!lifeVars)
<1>1. /\ Still \/ \E d \in Doc : Enters(d)
      /\ StoredOnce(mutations') /\ WrittenOnce(workerQ')
  BY WorkerMoves, NetworkMoves
<1>2. Apart /\ Apart' /\ Known \subseteq Known'
  BY <1>1, MoveKeepsApart DEF LifeInv
<1>3. PICK s \in Seq(Block) : Appended(s)
  BY WorkerAppends, NetworkAppends DEF ClientAppends
<1>4. Elements(mainQ') = Elements(mainQ) \cup Elements(s)
  BY <1>3, ElementsOfConcat DEF Appended, TypeOK, ClientTypeOK
<1>5. View' \subseteq Known'
  BY ViewIsKnown DEF TypeOK
<1>6. SeenKnown'
  <2>1. \A b \in Elements(mainQ') : b.kind = "snapshot" => b.docs \subseteq Known'
    BY <1>2, <1>3, <1>4, <1>5 DEF Appended, LifeInv, SeenKnown
  <2> QED
    BY <1>2, <2>1 DEF LifeInv, SeenKnown
<1>7. [Life!LifeNext]_(Life!lifeVars)
  BY <1>1, <1>2, ShowIsShow, MoveIsMove DEF Shows
<1> QED
  BY <1>1, <1>2, <1>6, <1>7 DEF LifeInv

(* A block of the main queue moves no document; at most the table follows the
   array, or the array follows an event. *)
LEMMA MainLives ==
  ASSUME TypeOK, LifeInv, MainStep
  PROVE  LifeInv' /\ [Life!LifeNext]_(Life!lifeVars)
<1>1. /\ UNCHANGED <<mutations, callbacks, cache, gone, refused, lost>>
      /\ Shows
      /\ \/ messages' = messages
         \/ messages' = {}
         \/ Head(mainQ).kind = "snapshot" /\ messages' \subseteq Head(mainQ).docs
  BY DEF MainStep, RunSnapshot, RunError, RunReload, RunSaved, RunFailed, RunClear, RunAuth,
         Runs, Only, screenVars, Shows
<1>2. Queued' = Queued /\ WrittenOnce(workerQ')
  <2>1. CASE workerQ' = workerQ
    BY <2>1 DEF Queued, LifeInv
  <2>2. ASSUME NEW u \in Account, workerQ' = Append(workerQ, Become(u))
        PROVE  Queued' = Queued /\ WrittenOnce(workerQ')
    <3>1. Elements(workerQ') = Elements(workerQ) \cup {Become(u)}
      BY <2>2, BecomeIsQuiet, ElementsOfAppend DEF TypeOK, ClientTypeOK
    <3>2. \A d \in Doc : Write(d) \in Elements(workerQ') <=> Write(d) \in Elements(workerQ)
      BY <3>1, BecomeIsQuiet
    <3>3. WrittenOnce(workerQ')
      BY <2>2, BecomeIsQuiet, TaskPosted DEF TypeOK, LifeInv
    <3> QED
      BY <3>2, <3>3 DEF Queued
  <2> QED
    BY <2>1, <2>2, MainTasks
<1>3. Still
  BY <1>1, <1>2, StoredUnchanged DEF Still
<1>4. Apart' /\ Known \subseteq Known'
  BY <1>3, MoveKeepsApart DEF LifeInv
<1>5. PICK s \in Seq(Block) :
        /\ mainQ' = Tail(mainQ) \o s
        /\ \A b \in Elements(s) : b.kind = "reload" \/ (b.kind = "clear" /\ RunSaved)
  BY MainQueue
<1>6. /\ Elements(mainQ) = {Head(mainQ)} \cup Elements(Tail(mainQ))
      /\ Elements(mainQ') = Elements(Tail(mainQ)) \cup Elements(s)
  <2>1. \A p, q \in Seq(Block) : Elements(p \o q) = Elements(p) \cup Elements(q)
    BY ElementsOfConcat
  <2>2. mainQ # <<>> /\ mainQ \in Seq(Block) /\ Tail(mainQ) \in Seq(Block)
    BY MainQueue
  <2> QED
    BY <1>5, <2>1, <2>2, ElementsOfTail
<1>7. Head(mainQ) \in Elements(mainQ) /\ \A b \in Elements(s) : b.kind # "snapshot"
  BY <1>5, <1>6
<1>8. SeenKnown'
  <2>1. messages' \subseteq Known \cup Placeholder
    BY <1>1, <1>7 DEF LifeInv, SeenKnown
  <2>2. shown' \subseteq Known \cup Placeholder
    BY <1>1 DEF Shows, LifeInv, SeenKnown
  <2>3. \A b \in Elements(mainQ') : b.kind = "snapshot" => b.docs \subseteq Known
    BY <1>6, <1>7 DEF LifeInv, SeenKnown
  <2> QED
    BY <1>4, <2>1, <2>2, <2>3 DEF SeenKnown
<1>9. StoredOnce(mutations')
  BY <1>1 DEF LifeInv
<1> QED
  BY <1>1, <1>2, <1>3, <1>4, <1>8, <1>9, ShowIsShow DEF LifeInv

LEMMA UserLives ==
  ASSUME TypeOK, LifeInv, UserStep
  PROVE  LifeInv' /\ [Life!LifeNext]_(Life!lifeVars)
<1>1. /\ UNCHANGED <<mutations, cache, gone, refused, lost>>
      /\ messages' = messages /\ Shows
      /\ workerQ' = workerQ \/ \E d \in Doc : SendPressed(d)
  BY DEF UserStep, FirstLayout, TouchMissingRow, Type, SendPressed, LogOutPressed,
         ForcedSignOut, SignInAgain, Only, clientVars, screenVars, Shows
<1>2. StoredOnce(mutations') /\ Stored' = Stored
  BY <1>1, StoredUnchanged DEF LifeInv
<1>3. \A b \in Elements(mainQ') : b.kind = "snapshot" => b \in Elements(mainQ)
  <2>1. ASSUME NEW u \in Account, mainQ' = Append(mainQ, Auth(u))
        PROVE  \A b \in Elements(mainQ') : b.kind = "snapshot" => b \in Elements(mainQ)
    BY <2>1, AuthAppended
  <2> QED
    BY <2>1, UserQueue
<1>4. ASSUME Known \subseteq Known' PROVE SeenKnown'
  BY <1>1, <1>3, <1>4 DEF Shows, LifeInv, SeenKnown
<1>5. CASE workerQ' = workerQ
  <2>1. Queued' = Queued /\ WrittenOnce(workerQ')
    BY <1>5 DEF Queued, LifeInv
  <2>2. Still
    BY <1>1, <1>2, <2>1 DEF Still
  <2>3. Apart' /\ SeenKnown'
    BY <1>4, <2>2, MoveKeepsApart DEF LifeInv
  <2> QED
    BY <1>1, <1>2, <2>1, <2>2, <2>3, ShowIsShow DEF LifeInv
<1>6. ASSUME NEW d \in Doc, SendPressed(d) PROVE LifeInv' /\ [Life!LifeNext]_(Life!lifeVars)
  <2>1. workerQ' = Append(workerQ, Write(d)) /\ d \in Fresh /\ shown' = shown
    BY <1>6 DEF SendPressed
  <2>2. Write(d) \in Task /\ Write(d).op = "write" /\ Write(d).doc = d
        /\ \A e \in Doc : Write(e) = Write(d) => e = d
    BY DEF Write, Task
  <2>3. Write(d) \notin Elements(workerQ)
    BY <2>1 DEF Fresh, Queued
  <2>4. WrittenOnce(workerQ')
    BY <2>1, <2>2, <2>3, TaskPosted DEF TypeOK, LifeInv
  <2>5. Elements(workerQ') = Elements(workerQ) \cup {Write(d)}
    BY <2>1, <2>2, ElementsOfAppend DEF TypeOK, ClientTypeOK
  <2>6. Queued' = Queued \cup {d}
    BY <2>2, <2>5 DEF Queued
  <2>7. Enters(d)
    BY <1>1, <1>2, <2>1, <2>6 DEF Enters
  <2>8. Apart' /\ SeenKnown'
    BY <1>4, <2>7, MoveKeepsApart DEF LifeInv
  <2>9. Life!LifeNext
    BY <2>1, <2>7, MoveIsMove DEF LifeInv
  <2> QED
    BY <1>2, <2>4, <2>8, <2>9 DEF LifeInv
<1> QED
  BY <1>1, <1>5, <1>6

(* After a launch what was queued is lost; what was stored is still there. *)
LEMMA RelaunchLives ==
  ASSUME TypeOK, LifeInv, NEW w \in User, Relaunch(w)
  PROVE  LifeInv' /\ [Life!LifeNext]_(Life!lifeVars)
<1>1. /\ workerQ' = <<Listen>> /\ mainQ' = <<>> /\ lost' = lost \cup Queued
      /\ UNCHANGED <<mutations, cache, gone, refused>>
      /\ messages' = Placeholder /\ shown' = {}
  BY DEF Relaunch
<1>2. Queued' = {} /\ WrittenOnce(workerQ')
  BY <1>1 DEF Queued, Elements, Listen, Write, WrittenOnce
<1>3. Stored' = Stored /\ StoredOnce(mutations') /\ Known' = Known
  BY <1>1, StoredUnchanged DEF LifeInv, Known
<1>4. Apart'
  BY <1>1, <1>2, <1>3 DEF LifeInv, Apart
<1>5. SeenKnown'
  BY <1>1 DEF SeenKnown, Elements
<1>6. \A d \in Doc : PhaseOf(d)' = IF PhaseOf(d) = "queued" THEN "lost" ELSE PhaseOf(d)
  <2> SUFFICES ASSUME NEW d \in Doc
               PROVE  PhaseOf(d)' = IF PhaseOf(d) = "queued" THEN "lost" ELSE PhaseOf(d)
    OBVIOUS
  <2>1. PhaseTable /\ PhaseTable'
    BY <1>4, PhasesMean DEF LifeInv
  <2>2. CASE d \in Queued
    BY <1>1, <2>1, <2>2 DEF PhaseTable, PhaseRow
  <2>3. CASE d \notin Queued
    <3>1. PhaseOf(d)' = PhaseOf(d)
      BY <1>1, <1>2, <1>3, <2>3, PhaseStays
    <3> QED
      BY <2>1, <2>3, <3>1 DEF PhaseTable, PhaseRow
  <2> QED
    BY <2>2, <2>3
<1>7. Life!Restart
  BY <1>1, <1>6, ChatAssumption DEF Life!Restart
<1> QED
  BY <1>2, <1>3, <1>4, <1>5, <1>7 DEF LifeInv, Life!LifeNext

LEMMA LifeStarts ==
  ASSUME Init
  PROVE  LifeInv /\ Life!LifeInit
<1>1. /\ workerQ = <<Listen>> /\ mainQ = <<>> /\ mutations = [u \in Account |-> <<>>]
      /\ gone = {} /\ refused = {} /\ lost = {} /\ messages = Placeholder /\ shown = {}
  BY DEF Init, ClientInit
<1>2. Queued = {} /\ WrittenOnce(workerQ)
  BY <1>1 DEF Queued, Elements, Listen, Write, WrittenOnce
<1>3. Stored = {} /\ StoredOnce(mutations)
  BY <1>1 DEF Stored, Elements, StoredOnce
<1>4. Apart /\ SeenKnown
  BY <1>1, <1>2, <1>3 DEF Apart, Known, SeenKnown, Elements
<1>5. \A d \in Doc : PhaseOf(d) \in {"unsent", "committed"}
  BY <1>1, <1>2, <1>3 DEF PhaseOf
<1>6. Life!LifeInit
  BY <1>1, <1>5 DEF Life!LifeInit
<1> QED
  BY <1>2, <1>3, <1>4, <1>6 DEF LifeInv

LEMMA LifeStep ==
  ASSUME TypeOK, TypeOK', LifeInv, [Next]_vars
  PROVE  LifeInv' /\ [Life!LifeNext]_(Life!lifeVars)
<1>1. CASE ClientStep(WorkerStep) \/ ClientStep(NetworkStep)
  BY <1>1, ClientLives DEF ClientStep, screenVars
<1>2. CASE MainStep
  BY <1>2, MainLives
<1>3. CASE UserStep
  BY <1>3, UserLives
<1>4. ASSUME NEW w \in User, Relaunch(w) PROVE LifeInv' /\ [Life!LifeNext]_(Life!lifeVars)
  BY <1>4, RelaunchLives
<1>5. CASE UNCHANGED vars
  <2>1. UNCHANGED <<workerQ, mainQ, mutations, cache, gone, refused, lost, messages, shown>>
    BY <1>5 DEF vars, clientVars, screenVars
  <2>2. Still /\ Shows
    BY <2>1, StoredUnchanged DEF Still, Shows, Queued
  <2>3. LifeInv'
    BY <2>1, <2>2 DEF Still, LifeInv, Apart, Known, SeenKnown
  <2> QED
    BY <2>2, <2>3, ShowIsShow
<1> QED
  BY <1>1, <1>2, <1>3, <1>4, <1>5 DEF Next

(* Whatever the order of taps, callbacks, sign-outs, network answers and
   launches, a message moves forward through its phases, once, and the table
   shows it only after it was stored or committed: the screen over the client
   implements MessageLifecycle. *)
THEOREM ChatImplementsLifecycle == Spec => LifecycleHolds
<1>1. Init => LifeInv /\ Life!LifeInit
  BY LifeStarts
<1>2. TypeOK /\ TypeOK' /\ LifeInv /\ [Next]_vars
        => LifeInv' /\ [Life!LifeNext]_(Life!lifeVars)
  BY LifeStep
<1> QED
  BY <1>1, <1>2, TypeCorrect, PTL DEF Spec, LifecycleHolds, Life!LifeSpec
=============================================================================
